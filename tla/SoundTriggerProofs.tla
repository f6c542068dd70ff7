-------------------------- MODULE SoundTriggerProofs --------------------------
(***************************************************************************)
(* The deferred stop of a sound trigger stream. After a detection its      *)
(* client has been told of, a timer stops the stream unless the client has *)
(* started it again; pending_stop, the timer's flag, the stream's state    *)
(* and the client's are set and read by different threads, with the mutex  *)
(* or without. The inductive invariant says who holds the mutex and with   *)
(* which sections left (Planned), what a pending stop implies (Pending),   *)
(* and what the verdicts of second stage engines do (Verdicts). Once the   *)
(* destructor waits for the timer (Leaving), the last two no longer        *)
(* matter.                                                                 *)
(*                                                                         *)
(* First the lists: what the calls on the engines and the handlers of      *)
(* events put in front of the sections a thread still has to run, and that *)
(* each step leads from one such list to another. A step that works on the *)
(* stream or its engines with the stream's mutex (Works) keeps to its      *)
(* thread's list and leaves the other threads' alone.                      *)
(***************************************************************************)
EXTENDS StreamSoundTrigger, ListLemmas, FiniteSetTheorems

------------------------------------------------------------------------------
(***************************************************************************)
(* The sections: names alone, and names with an argument.                  *)
(***************************************************************************)
Plain == {"exit", "gslClose", "gslStart", "gslStop", "gslRestart", "capiStart", "startFails",
          "restartFails", "halted", "unwake", "started", "restarted", "connected", "loaded",
          "unloaded", "reconfigured", "offline", "online"}

(***************************************************************************)
(* The events that a state handles.                                        *)
(***************************************************************************)
Events == {"load", "config", "start", "stop", "unload", "pause", "resume", "concurrent",
           "concurrentEnd", "disconnect", "connect", "online", "offline"}

(***************************************************************************)
(* What a call may have to do before it returns.                           *)
(***************************************************************************)
Section == {<<n>> : n \in Plain}
           \cup ({"gslLoad", "loadFails"} \X {"new", "same"})
           \cup ({"quit", "await", "join"} \X Engines)
           \cup ({"handle"} \X Events)

(***************************************************************************)
(* The sections by which engines are stopped or unloaded, by which the     *)
(* other engines are stopped after a rejection, and by which recognition   *)
(* starts again.                                                           *)
(***************************************************************************)
Ending == {<<n>> : n \in {"exit", "gslStop", "gslClose", "unwake"}}
           \cup ({"quit", "await", "join"} \X Engines)

Deciding == {"quit", "await"} \X Engines

Renewing == {<<n>> : n \in {"exit", "gslRestart", "restartFails", "restarted", "unwake"}}
           \cup Deciding

(***************************************************************************)
(* The last section of a call of one of the operations ops: its status,    *)
(* the operation and the state the client knew; and the last section of an *)
(* engine's thread.                                                        *)
(***************************************************************************)
CallStates == {"IDLE", "OPENED", "STARTED", "STOPPED"}

Leaves(ops) == {l \in [1..4 -> {"leave"} \cup BOOLEAN \cup ops \cup CallStates] :
                  l[1] = "leave" /\ l[2] \in BOOLEAN /\ l[3] \in ops /\ l[4] \in CallStates}

Outcomes(name) == {e \in [1..2 -> {name} \cup BOOLEAN] : e[1] = name /\ e[2] \in BOOLEAN}

(***************************************************************************)
(* SetToSeq lists a finite set; stated for the sets of engines, it needs   *)
(* no induction.                                                           *)
(***************************************************************************)
LEMMA ListOf ==
  ASSUME NEW E, IsFiniteSet(E)
  PROVE  Cardinality(E) \in Nat /\ SetToSeq(E) \in [1..Cardinality(E) -> E]
<1>1. Cardinality(E) \in Nat /\ ExistsBijection(1..Cardinality(E), E)
  BY FS_CardinalityType
<1>2. \E f \in [1..Cardinality(E) -> E] : IsInjective(f)
  BY <1>1 DEF ExistsBijection, Bijection, Injection
<1> QED
  BY <1>1, <1>2 DEF SetToSeq

(***************************************************************************)
(* A call on the second stage engines is a list of sections, two per       *)
(* engine.                                                                 *)
(***************************************************************************)
LEMMA Stage2Is ==
  ASSUME NEW E, IsFiniteSet(E), NEW call, NEW S, {"quit", call} \X E \subseteq S
  PROVE  Stage2(E, call) \in Seq(S)
<1> DEFINE n == 2 * Cardinality(E)
           f == Stage2(E, call)
<1>1. Cardinality(E) \in Nat /\ SetToSeq(E) \in [1..Cardinality(E) -> E]
  BY ListOf
<1>2. \A i \in 1..n : (i + 1) \div 2 \in 1..Cardinality(E)
  BY <1>1
<1>3. \A i \in 1..n : f[i] \in {"quit", call} \X E
  BY <1>1, <1>2 DEF Stage2
<1>4. f \in [1..n -> S]
  BY <1>3 DEF Stage2
<1> QED
  BY <1>1, <1>4, SeqDef

(***************************************************************************)
(* All three sets are sections of calls.                                   *)
(***************************************************************************)
LEMMA SectionSets ==
  /\ Ending \subseteq Section
  /\ Renewing \subseteq Section
  /\ Deciding \subseteq Ending
BY DEF Ending, Renewing, Deciding, Section, Plain

(***************************************************************************)
(* The engines of a configuration are engines, finitely many.              *)
(***************************************************************************)
LEMMA SecondFinite ==
  ASSUME config \in Configs
  PROVE  config.second \subseteq Engines /\ \A E \in SUBSET config.second : IsFiniteSet(E)
<1>1. config.second \subseteq Engines
  BY ConfigsAssumption DEF Config
<1> QED
  BY <1>1, EnginesAssumption, FS_Subset

(***************************************************************************)
(* So is a call on the first stage.                                        *)
(***************************************************************************)
LEMMA Stage1Is ==
  ASSUME NEW S, NEW call, <<"exit">> \in S, <<call>> \in S
  PROVE  Stage1(call) \in Seq(S)
BY DEF Stage1

(***************************************************************************)
(* The lists by which the stream stops, unloads, restarts and starts its   *)
(* engines.                                                                *)
(***************************************************************************)
LEMMA ListsOfEngines ==
  ASSUME config \in Configs
  PROVE  /\ StopEngines \in Seq(Ending)
         /\ UnloadEngines \in Seq(Ending)
         /\ RestartEngines \in Seq(Renewing)
         /\ StartEngines \in Seq(Section)
         /\ Stage1("gslClose") \in Seq(Section)
         /\ \A t : Stage2(config.second \ {t}, "await") \in Seq(Deciding)
<1>1. \A E \in SUBSET config.second : IsFiniteSet(E) /\ E \subseteq Engines
  BY SecondFinite
<1>2. \A E \in SUBSET config.second : Stage2(E, "await") \in Seq(Deciding)
  BY <1>1, Stage2Is DEF Deciding
<1>3. Stage2(config.second, "join") \in Seq(Ending)
  BY <1>1, Stage2Is DEF Ending
<1>4. Deciding \subseteq Ending /\ Deciding \subseteq Renewing
  BY DEF Ending, Renewing, Deciding
<1>5. Stage1("gslStop") \in Seq(Ending) /\ Stage1("gslClose") \in Seq(Ending)
  BY Stage1Is DEF Ending
<1>6. Stage1("gslClose") \in Seq(Section) /\ Stage1("gslStart") \in Seq(Section)
  BY Stage1Is DEF Section, Plain
<1>7. Stage1("gslRestart") \in Seq(Renewing)
  BY Stage1Is DEF Renewing
<1>8. /\ Stage2(config.second, "await") \in Seq(Ending)
      /\ Stage2(config.second, "await") \in Seq(Renewing)
  BY <1>2, <1>4, SeqMonotonic
<1>9. <<<<"capiStart">>>> \in Seq(Section)
  BY DEF Section, Plain
<1>10. StopEngines \in Seq(Ending) /\ UnloadEngines \in Seq(Ending)
  BY <1>3, <1>5, <1>8, ConcatProperties DEF StopEngines, UnloadEngines
<1>11. RestartEngines \in Seq(Renewing) /\ StartEngines \in Seq(Section)
  BY <1>6, <1>7, <1>8, <1>9, ConcatProperties DEF RestartEngines, StartEngines
<1> QED
  BY <1>2, <1>6, <1>10, <1>11

(***************************************************************************)
(* What a call of one of ops may have left: sections, then its return.     *)
(***************************************************************************)
CallLists(ops) == UNION {After(Section, <<l>>) : l \in Leaves(ops)}

(***************************************************************************)
(* The return that Enter appends is a last section;                        *)
(***************************************************************************)
LEMMA LeaveIs ==
  ASSUME NEW ops, NEW op \in ops, NEW b \in BOOLEAN, NEW s \in CallStates
  PROVE  <<"leave", b, op, s>> \in Leaves(ops)
BY DEF Leaves

(***************************************************************************)
(* it stays one when the call fails (Fail, RestartFails);                  *)
(***************************************************************************)
LEMMA LeaveFails ==
  ASSUME NEW ops, NEW l \in Leaves(ops)
  PROVE  [l EXCEPT ![2] = FALSE] \in Leaves(ops)
<1> DEFINE S == {"leave"} \cup BOOLEAN \cup ops \cup CallStates
           f == [l EXCEPT ![2] = FALSE]
<1>1. l \in [1..4 -> S] /\ l[1] = "leave" /\ l[3] \in ops /\ l[4] \in CallStates
  BY DEF Leaves
<1>2. f \in [1..4 -> S]
  BY <1>1
<1>3. f[1] = l[1] /\ f[3] = l[3] /\ f[4] = l[4]
  BY <1>1
<1>4. f[2] = FALSE
  BY <1>1
<1> HIDE DEF f
<1>5. f[2] \in BOOLEAN
  BY <1>4
<1> QED
  BY <1>1, <1>2, <1>3, <1>5 DEF Leaves, f

(***************************************************************************)
(* and so does an engine's.                                                *)
(***************************************************************************)
LEMMA OutcomeFails ==
  ASSUME NEW name, NEW e \in Outcomes(name)
  PROVE  [e EXCEPT ![2] = FALSE] \in Outcomes(name)
<1> DEFINE S == {name} \cup BOOLEAN
           f == [e EXCEPT ![2] = FALSE]
<1>1. e \in [1..2 -> S] /\ e[1] = name
  BY DEF Outcomes
<1>2. f \in [1..2 -> S]
  BY <1>1
<1>3. f[1] = e[1]
  BY <1>1
<1>4. f[2] = FALSE
  BY <1>1
<1> HIDE DEF f
<1>5. f[2] \in BOOLEAN
  BY <1>4
<1> QED
  BY <1>1, <1>2, <1>3, <1>5 DEF Outcomes, f

(***************************************************************************)
(* The same as lists.                                                      *)
(***************************************************************************)
LEMMA LeafLists ==
  ASSUME NEW ops, NEW l \in Leaves(ops)
  PROVE  /\ l[1] = "leave" /\ [l EXCEPT ![2] = FALSE] \in Leaves(ops)
         /\ <<l>> \in Seq({l}) /\ <<l>> # <<>> /\ Head(<<l>>) = l /\ Last(<<l>>) = l
<1>1. l[1] = "leave"
  BY DEF Leaves
<1>2. <<l>> \in Seq({l}) /\ <<l>> # <<>> /\ Head(<<l>>) = l /\ Last(<<l>>) = l
  BY DEF Last
<1> QED
  BY <1>1, <1>2, LeaveFails

(***************************************************************************)
(* From a call's list: the next section, and any sections in its place,    *)
(* give such a list; so does the return of a call that fails.              *)
(***************************************************************************)
LEMMA CallGoesOn ==
  ASSUME NEW ops, NEW q \in CallLists(ops)
  PROVE  /\ q # <<>> /\ Last(q) \in Leaves(ops)
         /\ <<[Last(q) EXCEPT ![2] = FALSE]>> \in CallLists(ops)
         /\ Head(q)[1] # "leave" =>
               Head(q) \in Section /\ \A m \in Seq(Section) : m \o Tail(q) \in CallLists(ops)
         /\ \A m \in Seq(Section) : m \o <<[Last(q) EXCEPT ![2] = FALSE]>> \in CallLists(ops)
<1>1. PICK l \in Leaves(ops) : q \in After(Section, <<l>>)
  BY DEF CallLists
<1>2. /\ l[1] = "leave" /\ [l EXCEPT ![2] = FALSE] \in Leaves(ops)
      /\ <<l>> \in Seq({l}) /\ <<l>> # <<>> /\ Head(<<l>>) = l /\ Last(<<l>>) = l
  BY LeafLists
<1>3. q # <<>> /\ Last(q) = l
  <2>1. <<l>> \in Seq({l}) /\ <<l>> # <<>> /\ Last(<<l>>) = l
    BY <1>2
  <2> QED
    BY <1>1, <2>1, AfterIsList
<1> DEFINE f == [l EXCEPT ![2] = FALSE]
<1>4. <<f>> \in Seq({f})
  OBVIOUS
<1>5. <<f>> \in After(Section, <<f>>)
  BY <1>4, AfterNothing
<1>6. f \in Leaves(ops)
  BY <1>2
<1>7. \A m \in Seq(Section) : m \o <<f>> \in After(Section, <<f>>)
  BY DEF After
<1>8. ASSUME Head(q)[1] # "leave"
      PROVE  Head(q) \in Section /\ \A m \in Seq(Section) : m \o Tail(q) \in CallLists(ops)
  <2>1. q # <<l>>
    BY <1>2, <1>8
  <2>2. Head(q) \in Section /\ Tail(q) \in After(Section, <<l>>)
    BY <1>1, <1>2, <2>1, AfterTail
  <2>3. \A m \in Seq(Section) : m \o Tail(q) \in After(Section, <<l>>)
    BY <1>2, <2>2, AfterMore
  <2> QED
    BY <2>2, <2>3 DEF CallLists
<1> HIDE DEF f
<1>9. <<f>> \in CallLists(ops) /\ \A m \in Seq(Section) : m \o <<f>> \in CallLists(ops)
  BY <1>5, <1>6, <1>7 DEF CallLists
<1>10. f = [Last(q) EXCEPT ![2] = FALSE]
  BY <1>3 DEF f
<1> QED
  BY <1>2, <1>3, <1>8, <1>9, <1>10

(***************************************************************************)
(* The names of sections of calls.                                         *)
(***************************************************************************)
Names == Plain \cup {"gslLoad", "loadFails", "quit", "await", "join", "handle"}

(***************************************************************************)
(* A section begins with one of these names.                               *)
(***************************************************************************)
LEMMA SectionNames ==
  ASSUME NEW s \in Section
  PROVE  s[1] \in Names /\ (s[1] = "handle" => s \in {"handle"} \X Events)
BY DEF Section, Names, Plain

(***************************************************************************)
(* The lists that handlers put in front of the rest of a call: those with  *)
(* engines,                                                                *)
(***************************************************************************)
LEMMA Pushed ==
  ASSUME config \in Configs
  PROVE  /\ <<>> \in Seq(Section)
         /\ StopEngines \o <<<<"halted">>>> \in Seq(Section)
         /\ StartEngines \o <<<<"started">>>> \in Seq(Section)
         /\ StartEngines \o <<<<"connected">>>> \in Seq(Section)
         /\ RestartEngines \o <<<<"restarted">>, <<"unwake">>>> \in Seq(Section)
         /\ UnloadEngines \o <<<<"unloaded">>>> \in Seq(Section)
         /\ Stage1("gslClose") \o <<<<"reconfigured">>>> \in Seq(Section)
<1>1. /\ StopEngines \in Seq(Section) /\ UnloadEngines \in Seq(Section)
      /\ RestartEngines \in Seq(Section)
  BY ListsOfEngines, SectionSets, SeqMonotonic
<1>2. StartEngines \in Seq(Section) /\ Stage1("gslClose") \in Seq(Section)
  BY ListsOfEngines
<1>3. /\ <<>> \in Seq(Section) /\ <<<<"halted">>>> \in Seq(Section)
      /\ <<<<"started">>>> \in Seq(Section)
      /\ <<<<"connected">>>> \in Seq(Section) /\ <<<<"unloaded">>>> \in Seq(Section)
      /\ <<<<"reconfigured">>>> \in Seq(Section)
  BY DEF Section, Plain
<1>4. <<<<"restarted">>, <<"unwake">>>> \in Seq(Section)
  BY DEF Section, Plain
<1> QED
  BY <1>1, <1>2, <1>3, <1>4, ConcatProperties

(***************************************************************************)
(* and those without.                                                      *)
(***************************************************************************)
LEMMA PushedLists ==
  /\ <<<<"loadFails", "new">>>> \in Seq(Section) /\ <<<<"loadFails", "same">>>> \in Seq(Section)
  /\ <<<<"startFails">>>> \in Seq(Section) /\ <<<<"restartFails">>>> \in Seq(Section)
  /\ <<<<"unwake">>>> \in Seq(Section) /\ <<<<"offline">>>> \in Seq(Section)
  /\ <<<<"online">>>> \in Seq(Section)
  /\ <<<<"handle", "start">>>> \in Seq(Section) /\ <<<<"handle", "load">>>> \in Seq(Section)
  /\ <<<<"handle", "stop">>>> \in Seq(Section) /\ <<<<"handle", "unload">>>> \in Seq(Section)
  /\ <<<<"unwake">>, <<"unlock">>>> \in Seq(Section \cup {<<"unlock">>})
  /\ <<<<"gslLoad", "new">>, <<"loaded">>>> \in Seq(Section)
  /\ <<<<"gslLoad", "same">>, <<"loaded">>>> \in Seq(Section)
<1>1. /\ <<<<"loadFails", "new">>>> \in Seq(Section)
      /\ <<<<"loadFails", "same">>>> \in Seq(Section)
  BY DEF Section, Plain
<1>2. /\ <<<<"startFails">>>> \in Seq(Section) /\ <<<<"restartFails">>>> \in Seq(Section)
      /\ <<<<"unwake">>>> \in Seq(Section) /\ <<<<"offline">>>> \in Seq(Section)
      /\ <<<<"online">>>> \in Seq(Section)
  BY DEF Section, Plain
<1>3. /\ <<<<"handle", "start">>>> \in Seq(Section) /\ <<<<"handle", "load">>>> \in Seq(Section)
      /\ <<<<"handle", "stop">>>> \in Seq(Section)
      /\ <<<<"handle", "unload">>>> \in Seq(Section)
  BY DEF Section, Events
<1>4. <<<<"unwake">>, <<"unlock">>>> \in Seq(Section \cup {<<"unlock">>})
  BY DEF Section, Plain
<1>5. /\ <<"loaded">> \in Section /\ <<"gslLoad", "new">> \in Section
      /\ <<"gslLoad", "same">> \in Section
  BY DEF Section, Plain
<1> QED
  BY <1>1, <1>2, <1>3, <1>4, <1>5

(***************************************************************************)
(* Calls on the engines and handlers of events lead from a list of a call  *)
(* to a list of a call (Client and Server).                                *)
(***************************************************************************)
LEMMA CallsGoOn ==
  ASSUME DOMAIN todo = Threads, config \in Configs, NEW t \in Threads \ ({Timer} \cup Engines),
         NEW ops, todo[t] \in CallLists(ops), EngineCall(t) \/ Handling(t)
  PROVE  todo'[t] \in CallLists(ops)
<1> DEFINE q == todo[t]
<1>1. /\ q # <<>> /\ <<[Last(q) EXCEPT ![2] = FALSE]>> \in CallLists(ops)
      /\ Head(q)[1] # "leave" =>
            Head(q) \in Section /\ \A m \in Seq(Section) : m \o Tail(q) \in CallLists(ops)
      /\ \A m \in Seq(Section) : m \o <<[Last(q) EXCEPT ![2] = FALSE]>> \in CallLists(ops)
  BY CallGoesOn
<1>2. ASSUME NEW m \in Seq(Section), Head(q)[1] # "leave", Then(t, m)
      PROVE  todo'[t] \in CallLists(ops)
  BY <1>1, <1>2 DEF Then, Goes
<1>3. ASSUME Fail(t)
      PROVE  todo'[t] \in CallLists(ops)
  BY <1>1, <1>3 DEF Fail, Goes
<1>4. <<>> \in Seq(Section)
  BY EmptySeq
<1>5. \A s, r \in Seq(Section) : s \o r \in Seq(Section)
  BY ConcatProperties
<1> DEFINE Done == todo'[t] \in CallLists(ops)
<1>6. CASE EngineCall(t)
  <2>1. ASSUME Exit(t) PROVE Done
    BY <1>2, <1>4, <2>1 DEF Exit, At
  <2>2. ASSUME LoadNew(t) PROVE Done
    BY <1>2, <1>4, <2>2, PushedLists DEF LoadNew, At
  <2>3. ASSUME LoadAgain(t) PROVE Done
    BY <1>2, <1>4, <2>3, PushedLists DEF LoadAgain, At
  <2>4. ASSUME Close(t) PROVE Done
    BY <1>2, <1>4, <2>4 DEF Close, At
  <2>5. ASSUME StartRecognition(t) PROVE Done
    BY <1>2, <1>4, <2>5, PushedLists DEF StartRecognition, At
  <2>6. ASSUME StopRecognition(t) PROVE Done
    BY <1>2, <1>4, <2>6 DEF StopRecognition, At
  <2>7. ASSUME RestartRecognition(t) PROVE Done
    BY <1>2, <1>4, <2>7, PushedLists DEF RestartRecognition, At
  <2>8. ASSUME Quit(t) PROVE Done
    BY <1>2, <1>4, <2>8 DEF Quit, At
  <2>9. ASSUME Await(t) PROVE Done
    BY <1>2, <1>4, <2>9 DEF Await, At
  <2>10. ASSUME StartSoundEngine(t) PROVE Done
    BY <1>2, <1>4, <2>10 DEF StartSoundEngine, At
  <2>11. ASSUME SetDetected(t) PROVE FALSE
    BY <1>1, <2>11, SectionNames DEF SetDetected, At, Names, Plain
  <2> QED
    BY <1>6, <2>1, <2>2, <2>3, <2>4, <2>5, <2>6, <2>7, <2>8, <2>9, <2>10, <2>11
       DEF EngineCall
<1>7. CASE Handling(t)
  <2>1. ASSUME Halt(t) PROVE Done
    <3>1. Head(q)[1] = "handle"
      BY <2>1 DEF Halt, Handles, At
    <3>2. Head(q) \in Section
      BY <1>1, <3>1
    <3>3. <<Head(q)>> \in Seq(Section)
      BY <3>2
    <3> DEFINE a == IF Arg(t) \in {"stop", "pause"} THEN <<>> ELSE <<Head(q)>>
               b == IF State(Told) THEN <<<<"unwake">>>> ELSE <<>>
               m == StopEngines \o <<<<"halted">>>> \o a \o b
    <3>4. a \in Seq(Section) /\ b \in Seq(Section)
      BY <1>4, <3>3, PushedLists
    <3>5. m \in Seq(Section)
      BY <1>5, <3>4, Pushed
    <3>6. todo'[t] = m \o Tail(q)
      <4> HIDE DEF m
      <4>1. \/ todo' = [todo EXCEPT ![t] = m \o Tail(@)]
            \/ todo' = Disarmed([todo EXCEPT ![t] = m \o Tail(@)])
        BY <2>1 DEF Halt, m
      <4> QED
        BY <4>1 DEF Disarmed
    <3> HIDE DEF m
    <3> QED
      BY <1>1, <3>1, <3>5, <3>6
  <2>2. ASSUME Halted(t) PROVE Done
    BY <1>2, <1>4, <2>2 DEF Halted, At
  <2>3. ASSUME Unwake(t) PROVE Done
    BY <1>2, <1>4, <2>3 DEF Unwake, At
  <2>4. ASSUME StartLater(t) PROVE Done
    BY <1>2, <1>3, <1>4, <2>4 DEF StartLater, Handles, At
  <2>5. ASSUME Start(t) PROVE Done
    BY <1>2, <2>5, Pushed DEF Start, Handles, At
  <2>6. ASSUME StartFails(t) PROVE Done
    BY <1>3, <2>6 DEF StartFails
  <2>7. ASSUME Restart(t) PROVE Done
    <3> DEFINE m == RestartEngines \o <<<<"restarted">>, <<"unwake">>>>
    <3>1. m \in Seq(Section)
      BY Pushed
    <3>2. todo'[t] = m \o Tail(q)
      <4> HIDE DEF m
      <4>1. todo' = Disarmed([todo EXCEPT ![t] = m \o Tail(@)])
        BY <2>7 DEF Restart, m
      <4> QED
        BY <4>1 DEF Disarmed
    <3>3. Head(q)[1] = "handle"
      BY <2>7 DEF Restart, Handles, At
    <3> HIDE DEF m
    <3> QED
      BY <1>1, <3>1, <3>2, <3>3
  <2>8. ASSUME RestartFails(t) PROVE Done
    <3>1. ASSUME Then(t, <<>>) PROVE Done
      BY <1>2, <1>4, <2>8, <3>1 DEF RestartFails, At
    <3>2. ASSUME Goes(t, <<<<"unwake">>>> \o <<[Last(todo[t]) EXCEPT ![2] = FALSE]>>)
          PROVE  Done
      BY <1>1, <3>2, PushedLists DEF Goes
    <3> QED
      BY <2>8, <3>1, <3>2 DEF RestartFails
  <2>9. ASSUME Started(t) PROVE Done
    BY <1>2, <1>4, <2>9 DEF Started, At
  <2>10. ASSUME Load(t) PROVE Done
    BY <1>2, <2>10, PushedLists DEF Load, Handles, At
  <2>11. ASSUME LoadFails(t) PROVE Done
    BY <1>3, <2>11 DEF LoadFails
  <2>12. ASSUME Loaded(t) PROVE Done
    BY <1>2, <1>4, <2>12 DEF Loaded, At
  <2>13. ASSUME Unload(t) PROVE Done
    BY <1>2, <2>13, Pushed DEF Unload, Handles, At
  <2>14. ASSUME Unloaded(t) PROVE Done
    BY <1>2, <1>4, <2>14 DEF Unloaded, At
  <2>15. ASSUME Configure(t) PROVE Done
    BY <1>2, <1>4, <2>15 DEF Configure, Handles, At
  <2>16. ASSUME Pause(t) PROVE Done
    BY <1>2, <1>4, <2>16 DEF Pause, Handles, At
  <2>17. ASSUME Resume(t) PROVE Done
    BY <1>2, <1>4, <2>17, PushedLists DEF Resume, Handles, At
  <2>18. ASSUME Reconfigure(t) PROVE Done
    BY <1>2, <2>18, Pushed DEF Reconfigure, Handles, At
  <2>19. ASSUME Reconfigured(t) PROVE Done
    BY <1>2, <1>4, <2>19 DEF Reconfigured, At
  <2>20. ASSUME Reload(t) PROVE Done
    BY <1>2, <1>4, <1>5, <2>20, PushedLists DEF Reload, Handles, At
  <2>21. ASSUME Disconnect(t) PROVE Done
    BY <1>2, <1>4, <2>21 DEF Disconnect, Handles, At
  <2>22. ASSUME Connect(t) PROVE Done
    BY <1>2, <1>4, <2>22, Pushed DEF Connect, Handles, At
  <2>23. ASSUME Offline(t) PROVE Done
    BY <1>2, <1>4, <1>5, <2>23, PushedLists DEF Offline, Handles, At
  <2>24. ASSUME WentOffline(t) PROVE Done
    BY <1>2, <1>4, <2>24 DEF WentOffline, At
  <2>25. ASSUME Online(t) PROVE Done
    <3> DEFINE r == IF state_for_restore # "IDLE" THEN state_for_restore
                    ELSE IF IsActive THEN "ACTIVE"
                    ELSE IF currentState \in {"OPENED", "STOPPED"} THEN "LOADED" ELSE "IDLE"
               m == IF sm_config # "held" THEN <<>>
                    ELSE (IF r = "IDLE" THEN <<>> ELSE <<<<"handle", "load">>>>)
                         \o (IF r = "ACTIVE" THEN <<<<"handle", "start">>>> ELSE <<>>)
                         \o <<<<"online">>>>
    <3>1. Then(t, m) /\ Head(q)[1] # "leave"
      BY <2>25 DEF Online, Handles, At
    <3>2. m \in Seq(Section)
      <4> HIDE DEF r
      <4> QED
        BY <1>4, <1>5, PushedLists
    <3> HIDE DEF m
    <3> QED
      BY <1>2, <3>1, <3>2
  <2>26. ASSUME WentOnline(t) PROVE Done
    BY <1>2, <1>4, <2>26 DEF WentOnline, At
  <2>27. ASSUME CallOffline(t) PROVE Done
    BY <1>2, <1>3, <1>4, <2>27 DEF CallOffline, Handles, At
  <2>28. ASSUME Nothing(t) PROVE Done
    BY <1>2, <1>4, <2>28 DEF Nothing, Handles, At
  <2> QED
    BY <1>7, <2>1, <2>2, <2>3, <2>4, <2>5, <2>6, <2>7, <2>8, <2>9, <2>10, <2>11, <2>12,
       <2>13, <2>14, <2>15, <2>16, <2>17, <2>18, <2>19, <2>20, <2>21, <2>22, <2>23, <2>24,
       <2>25, <2>26, <2>27, <2>28 DEF Handling
<1> QED
  BY <1>6, <1>7

(***************************************************************************)
(* What a thread with the mutex does: it works on engines or handles an    *)
(* event.                                                                  *)
(***************************************************************************)
HandlesEvent(t) ==
  \/ Halt(t) \/ StartLater(t) \/ Start(t) \/ Restart(t) \/ Load(t) \/ Unload(t) \/ Configure(t)
  \/ Pause(t) \/ Resume(t) \/ Reconfigure(t) \/ Reload(t) \/ Disconnect(t) \/ Connect(t)
  \/ Offline(t) \/ Online(t) \/ CallOffline(t) \/ Nothing(t)

(***************************************************************************)
(* Calls on the engines, and handlers.                                     *)
(***************************************************************************)
Works(t) == (EngineCall(t) /\ UNCHANGED stream) \/ Handling(t)

(***************************************************************************)
(* The first section tells which action it is, and that one leaves the     *)
(* stream alone if the section is an engine's.                             *)
(***************************************************************************)
LEMMA SectionDone ==
  ASSUME NEW t, Works(t), NEW n, n = Head(todo[t])[1]
  PROVE  /\ todo[t] # <<>> /\ (n = "engage" \/ n \in Names)
         /\ n \in {"exit", "gslStop", "gslClose", "gslRestart", "quit", "await", "join",
              "engage"} =>
               UNCHANGED stream
         /\ n = "exit" => Exit(t)
         /\ n = "gslStop" => StopRecognition(t)
         /\ n = "gslClose" => Close(t)
         /\ n = "gslRestart" => RestartRecognition(t)
         /\ n = "quit" => Quit(t)
         /\ n \in {"await", "join"} => Await(t)
         /\ n = "engage" => SetDetected(t)
         /\ n = "halted" => Halted(t)
         /\ n = "unwake" => Unwake(t)
         /\ n = "unloaded" => Unloaded(t)
         /\ n = "restartFails" => RestartFails(t)
         /\ n = "restarted" => Started(t)
         /\ n = "offline" => WentOffline(t)
         /\ n = "handle" => HandlesEvent(t)
<1>1. CASE EngineCall(t) /\ UNCHANGED stream
  <2>1. Exit(t) => At(t, "exit")
    BY DEF Exit
  <2>2. LoadNew(t) \/ LoadAgain(t) => At(t, "gslLoad")
    BY DEF LoadNew, LoadAgain
  <2>3. Close(t) => At(t, "gslClose")
    BY DEF Close
  <2>4. StartRecognition(t) => At(t, "gslStart")
    BY DEF StartRecognition
  <2>5. StopRecognition(t) => At(t, "gslStop")
    BY DEF StopRecognition
  <2>6. RestartRecognition(t) => At(t, "gslRestart")
    BY DEF RestartRecognition
  <2>7. Quit(t) => At(t, "quit")
    BY DEF Quit
  <2>8. Await(t) => At(t, "await") \/ At(t, "join")
    BY DEF Await
  <2>9. StartSoundEngine(t) => At(t, "capiStart")
    BY DEF StartSoundEngine
  <2>10. SetDetected(t) => At(t, "engage")
    BY DEF SetDetected
  <2> QED
    BY <1>1, <2>1, <2>2, <2>3, <2>4, <2>5, <2>6, <2>7, <2>8, <2>9, <2>10 DEF EngineCall, At,
       Names, Plain
<1>2. CASE Handling(t)
  <2>1. HandlesEvent(t) => At(t, "handle")
    BY DEF HandlesEvent, Halt, StartLater, Start, Restart, Load, Unload, Configure, Pause,
       Resume, Reconfigure, Reload, Disconnect, Connect, Offline, Online, CallOffline,
       Nothing, Handles
  <2>2. Halted(t) => At(t, "halted")
    BY DEF Halted
  <2>3. Unwake(t) => At(t, "unwake")
    BY DEF Unwake
  <2>4. StartFails(t) => At(t, "startFails")
    BY DEF StartFails
  <2>5. RestartFails(t) => At(t, "restartFails")
    BY DEF RestartFails
  <2>6. Started(t) => At(t, "started") \/ At(t, "restarted") \/ At(t, "connected")
    BY DEF Started
  <2>7. LoadFails(t) => At(t, "loadFails")
    BY DEF LoadFails
  <2>8. Loaded(t) => At(t, "loaded")
    BY DEF Loaded
  <2>9. Unloaded(t) => At(t, "unloaded")
    BY DEF Unloaded
  <2>10. Reconfigured(t) => At(t, "reconfigured")
    BY DEF Reconfigured
  <2>11. WentOffline(t) => At(t, "offline")
    BY DEF WentOffline
  <2>12. WentOnline(t) => At(t, "online")
    BY DEF WentOnline
  <2> QED
    BY <1>2, <2>1, <2>2, <2>3, <2>4, <2>5, <2>6, <2>7, <2>8, <2>9, <2>10, <2>11, <2>12
       DEF Handling, HandlesEvent, At, Names, Plain
<1> QED
  BY <1>1, <1>2 DEF Works

(***************************************************************************)
(* The sections that stop engines: each is done with, and changes nothing  *)
(* of the stream.                                                          *)
(***************************************************************************)
LEMMA EndingDone ==
  ASSUME NEW t, Works(t), Head(todo[t]) \in Ending
  PROVE  todo[t] # <<>> /\ Then(t, <<>>) /\ UNCHANGED stream
<1> DEFINE n == Head(todo[t])[1]
<1>1. n \in {"exit", "gslStop", "gslClose", "unwake", "quit", "await", "join"}
  BY DEF Ending
<1>2. CASE n = "unwake"
  <2>1. Unwake(t) /\ todo[t] # <<>>
    BY <1>2, SectionDone
  <2> QED
    BY <2>1 DEF Unwake
<1>3. CASE n # "unwake"
  <2>1. /\ todo[t] # <<>> /\ UNCHANGED stream
        /\ Exit(t) \/ StopRecognition(t) \/ Close(t) \/ Quit(t) \/ Await(t)
    BY <1>1, <1>3, SectionDone
  <2> QED
    BY <2>1 DEF Exit, StopRecognition, Close, Quit, Await
<1> QED
  BY <1>2, <1>3

(***************************************************************************)
(* The timer's call is pending until it handles the stop, which it then    *)
(* carries to its end.                                                     *)
(***************************************************************************)
TimerRuns ==
  \E l \in Leaves({"lateStop"}) :
    \/ pending_stop /\ todo[Timer] = <<<<"handle", "stop">>, l>>
    \/ ~pending_stop /\ \E r \in {<<<<"halted">>, <<"unwake">>, l>>, <<l>>} :
         todo[Timer] \in After(Ending, r)

(***************************************************************************)
(* The first stage's thread hands a detection to the second stages with    *)
(* the mutex held.                                                         *)
(***************************************************************************)
GslRuns ==
  \E e \in Outcomes("answer") :
    todo[Gsl] \in After({"engage"} \X config.second, <<<<"unlock">>, e>>)

(***************************************************************************)
(* An engine that has rejected stops the others, or starts recognition     *)
(* again.                                                                  *)
(***************************************************************************)
Rejecting(k) == \E e \in Outcomes("done") : todo[k] \in After(Deciding, <<<<"rejected">>, e>>)

Renews(k) == \E e \in Outcomes("done") : todo[k] \in After(Renewing, <<<<"unlock">>, e>>)

(***************************************************************************)
(* A thread that stops engines goes on to what comes after.                *)
(***************************************************************************)
LEMMA EndingGoesOn ==
  ASSUME DOMAIN todo = Threads, NEW t \in Threads, Works(t),
         NEW S \in SUBSET Ending, NEW T, NEW r \in Seq(T), todo[t] \in After(S, r), todo[t] # r
  PROVE  /\ todo'[t] \in After(S, r) /\ UNCHANGED stream
         /\ \A u \in Threads \ {t} : todo'[u] = todo[u]
<1>1. Head(todo[t]) \in S /\ Tail(todo[t]) \in After(S, r)
  BY AfterTail
<1>2. Then(t, <<>>) /\ UNCHANGED stream
  BY <1>1, EndingDone
<1>3. <<>> \o Tail(todo[t]) \in After(S, r)
  BY <1>1, AfterMore, EmptySeq
<1> QED
  BY <1>2, <1>3 DEF Then, Goes

(***************************************************************************)
(* What is left after a section that asks for no others.                   *)
(***************************************************************************)
LEMMA ThenTail ==
  ASSUME DOMAIN todo = Threads, NEW t \in Threads, NEW T, NEW r \in Seq(T), Tail(todo[t]) = r,
         Then(t, <<>>)
  PROVE  todo'[t] = r
BY ConcatEmptySeq DEF Then, Goes

(***************************************************************************)
(* the sections by which Halt() stops recognition and handles what is left *)
(* of the event                                                            *)
(***************************************************************************)
HaltList(t) == StopEngines \o <<<<"halted">>>>
               \o (IF Arg(t) \in {"stop", "pause"} THEN <<>> ELSE <<Head(todo[t])>>)
               \o (IF State(Told) THEN <<<<"unwake">>>> ELSE <<>>)

(***************************************************************************)
(* Those sections stop engines, then report the stop, then handle the      *)
(* event.                                                                  *)
(***************************************************************************)
LEMMA HaltIs ==
  ASSUME config \in Configs, NEW t, NEW l, Tail(todo[t]) = <<l>>
  PROVE  LET q == HaltList(t) \o Tail(todo[t])
             h == Head(todo[t])
         IN  /\ Arg(t) \in {"stop", "pause"}
                  /\ State(Told) => q \in After(Ending, <<<<"halted">>, <<"unwake">>, l>>)
             /\ Arg(t) \notin {"stop", "pause"}
                  /\ State(Told) => q \in After(Ending, <<<<"halted">>, h, <<"unwake">>, l>>)
             /\ Arg(t) \notin {"stop", "pause"}
                  /\ ~State(Told) => q \in After(Ending, <<<<"halted">>, h, l>>)
<1> DEFINE q == HaltList(t) \o Tail(todo[t])
           h == Head(todo[t])
           s == StopEngines
           n == <<"halted">>
           u == <<"unwake">>
           a == IF Arg(t) \in {"stop", "pause"} THEN <<>> ELSE <<h>>
           b == IF State(Told) THEN <<u>> ELSE <<>>
           T == Ending \cup {n, h, u, l}
<1>1. s \in Seq(Ending)
  BY ListsOfEngines
<1>2. s \in Seq(T)
  BY <1>1, SeqMonotonic
<1>3. /\ <<n>> \in Seq(T) /\ <<h>> \in Seq(T) /\ <<u>> \in Seq(T) /\ <<l>> \in Seq(T)
      /\ <<>> \in Seq(T)
  OBVIOUS
<1>4. a \in Seq(T) /\ b \in Seq(T)
  BY <1>3
<1>5. q = (((s \o <<n>>) \o a) \o b) \o <<l>>
  <2>1. HaltList(t) = ((s \o <<n>>) \o a) \o b
    BY DEF HaltList
  <2> QED
    BY <2>1
<1> HIDE DEF q, h, s, n, u, a, b, T
<1>6. q = s \o (<<n>> \o (a \o (b \o <<l>>)))
  <2> DEFINE x == s \o <<n>>
             y == x \o a
             z == b \o <<l>>
             w == a \o z
  <2>1. x \in Seq(T)
    BY <1>2, <1>3, ConcatProperties
  <2>2. y \in Seq(T)
    BY <1>4, <2>1, ConcatProperties
  <2>3. z \in Seq(T)
    BY <1>3, <1>4, ConcatProperties
  <2>4. w \in Seq(T)
    BY <1>4, <2>3, ConcatProperties
  <2> HIDE DEF x, y, z, w
  <2>5. (y \o b) \o <<l>> = y \o (b \o <<l>>)
    BY <1>3, <1>4, <2>2, ConcatAssociative
  <2>6. (x \o a) \o z = x \o (a \o z)
    BY <1>4, <2>1, <2>3, ConcatAssociative
  <2>7. (s \o <<n>>) \o w = s \o (<<n>> \o w)
    BY <1>2, <1>3, <2>4, ConcatAssociative
  <2> QED
    BY <1>5, <2>5, <2>6, <2>7 DEF x, y, z, w
<1>7. /\ <<u>> \o <<l>> = <<u, l>> /\ <<h>> \o <<u, l>> = <<h, u, l>>
      /\ <<n>> \o <<h, u, l>> = <<n, h, u, l>>
      /\ <<n>> \o <<u, l>> = <<n, u, l>> /\ <<h>> \o <<l>> = <<h, l>>
      /\ <<n>> \o <<h, l>> = <<n, h, l>>
  BY Joined2, Joined3, Joined4
<1>8. <<>> \o <<l>> = <<l>> /\ <<>> \o <<u, l>> = <<u, l>>
  <2>1. <<u, l>> \in Seq({u, l}) /\ <<l>> \in Seq({l})
    OBVIOUS
  <2> QED
    BY <2>1, ConcatEmptySeq
<1>9. CASE Arg(t) \in {"stop", "pause"} /\ State(Told)
  <2>1. a = <<>> /\ b = <<u>>
    BY <1>9 DEF a, b
  <2>2. q = s \o <<n, u, l>>
    BY <1>6, <1>7, <1>8, <2>1
  <2>3. q \in After(Ending, <<n, u, l>>)
    BY <1>1, <2>2 DEF After
  <2> QED
    BY <1>9, <2>3 DEF q, n, u
<1>10. CASE Arg(t) \notin {"stop", "pause"} /\ State(Told)
  <2>1. a = <<h>> /\ b = <<u>>
    BY <1>10 DEF a, b
  <2>2. q = s \o <<n, h, u, l>>
    BY <1>6, <1>7, <1>8, <2>1
  <2>3. q \in After(Ending, <<n, h, u, l>>)
    BY <1>1, <2>2 DEF After
  <2> QED
    BY <1>10, <2>3 DEF q, n, u, h
<1>11. CASE Arg(t) \notin {"stop", "pause"} /\ ~State(Told)
  <2>1. a = <<h>> /\ b = <<>>
    BY <1>11 DEF a, b
  <2>2. q = s \o <<n, h, l>>
    BY <1>6, <1>7, <1>8, <2>1
  <2>3. q \in After(Ending, <<n, h, l>>)
    BY <1>1, <2>2 DEF After
  <2> QED
    BY <1>11, <2>3 DEF q, n, u, h
<1> QED
  BY <1>9, <1>10, <1>11 DEF q, h

(***************************************************************************)
(* Halt() gives its thread that list, and may wake the timer.              *)
(***************************************************************************)
LEMMA HaltGoes ==
  ASSUME DOMAIN todo = Threads, NEW t \in Threads, Halt(t)
  PROVE  /\ t # Timer \/ HaltList(t) \o Tail(todo[t]) # <<<<"sleep">>>> =>
               todo'[t] = HaltList(t) \o Tail(todo[t])
         /\ \A u \in Threads \ {t, Timer} : todo'[u] = todo[u]
         /\ t # Timer => todo'[Timer] = todo[Timer] \/
               (todo[Timer] = <<<<"sleep">>>> /\ todo'[Timer] = <<<<"awake">>>>)
<1> DEFINE m == HaltList(t)
<1>1. \/ todo' = [todo EXCEPT ![t] = m \o Tail(@)]
      \/ todo' = Disarmed([todo EXCEPT ![t] = m \o Tail(@)])
  BY DEF Halt, HaltList
<1> HIDE DEF m
<1>2. Timer \in Threads
  BY DEF Threads
<1>3. CASE todo' = [todo EXCEPT ![t] = m \o Tail(@)]
  BY <1>2, <1>3 DEF m
<1>4. CASE todo' = Disarmed([todo EXCEPT ![t] = m \o Tail(@)])
  BY <1>2, <1>4 DEF m, Disarmed
<1> QED
  BY <1>1, <1>3, <1>4

(***************************************************************************)
(* Calls on engines and handlers leave the client's state, the verdicts    *)
(* and the mutex alone; they cancel a pending stop or leave it alone.      *)
(***************************************************************************)
LEMMA WorksKeep ==
  ASSUME NEW t, Works(t)
  PROVE  /\ UNCHANGED <<currentState, detection_state, rejection_notified, mutex>>
         /\ UNCHANGED timer \/ pending_stop' = FALSE
<1>1. CASE EngineCall(t) /\ UNCHANGED stream
  BY <1>1 DEF stream, states, verdicts, locks
<1> DEFINE Kept == /\ UNCHANGED <<currentState, detection_state, rejection_notified, mutex>>
                   /\ UNCHANGED timer \/ pending_stop' = FALSE
<1>2. ASSUME Halt(t) PROVE Kept
  BY <1>2 DEF Halt, CancelDelayedStop, states, verdicts, locks
<1>3. ASSUME Restart(t) PROVE Kept
  BY <1>3 DEF Restart, CancelDelayedStop, states, verdicts, locks
<1>4. CASE Handling(t)
  <2>1. ASSUME StartLater(t) PROVE Kept
    BY <2>1 DEF StartLater, stream, states, verdicts, locks
  <2>2. ASSUME Start(t) PROVE Kept
    BY <2>2 DEF Start, stream, states, verdicts, locks
  <2>3. ASSUME Load(t) PROVE Kept
    BY <2>3 DEF Load, stream, states, verdicts, locks
  <2>4. ASSUME Unload(t) PROVE Kept
    BY <2>4 DEF Unload, stream, states, verdicts, locks
  <2>5. ASSUME Configure(t) PROVE Kept
    BY <2>5 DEF Configure, stream, states, verdicts, locks
  <2>6. ASSUME Pause(t) PROVE Kept
    BY <2>6 DEF Pause, stream, states, verdicts, locks
  <2>7. ASSUME Resume(t) PROVE Kept
    BY <2>7 DEF Resume, stream, states, verdicts, locks
  <2>8. ASSUME Reconfigure(t) PROVE Kept
    BY <2>8 DEF Reconfigure, stream, states, verdicts, locks
  <2>9. ASSUME Reload(t) PROVE Kept
    BY <2>9 DEF Reload, stream, states, verdicts, locks
  <2>10. ASSUME Disconnect(t) PROVE Kept
    BY <2>10 DEF Disconnect, stream, states, verdicts, locks
  <2>11. ASSUME Connect(t) PROVE Kept
    BY <2>11 DEF Connect, stream, states, verdicts, locks
  <2>12. ASSUME Offline(t) PROVE Kept
    BY <2>12 DEF Offline, stream, states, verdicts, locks
  <2>13. ASSUME Online(t) PROVE Kept
    BY <2>13 DEF Online, stream, states, verdicts, locks
  <2>14. ASSUME CallOffline(t) PROVE Kept
    BY <2>14 DEF CallOffline, stream, states, verdicts, locks
  <2>15. ASSUME Nothing(t) PROVE Kept
    BY <2>15 DEF Nothing, stream, states, verdicts, locks
  <2>16. ASSUME Halted(t) PROVE Kept
    BY <2>16 DEF Halted, stream, states, verdicts, locks
  <2>17. ASSUME Unwake(t) PROVE Kept
    BY <2>17 DEF Unwake, stream, states, verdicts, locks
  <2>18. ASSUME StartFails(t) PROVE Kept
    BY <2>18 DEF StartFails, stream, states, verdicts, locks
  <2>19. ASSUME RestartFails(t) PROVE Kept
    BY <2>19 DEF RestartFails, stream, states, verdicts, locks
  <2>20. ASSUME Started(t) PROVE Kept
    BY <2>20 DEF Started, stream, states, verdicts, locks
  <2>21. ASSUME LoadFails(t) PROVE Kept
    BY <2>21 DEF LoadFails, stream, states, verdicts, locks
  <2>22. ASSUME Loaded(t) PROVE Kept
    BY <2>22 DEF Loaded, stream, states, verdicts, locks
  <2>23. ASSUME Unloaded(t) PROVE Kept
    BY <2>23 DEF Unloaded, stream, states, verdicts, locks
  <2>24. ASSUME Reconfigured(t) PROVE Kept
    BY <2>24 DEF Reconfigured, stream, states, verdicts, locks
  <2>25. ASSUME WentOffline(t) PROVE Kept
    BY <2>25 DEF WentOffline, stream, states, verdicts, locks
  <2>26. ASSUME WentOnline(t) PROVE Kept
    BY <2>26 DEF WentOnline, stream, states, verdicts, locks
  <2> QED
    BY <1>2, <1>3, <1>4, <2>1, <2>2, <2>3, <2>4, <2>5, <2>6, <2>7, <2>8, <2>9, <2>10, <2>11,
       <2>12, <2>13, <2>14, <2>15, <2>16, <2>17, <2>18, <2>19, <2>20, <2>21, <2>22, <2>23,
       <2>24, <2>25, <2>26 DEF Handling
<1> QED
  BY <1>1, <1>4 DEF Works

(***************************************************************************)
(* A step of t changes its own list only, but for a timer that it may      *)
(* wake.                                                                   *)
(***************************************************************************)
Frame(t) ==
  /\ DOMAIN todo' = Threads
  /\ \A u \in Threads \ {t, Timer} : todo'[u] = todo[u]
  /\ t # Timer => \/ todo'[Timer] = todo[Timer]
                  \/ todo[Timer] = <<<<"sleep">>>> /\ todo'[Timer] = <<<<"awake">>>>

(***************************************************************************)
(* A plain step does so;                                                   *)
(***************************************************************************)
LEMMA GoesFrame ==
  ASSUME DOMAIN todo = Threads, NEW t \in Threads, NEW r, Goes(t, r)
  PROVE  Frame(t) /\ todo'[t] = r
BY DEF Goes, Frame, Threads

(***************************************************************************)
(* and so does every step that works, but for a first stage that engages a *)
(* second.                                                                 *)
(***************************************************************************)
LEMMA WorksFrame ==
  ASSUME DOMAIN todo = Threads, NEW t \in Threads, Works(t), Head(todo[t])[1] # "engage"
  PROVE  Frame(t)
<1>1. ASSUME NEW m, Then(t, m) PROVE Frame(t)
  BY <1>1, GoesFrame DEF Then
<1>2. ASSUME Fail(t) PROVE Frame(t)
  BY <1>2, GoesFrame DEF Fail
<1>3. ASSUME Halt(t) PROVE Frame(t)
  <2>1. DOMAIN todo' = Threads
    BY <1>3 DEF Halt, Disarmed
  <2> QED
    BY <1>3, <2>1, HaltGoes DEF Frame
<1>4. ASSUME Restart(t) PROVE Frame(t)
  <2> DEFINE m == RestartEngines \o <<<<"restarted">>, <<"unwake">>>>
  <2>1. todo' = Disarmed([todo EXCEPT ![t] = m \o Tail(@)])
    BY <1>4 DEF Restart
  <2> HIDE DEF m
  <2> QED
    BY <2>1 DEF Disarmed, Frame, Threads
<1>5. ASSUME RestartFails(t) PROVE Frame(t)
  BY <1>1, <1>5, GoesFrame DEF RestartFails
<1>6. CASE EngineCall(t)
  <2>1. ASSUME Exit(t) PROVE Frame(t)
    BY <1>1, <2>1 DEF Exit
  <2>2. ASSUME LoadNew(t) PROVE Frame(t)
    BY <1>1, <2>2 DEF LoadNew
  <2>3. ASSUME LoadAgain(t) PROVE Frame(t)
    BY <1>1, <2>3 DEF LoadAgain
  <2>4. ASSUME Close(t) PROVE Frame(t)
    BY <1>1, <2>4 DEF Close
  <2>5. ASSUME StartRecognition(t) PROVE Frame(t)
    BY <1>1, <2>5 DEF StartRecognition
  <2>6. ASSUME StopRecognition(t) PROVE Frame(t)
    BY <1>1, <2>6 DEF StopRecognition
  <2>7. ASSUME RestartRecognition(t) PROVE Frame(t)
    BY <1>1, <2>7 DEF RestartRecognition
  <2>8. ASSUME Quit(t) PROVE Frame(t)
    BY <1>1, <2>8 DEF Quit
  <2>9. ASSUME Await(t) PROVE Frame(t)
    BY <1>1, <2>9 DEF Await
  <2>10. ASSUME StartSoundEngine(t) PROVE Frame(t)
    BY <1>1, <2>10 DEF StartSoundEngine
  <2>11. ~SetDetected(t)
    BY DEF SetDetected, At
  <2> QED
    BY <1>6, <2>1, <2>2, <2>3, <2>4, <2>5, <2>6, <2>7, <2>8, <2>9, <2>10, <2>11
       DEF EngineCall
<1>7. CASE Handling(t)
  <2>1. ASSUME StartLater(t) PROVE Frame(t)
    BY <1>1, <1>2, <2>1 DEF StartLater
  <2>2. ASSUME Start(t) PROVE Frame(t)
    BY <1>1, <1>2, <2>2 DEF Start
  <2>3. ASSUME Load(t) PROVE Frame(t)
    BY <1>1, <1>2, <2>3 DEF Load
  <2>4. ASSUME Unload(t) PROVE Frame(t)
    BY <1>1, <1>2, <2>4 DEF Unload
  <2>5. ASSUME Configure(t) PROVE Frame(t)
    BY <1>1, <1>2, <2>5 DEF Configure
  <2>6. ASSUME Pause(t) PROVE Frame(t)
    BY <1>1, <1>2, <2>6 DEF Pause
  <2>7. ASSUME Resume(t) PROVE Frame(t)
    BY <1>1, <1>2, <2>7 DEF Resume
  <2>8. ASSUME Reconfigure(t) PROVE Frame(t)
    BY <1>1, <1>2, <2>8 DEF Reconfigure
  <2>9. ASSUME Reload(t) PROVE Frame(t)
    BY <1>1, <1>2, <2>9 DEF Reload
  <2>10. ASSUME Disconnect(t) PROVE Frame(t)
    BY <1>1, <1>2, <2>10 DEF Disconnect
  <2>11. ASSUME Connect(t) PROVE Frame(t)
    BY <1>1, <1>2, <2>11 DEF Connect
  <2>12. ASSUME Offline(t) PROVE Frame(t)
    BY <1>1, <1>2, <2>12 DEF Offline
  <2>13. ASSUME Online(t) PROVE Frame(t)
    BY <1>1, <1>2, <2>13 DEF Online
  <2>14. ASSUME CallOffline(t) PROVE Frame(t)
    BY <1>1, <1>2, <2>14 DEF CallOffline
  <2>15. ASSUME Nothing(t) PROVE Frame(t)
    BY <1>1, <1>2, <2>15 DEF Nothing
  <2>16. ASSUME Halted(t) PROVE Frame(t)
    BY <1>1, <1>2, <2>16 DEF Halted
  <2>17. ASSUME Unwake(t) PROVE Frame(t)
    BY <1>1, <1>2, <2>17 DEF Unwake
  <2>18. ASSUME StartFails(t) PROVE Frame(t)
    BY <1>1, <1>2, <2>18 DEF StartFails
  <2>19. ASSUME Started(t) PROVE Frame(t)
    BY <1>1, <1>2, <2>19 DEF Started
  <2>20. ASSUME LoadFails(t) PROVE Frame(t)
    BY <1>1, <1>2, <2>20 DEF LoadFails
  <2>21. ASSUME Loaded(t) PROVE Frame(t)
    BY <1>1, <1>2, <2>21 DEF Loaded
  <2>22. ASSUME Unloaded(t) PROVE Frame(t)
    BY <1>1, <1>2, <2>22 DEF Unloaded
  <2>23. ASSUME Reconfigured(t) PROVE Frame(t)
    BY <1>1, <1>2, <2>23 DEF Reconfigured
  <2>24. ASSUME WentOffline(t) PROVE Frame(t)
    BY <1>1, <1>2, <2>24 DEF WentOffline
  <2>25. ASSUME WentOnline(t) PROVE Frame(t)
    BY <1>1, <1>2, <2>25 DEF WentOnline
  <2> QED
    BY <1>3, <1>4, <1>5, <1>7, <2>1, <2>2, <2>3, <2>4, <2>5, <2>6, <2>7, <2>8, <2>9, <2>10,
       <2>11, <2>12, <2>13, <2>14, <2>15, <2>16, <2>17, <2>18, <2>19, <2>20, <2>21, <2>22,
       <2>23, <2>24, <2>25 DEF Handling
<1> QED
  BY <1>6, <1>7 DEF Works

(***************************************************************************)
(* The return of a call is none of the sections that stop engines.         *)
(***************************************************************************)
LEMMA LeaveLists ==
  ASSUME NEW ops, NEW l \in Leaves(ops)
  PROVE  /\ l[1] = "leave"
         /\ <<l>> \in Seq({l}) /\ Head(<<l>>) = l
         /\ ~(l \in Ending) /\ "leave" \notin Names
<1>1. l[1] = "leave"
  BY DEF Leaves
<1>2. \A s \in Ending : s[1] # "leave"
  BY DEF Ending
<1>3. "leave" \notin Names
  BY DEF Names, Plain
<1> QED
  BY <1>1, <1>2, <1>3

(***************************************************************************)
(* The timer's call goes on: handling the stop, it cancels it.             *)
(***************************************************************************)
LEMMA TimerGoesOn ==
  ASSUME DOMAIN todo = Threads, config \in Configs, pending_stop \in BOOLEAN,
         pending_stop => State(Told), TimerRuns, Works(Timer)
  PROVE  TimerRuns' /\ ~pending_stop'
<1>1. PICK l \in Leaves({"lateStop"}) :
        \/ pending_stop /\ todo[Timer] = <<<<"handle", "stop">>, l>>
        \/ ~pending_stop /\ \E r \in {<<<<"halted">>, <<"unwake">>, l>>, <<l>>} :
              todo[Timer] \in After(Ending, r)
  BY DEF TimerRuns
<1>2. /\ Timer \in Threads /\ l[1] = "leave" /\ <<l>> \in Seq({l}) /\ Head(<<l>>) = l
      /\ "leave" \notin Names
  BY LeaveLists DEF Threads
<1> DEFINE r1 == <<<<"halted">>, <<"unwake">>, l>>
           r2 == <<<<"unwake">>, l>>
<1>3. /\ r1 \in Seq({<<"halted">>, <<"unwake">>, l}) /\ Head(r1) = <<"halted">>
      /\ Tail(r1) = r2 /\ r1 # <<>>
      /\ r1[Len(r1)] = l
  OBVIOUS
<1>4. r2 \in Seq({<<"unwake">>, l})
  OBVIOUS
<1>5. CASE pending_stop /\ todo[Timer] = <<<<"handle", "stop">>, l>>
  <2>1. /\ Head(todo[Timer]) = <<"handle", "stop">> /\ Tail(todo[Timer]) = <<l>>
    BY <1>5
  <2>2. Head(todo[Timer])[1] = "handle" /\ Arg(Timer) = "stop"
    BY <2>1 DEF Arg
  <2>3. HandlesEvent(Timer)
    BY <2>2, SectionDone
  <2>4. Halt(Timer)
    BY <1>5, <2>2, <2>3 DEF HandlesEvent, StartLater, Start, Restart, Load, Unload,
       Configure, Pause, Resume, Reconfigure, Reload, Disconnect, Connect, Offline, Online,
       CallOffline, Nothing, Handles, State, Told
  <2>5. HaltList(Timer) \o Tail(todo[Timer]) \in After(Ending, r1)
    BY <1>5, <2>1, <2>2, HaltIs
  <2>6. HaltList(Timer) \o Tail(todo[Timer]) # <<<<"sleep">>>>
    <3> DEFINE q == HaltList(Timer) \o Tail(todo[Timer])
               z == <<<<"sleep">>>>
               T == {<<"halted">>, <<"unwake">>, l}
    <3>1. Last(q) = Last(r1)
      <4>1. q \in After(Ending, r1) /\ r1 \in Seq(T) /\ r1 # <<>>
        BY <1>3, <2>5
      <4> HIDE DEF q, r1, T
      <4> QED
        BY <4>1, AfterIsList
    <3>2. Last(r1) = l
      BY <1>3 DEF Last
    <3>3. Last(z) = <<"sleep">>
      BY DEF Last
    <3>4. <<"sleep">>[1] = "sleep"
      OBVIOUS
    <3> HIDE DEF q, r1
    <3>5. l # <<"sleep">>
      BY <1>2, <3>4
    <3>6. q # z
      BY <3>1, <3>2, <3>3, <3>5
    <3> QED
      BY <3>6 DEF q
  <2>7. todo'[Timer] \in After(Ending, r1)
    BY <1>2, <2>4, <2>5, <2>6, HaltGoes
  <2>8. ~pending_stop'
    BY <1>5, <2>4 DEF Halt, State, Told, CancelDelayedStop
  <2> QED
    BY <2>7, <2>8 DEF TimerRuns
<1>6. CASE ~pending_stop /\ todo[Timer] \in After(Ending, r1)
  <2>1. ~pending_stop'
    BY <1>6, WorksKeep DEF timer
  <2>2. CASE todo[Timer] = r1
    <3>1. Head(todo[Timer])[1] = "halted" /\ Tail(todo[Timer]) = r2
      BY <1>3, <2>2
    <3>2. Then(Timer, <<>>)
      BY <3>1, SectionDone DEF Halted
    <3>3. todo'[Timer] = r2
      BY <1>2, <1>4, <3>1, <3>2, ThenTail
    <3>4. <<"unwake">> \in Ending
      BY DEF Ending
    <3>5. r2 \in After(Ending, <<l>>)
      BY <3>4, ListAfter
    <3> QED
      BY <2>1, <3>3, <3>5 DEF TimerRuns
  <2>3. CASE todo[Timer] # r1
    <3>1. todo'[Timer] \in After(Ending, r1)
      BY <1>2, <1>3, <1>6, <2>3, EndingGoesOn
    <3> QED
      BY <2>1, <3>1 DEF TimerRuns
  <2> QED
    BY <2>2, <2>3
<1>7. CASE ~pending_stop /\ todo[Timer] \in After(Ending, <<l>>)
  <2>1. ~pending_stop'
    BY <1>7, WorksKeep DEF timer
  <2>2. todo[Timer] # <<l>>
    <3>1. todo[Timer] = <<l>> => Head(todo[Timer])[1] = "leave"
      BY <1>2
    <3> QED
      BY <1>2, <3>1, SectionDone
  <2>3. todo'[Timer] \in After(Ending, <<l>>)
    BY <1>2, <1>7, <2>2, EndingGoesOn
  <2> QED
    BY <2>1, <2>3 DEF TimerRuns
<1> QED
  BY <1>1, <1>5, <1>6, <1>7

(***************************************************************************)
(* Sections put in front of others are sections before others.             *)
(***************************************************************************)
LEMMA Pushes ==
  ASSUME DOMAIN todo = Threads, NEW t \in Threads, NEW S, NEW s \in Seq(S), NEW n, NEW T,
         NEW r \in Seq(T),
         Tail(todo[t]) = r, Then(t, s \o <<n>>)
  PROVE  todo'[t] \in After(S, <<n>> \o r)
<1> DEFINE U == S \cup T \cup {n}
<1>1. s \in Seq(U) /\ r \in Seq(U)
  BY SeqMonotonic
<1>2. <<n>> \in Seq(U)
  OBVIOUS
<1>3. (s \o <<n>>) \o r = s \o (<<n>> \o r)
  BY <1>1, <1>2, ConcatAssociative
<1>4. todo'[t] = s \o (<<n>> \o r)
  BY <1>3 DEF Then, Goes
<1> QED
  BY <1>4 DEF After

(***************************************************************************)
(* Two sections, the last of them an engine's end.                         *)
(***************************************************************************)
LEMMA OutcomeLists ==
  ASSUME NEW name, NEW e \in Outcomes(name), NEW first
  PROVE  /\ e[1] = name /\ <<first, e>> \in Seq({first, e}) /\ <<first, e>> # <<>>
         /\ Head(<<first, e>>) = first /\ Last(<<first, e>>) = e /\ Tail(<<first, e>>) = <<e>>
<1>1. e[1] = name
  BY DEF Outcomes
<1>2. /\ <<first, e>> \in Seq({first, e}) /\ <<first, e>> # <<>>
      /\ Head(<<first, e>>) = first /\ Tail(<<first, e>>) = <<e>>
  OBVIOUS
<1>3. Last(<<first, e>>) = e
  BY DEF Last
<1> QED
  BY <1>1, <1>2, <1>3

(***************************************************************************)
(* The first stage engages the second stages one by one; each of them is   *)
(* idle or is told to run.                                                 *)
(***************************************************************************)
LEMMA GslGoesOn ==
  ASSUME DOMAIN todo = Threads, config \in Configs, UNCHANGED config, GslRuns, Works(Gsl)
  PROVE  /\ GslRuns' /\ UNCHANGED stream /\ DOMAIN todo' = Threads
         /\ \A u \in Threads \ {Gsl} :
              \/ todo'[u] = todo[u]
              \/ u \in config.second /\ todo[u] = <<>> /\ todo'[u] = <<<<"run">>>>
<1> DEFINE S == {"engage"} \X config.second
<1>1. PICK e \in Outcomes("answer") : todo[Gsl] \in After(S, <<<<"unlock">>, e>>)
  BY DEF GslRuns
<1> DEFINE r == <<<<"unlock">>, e>>
<1>2. r \in Seq({<<"unlock">>, e}) /\ Head(r) = <<"unlock">>
  BY OutcomeLists
<1>3. <<"unlock">>[1] = "unlock" /\ "unlock" \notin Names
  BY DEF Names, Plain
<1> HIDE DEF r, S
<1>4. todo[Gsl] # r
  BY <1>2, <1>3, SectionDone
<1>5. Head(todo[Gsl]) \in S /\ Tail(todo[Gsl]) \in After(S, r)
  BY <1>1, <1>2, <1>4, AfterTail DEF r
<1>6. Head(todo[Gsl])[1] = "engage" /\ Arg(Gsl) \in config.second
  BY <1>5 DEF S, Arg
<1>7. SetDetected(Gsl) /\ UNCHANGED stream
  BY <1>6, SectionDone
<1>8. /\ config.second \subseteq Engines /\ Gsl \notin Engines /\ Gsl \in Threads
      /\ Engines \subseteq Threads
  BY SecondFinite, ThreadsAssumption DEF Threads
<1> DEFINE k == Arg(Gsl)
<1>9. k \in config.second /\ k # Gsl /\ k \in Threads
  BY <1>6, <1>8
<1>10. todo' = [todo EXCEPT ![Gsl] = Tail(@),
                            ![k] = IF @ = <<>> /\ ~processing_started[k] THEN <<<<"run">>>> ELSE @]
  BY <1>7 DEF SetDetected
<1> HIDE DEF k
<1>11. todo'[Gsl] = Tail(todo[Gsl]) /\ DOMAIN todo' = Threads
  BY <1>8, <1>9, <1>10
<1>12. GslRuns'
  <2>1. todo'[Gsl] \in After({"engage"} \X config'.second, <<<<"unlock">>, e>>)
    BY <1>5, <1>11 DEF S, r
  <2> QED
    BY <2>1 DEF GslRuns
<1>13. \A u \in Threads \ {Gsl} :
              \/ todo'[u] = todo[u]
              \/ u \in config.second /\ todo[u] = <<>> /\ todo'[u] = <<<<"run">>>>
  BY <1>8, <1>9, <1>10
<1> QED
  BY <1>7, <1>11, <1>12, <1>13

(***************************************************************************)
(* An engine that rejected stops the other engines and touches nothing     *)
(* else.                                                                   *)
(***************************************************************************)
LEMMA RejectingGoesOn ==
  ASSUME DOMAIN todo = Threads, NEW k \in Engines, Rejecting(k), Works(k)
  PROVE  /\ Rejecting(k)' /\ UNCHANGED stream
         /\ \A u \in Threads \ {k} : todo'[u] = todo[u]
<1>1. PICK e \in Outcomes("done") : todo[k] \in After(Deciding, <<<<"rejected">>, e>>)
  BY DEF Rejecting
<1> DEFINE r == <<<<"rejected">>, e>>
<1>2. r \in Seq({<<"rejected">>, e}) /\ Head(r) = <<"rejected">>
  BY OutcomeLists
<1>3. <<"rejected">>[1] = "rejected" /\ "rejected" \notin Names /\ k \in Threads
  BY DEF Names, Plain, Threads
<1> HIDE DEF r
<1>4. todo[k] # r
  BY <1>2, <1>3, SectionDone
<1>5. todo'[k] \in After(Deciding, r) /\ UNCHANGED stream
        /\ \A u \in Threads \ {k} : todo'[u] = todo[u]
  BY <1>1, <1>2, <1>3, <1>4, SectionSets, EndingGoesOn DEF r
<1> QED
  BY <1>5 DEF Rejecting, r

(***************************************************************************)
(* An engine that restarts recognition goes on to give the mutex up.       *)
(***************************************************************************)
LEMMA RenewsGoesOn ==
  ASSUME DOMAIN todo = Threads, NEW k \in Engines, Renews(k), Works(k)
  PROVE  Renews(k)' /\ Frame(k)
<1>1. PICK e \in Outcomes("done") : todo[k] \in After(Renewing, <<<<"unlock">>, e>>)
  BY DEF Renews
<1> DEFINE r == <<<<"unlock">>, e>>
           f == [e EXCEPT ![2] = FALSE]
           n == Head(todo[k])[1]
<1>2. r \in Seq({<<"unlock">>, e}) /\ r # <<>> /\ Head(r) = <<"unlock">> /\ Last(r) = e
  BY OutcomeLists
<1>3. <<"unlock">>[1] = "unlock" /\ "unlock" \notin Names /\ k \in Threads
  BY DEF Names, Plain, Threads
<1>4. f \in Outcomes("done")
  BY OutcomeFails
<1> HIDE DEF r, f
<1>5. todo[k] # r
  BY <1>2, <1>3, SectionDone
<1>6. Head(todo[k]) \in Renewing /\ Tail(todo[k]) \in After(Renewing, r)
  BY <1>1, <1>2, <1>5, AfterTail DEF r
<1>7. Last(todo[k]) = e
  <2>1. todo[k] \in After(Renewing, r)
    BY <1>1 DEF r
  <2> QED
    BY <1>2, <2>1, AfterIsList
<1>8. n # "engage" /\ n \in {"exit", "gslRestart", "restartFails", "restarted", "unwake",
        "quit", "await"}
      /\ (n \in {"exit", "unwake", "quit", "await"} => Head(todo[k]) \in Ending)
  BY <1>6 DEF Renewing, Deciding, Ending
<1>9. Frame(k)
  BY <1>3, <1>8, WorksFrame
<1>10. ASSUME NEW m \in Seq(Renewing), Then(k, m) PROVE Renews(k)'
  <2>1. m \o Tail(todo[k]) \in After(Renewing, r)
    BY <1>2, <1>6, AfterMore
  <2>2. todo'[k] \in After(Renewing, r)
    BY <1>3, <1>10, <2>1 DEF Then, Goes
  <2> QED
    BY <2>2 DEF Renews, r
<1>11. /\ <<>> \in Seq(Renewing) /\ <<<<"restartFails">>>> \in Seq(Renewing)
       /\ <<<<"unwake">>>> \in Seq(Renewing)
  BY DEF Renewing
<1>12. CASE n \in {"exit", "unwake", "quit", "await"}
  BY <1>8, <1>9, <1>10, <1>11, <1>12, EndingDone
<1>13. CASE n = "gslRestart"
  BY <1>9, <1>10, <1>11, <1>13, SectionDone DEF RestartRecognition
<1>14. CASE n = "restarted"
  BY <1>9, <1>10, <1>11, <1>14, SectionDone DEF Started
<1>15. CASE n = "restartFails"
  <2>1. RestartFails(k)
    BY <1>15, SectionDone
  <2>2. CASE Then(k, <<>>)
    BY <1>9, <1>10, <1>11, <2>2
  <2> DEFINE a == <<"unwake">>
             b == <<"unlock">>
             T == {a, b, f}
  <2>3. <<a>> \in Seq(T) /\ <<b>> \in Seq(T) /\ <<f>> \in Seq(T)
    OBVIOUS
  <2>4. /\ <<a>> \o <<b>> = <<a, b>> /\ <<b>> \o <<f>> = <<b, f>>
    BY Joined2
  <2> HIDE DEF a, b, T
  <2>5. (<<a>> \o <<b>>) \o <<f>> = <<a>> \o (<<b>> \o <<f>>)
    BY <2>3, ConcatAssociative
  <2>6. <<a, b>> \o <<f>> = <<a>> \o <<b, f>>
    BY <2>4, <2>5
  <2>7. CASE Goes(k, <<a, b>> \o <<f>>)
    <3>1. todo'[k] = <<a>> \o <<b, f>>
      BY <1>3, <2>6, <2>7 DEF Goes
    <3>2. todo'[k] \in After(Renewing, <<b, f>>)
      BY <1>11, <3>1 DEF After, a
    <3> QED
      BY <1>4, <1>9, <3>2 DEF Renews, b
  <2> QED
    BY <1>3, <1>7, <2>1, <2>2, <2>7 DEF RestartFails, a, b, f
<1> QED
  BY <1>8, <1>12, <1>13, <1>14, <1>15

------------------------------------------------------------------------------
(***************************************************************************)
(* Who calls what: the client, ResourceManager's thread, the timer.        *)
(***************************************************************************)
ClientOps == {"load", "config", "start", "stop", "stopBuffering", "unload"}

ServerOps == {"pause", "resume", "concurrent", "disconnect", "online", "offline"}

Ops(t) == IF t = Client THEN ClientOps ELSE IF t = Server THEN ServerOps ELSE {"lateStop"}

AllOps == ClientOps \cup ServerOps \cup {"lateStop"}

(***************************************************************************)
(* A call that waits for the mutex.                                        *)
(***************************************************************************)
Waiting(op) ==
  IF op = "concurrent" THEN <<<<"enter", op>>, <<"handle", "concurrentEnd">>, <<"leave">>>>
  ELSE IF op = "disconnect" THEN <<<<"enter", op>>, <<"handle", "connect">>, <<"leave">>>>
  ELSE <<<<"enter", op>>, <<"leave">>>>

(***************************************************************************)
(* What a caller may have to do without the mutex.                         *)
(***************************************************************************)
CallerFree(t) ==
  {<<>>, <<<<"delete">>>>, <<<<"arm">>>>, <<<<"sleep">>>>, <<<<"awake">>>>} \cup {Waiting(op) :
    op \in Ops(t)}

(***************************************************************************)
(* The last section of an engine's thread, and what it reports.            *)
(***************************************************************************)
Outcome(t) == Outcomes(IF t = Gsl THEN "answer" ELSE "done")

Asks(t) == IF t = Gsl THEN {"gmm"} ELSE {"success", "reject"}

(***************************************************************************)
(* A thread that tells the client.                                         *)
(***************************************************************************)
Telling(e) == {<<e>>} \cup {<<<<"relock", w>>, e>> : w \in {"detected", "rejected"}}
         \cup {<<<<"callback", w>>, <<"relock", w>>, e>> : w \in {"detected", "rejected"}}

(***************************************************************************)
(* What an engine's thread may have to do without the stream's mutex.      *)
(***************************************************************************)
PollerFree(t) ==
  {<<>>, <<<<"woken">>>>, <<<<"buffer">>>>, <<<<"drain">>>>, <<<<"run">>>>}
  \cup (UNION {{<<<<"poll", w>>, e>> : w \in Asks(t)} : e \in Outcome(t)})
  \cup (UNION {Telling(e) : e \in Outcome(t)})

(***************************************************************************)
(* What any thread may have to do without it.                              *)
(***************************************************************************)
Free(t) == IF t \in Callers THEN CallerFree(t) ELSE PollerFree(t)

(***************************************************************************)
(* The destructor waits for the timer.                                     *)
(***************************************************************************)
Leaving == todo[Client] = <<<<"joinTimer">>>>

(***************************************************************************)
(* What a thread may have to do with the mutex.                            *)
(***************************************************************************)
Runs(t) ==
  IF t = Timer THEN TimerRuns
  ELSE IF t = Gsl THEN GslRuns
  ELSE IF t \in Engines THEN (Rejecting(t) /\ State({"BUFFERING"})) \/ Renews(t)
  ELSE (t = Client /\ Leaving) \/ todo[t] \in CallLists(Ops(t))

(***************************************************************************)
(* Every thread has a list that the code can have, and the mutex if that   *)
(* list needs it.                                                          *)
(***************************************************************************)
Planned == \A t \in Threads : todo[t] \in Free(t) \/ (mutex = t /\ Runs(t))

(***************************************************************************)
(* The names of sections without and with the mutex,                       *)
(***************************************************************************)
FreeNames == {"enter", "delete", "arm", "sleep", "awake", "woken", "buffer", "drain", "run",
              "poll", "callback", "relock", "answer", "done"}

HeldNames == Names \cup {"leave", "unlock", "rejected", "joinTimer"}

(***************************************************************************)
(* which are different names: the first section of a thread tells whether  *)
(* it holds the mutex.                                                     *)
(***************************************************************************)
LEMMA NamesApart == FreeNames \cap HeldNames = {} /\ "engage" \notin FreeNames \cup HeldNames
BY DEF FreeNames, HeldNames, Names, Plain

(***************************************************************************)
(* A call that waits is about to enter.                                    *)
(***************************************************************************)
LEMMA WaitingHead ==
  ASSUME NEW op
  PROVE  Waiting(op) # <<>> /\ Head(Waiting(op)) = <<"enter", op>>
<1>1. CASE op = "concurrent"
  BY <1>1 DEF Waiting
<1>2. CASE op = "disconnect"
  BY <1>2 DEF Waiting
<1>3. CASE op \notin {"concurrent", "disconnect"}
  BY <1>3 DEF Waiting
<1> QED
  BY <1>1, <1>2, <1>3

(***************************************************************************)
(* Lists without the mutex begin with a section of that kind;              *)
(***************************************************************************)
LEMMA FreeHeads ==
  ASSUME NEW t \in Threads, NEW q \in Free(t), q # <<>>
  PROVE  Head(q)[1] \in FreeNames
<1>1. CASE t \in Callers
  <2>1. q \in CallerFree(t)
    BY <1>1 DEF Free
  <2>2. CASE q \in {<<<<"delete">>>>, <<<<"arm">>>>, <<<<"sleep">>>>, <<<<"awake">>>>}
    BY <2>2 DEF FreeNames
  <2>3. CASE \E op \in Ops(t) : q = Waiting(op)
    BY <2>3, WaitingHead DEF FreeNames
  <2> QED
    BY <2>1, <2>2, <2>3 DEF CallerFree
<1>2. CASE t \notin Callers
  <2>1. q \in PollerFree(t)
    BY <1>2 DEF Free
  <2>2. CASE q \in {<<<<"woken">>>>, <<<<"buffer">>>>, <<<<"drain">>>>, <<<<"run">>>>}
    BY <2>2 DEF FreeNames
  <2>3. ASSUME NEW e \in Outcome(t), NEW w \in Asks(t), q = <<<<"poll", w>>, e>>
        PROVE  Head(q)[1] \in FreeNames
    BY <2>3 DEF FreeNames
  <2>4. ASSUME NEW e \in Outcome(t), q \in Telling(e) PROVE Head(q)[1] \in FreeNames
    <3>1. e[1] \in {"answer", "done"}
      BY DEF Outcome, Outcomes
    <3>2. CASE q = <<e>>
      BY <3>1, <3>2 DEF FreeNames
    <3>3. ASSUME NEW w, q = <<<<"relock", w>>, e>> PROVE Head(q)[1] \in FreeNames
      BY <3>3 DEF FreeNames
    <3>4. ASSUME NEW w, q = <<<<"callback", w>>, <<"relock", w>>, e>>
          PROVE  Head(q)[1] \in FreeNames
      BY <3>4 DEF FreeNames
    <3> QED
      BY <2>4, <3>2, <3>3, <3>4 DEF Telling
  <2> QED
    BY <2>1, <2>2, <2>3, <2>4, Zenon DEF PollerFree
<1> QED
  BY <1>1, <1>2

(***************************************************************************)
(* sections in front of others begin with one of those;                    *)
(***************************************************************************)
LEMMA AfterHeads ==
  ASSUME NEW S, NEW T, NEW r \in Seq(T), r # <<>>, NEW q \in After(S, r)
  PROVE  q # <<>> /\ (q = r \/ Head(q) \in S)
<1>1. CASE q = r
  BY <1>1
<1>2. CASE q # r
  BY <1>2, AfterTail
<1> QED
  BY <1>1, <1>2

(***************************************************************************)
(* a call's list begins with a section of a call, or is its return;        *)
(***************************************************************************)
LEMMA LeaveHead ==
  ASSUME NEW ops, NEW q \in CallLists(ops)
  PROVE  /\ q # <<>>
         /\ Head(q)[1] \in Names \/ \E l \in Leaves(ops) : q = <<l>>
<1>1. PICK l \in Leaves(ops) : q \in After(Section, <<l>>)
  BY DEF CallLists
<1>2. <<l>> \in Seq({l}) /\ <<l>> # <<>>
  BY LeafLists
<1>3. q # <<>> /\ (q = <<l>> \/ Head(q) \in Section)
  BY <1>1, <1>2, AfterHeads
<1> QED
  BY <1>3, SectionNames

(***************************************************************************)
(* and lists with the mutex begin with a section that needs it.            *)
(***************************************************************************)
LEMMA RunHeads ==
  ASSUME NEW t \in Threads, Runs(t)
  PROVE  todo[t] # <<>> /\ (Head(todo[t])[1] \in HeldNames \/ (t = Gsl
           /\ Head(todo[t])[1] = "engage"))
<1> DEFINE Held == todo[t] # <<>> /\ Head(todo[t])[1] \in HeldNames
<1>1. ASSUME NEW ops, todo[t] \in CallLists(ops) PROVE Held
  <2>1. todo[t] # <<>> /\ (Head(todo[t])[1] \in Names \/ \E l \in Leaves(ops) : todo[t] = <<l>>)
    BY <1>1, LeaveHead
  <2>2. \A l \in Leaves(ops) : l[1] = "leave" /\ Head(<<l>>) = l
    BY LeafLists
  <2> QED
    BY <2>1, <2>2 DEF HeldNames
<1>2. CASE t = Client /\ Leaving
  BY <1>2 DEF Leaving, HeldNames
<1>3. ASSUME NEW S \in SUBSET Section, NEW first, NEW e, todo[t] \in After(S, <<first, e>>),
             first[1] \in HeldNames
      PROVE  Held
  <2>1. <<first, e>> \in Seq({first, e}) /\ <<first, e>> # <<>> /\ Head(<<first, e>>) = first
    OBVIOUS
  <2>2. todo[t] # <<>> /\ (todo[t] = <<first, e>> \/ Head(todo[t]) \in S)
    BY <1>3, <2>1, AfterHeads
  <2> QED
    BY <1>3, <2>1, <2>2, SectionNames DEF HeldNames
<1>4. CASE t = Timer
  <2>1. PICK l \in Leaves({"lateStop"}) :
          \/ todo[Timer] = <<<<"handle", "stop">>, l>>
          \/ todo[Timer] \in After(Ending, <<<<"halted">>, <<"unwake">>, l>>)
          \/ todo[Timer] \in After(Ending, <<l>>)
    BY <1>4 DEF Runs, TimerRuns
  <2>2. l[1] = "leave" /\ <<l>> \in Seq({l}) /\ <<l>> # <<>> /\ Head(<<l>>) = l
    BY LeafLists
  <2> DEFINE r == <<<<"halted">>, <<"unwake">>, l>>
  <2>3. r \in Seq({<<"halted">>, <<"unwake">>, l}) /\ r # <<>> /\ Head(r)[1] = "halted"
    OBVIOUS
  <2> HIDE DEF r
  <2>4. \A s \in Ending : s[1] \in HeldNames
    BY SectionSets, SectionNames DEF HeldNames
  <2>5. CASE todo[Timer] = <<<<"handle", "stop">>, l>>
    BY <1>4, <2>5 DEF HeldNames, Names
  <2>6. CASE todo[Timer] \in After(Ending, r)
    <3>1. todo[Timer] # <<>> /\ (todo[Timer] = r \/ Head(todo[Timer]) \in Ending)
      BY <2>3, <2>6, AfterHeads
    <3> QED
      BY <1>4, <2>3, <2>4, <3>1 DEF HeldNames, Names, Plain
  <2>7. CASE todo[Timer] \in After(Ending, <<l>>)
    <3>1. todo[Timer] # <<>> /\ (todo[Timer] = <<l>> \/ Head(todo[Timer]) \in Ending)
      BY <2>2, <2>7, AfterHeads
    <3> QED
      BY <1>4, <2>2, <2>4, <3>1 DEF HeldNames
  <2> QED
    BY <2>1, <2>5, <2>6, <2>7 DEF r
<1>5. CASE t = Gsl /\ t # Timer
  <2>1. PICK e \in Outcomes("answer") :
            todo[Gsl] \in After({"engage"} \X config.second, <<<<"unlock">>, e>>)
    BY <1>5 DEF Runs, GslRuns
  <2> DEFINE r == <<<<"unlock">>, e>>
  <2>2. r \in Seq({<<"unlock">>, e}) /\ r # <<>> /\ Head(r)[1] = "unlock"
    OBVIOUS
  <2> HIDE DEF r
  <2>3. todo[Gsl] # <<>> /\ (todo[Gsl] = r \/ Head(todo[Gsl]) \in {"engage"} \X config.second)
    BY <2>1, <2>2, AfterHeads DEF r
  <2> QED
    BY <1>5, <2>2, <2>3 DEF HeldNames
<1>6. CASE t \in Engines /\ t \notin {Timer, Gsl}
  <2>1. <<"rejected">>[1] \in HeldNames /\ <<"unlock">>[1] \in HeldNames
    BY DEF HeldNames
  <2>2. Rejecting(t) => Held
    BY <1>3, <2>1, SectionSets DEF Rejecting
  <2>3. Renews(t) => Held
    BY <1>3, <2>1, SectionSets DEF Renews
  <2> QED
    BY <1>6, <2>2, <2>3 DEF Runs
<1> QED
  BY <1>1, <1>2, <1>4, <1>5, <1>6 DEF Runs

(***************************************************************************)
(* So the name of the first section tells who has the mutex. Every step's  *)
(* proof starts here.                                                      *)
(***************************************************************************)
LEMMA WhoseTurn ==
  ASSUME Planned, NEW t \in Threads, todo[t] # <<>>, NEW n, n = Head(todo[t])[1]
  PROVE  /\ n \in FreeNames => todo[t] \in Free(t)
         /\ n \in HeldNames \cup {"engage"} => mutex = t /\ Runs(t)
         /\ n \in FreeNames \cup HeldNames \cup {"engage"}
         /\ n = "engage" => t = Gsl
<1>1. todo[t] \in Free(t) => n \in FreeNames
  BY FreeHeads
<1>2. Runs(t) => n \in HeldNames \/ (t = Gsl /\ n = "engage")
  BY RunHeads
<1> QED
  BY <1>1, <1>2, NamesApart DEF Planned

(***************************************************************************)
(* A step of the mutex's holder, or of one who takes it when it is free:   *)
(* the others have lists without the mutex.                                *)
(***************************************************************************)
LEMMA PlannedByHolder ==
  ASSUME Planned, DOMAIN todo = Threads, NEW t \in Threads, mutex \in {None, t},
         \A u \in Threads \ {t} : todo'[u] = todo[u] \/ todo'[u] \in Free(u),
         todo'[t] \in Free(t) \/ (mutex' = t /\ Runs(t)')
  PROVE  Planned'
<1>1. ASSUME NEW u \in Threads, u # t PROVE todo'[u] \in Free(u)
  <2>1. mutex # u
    BY <1>1, EnginesAssumption
  <2> QED
    BY <1>1, <2>1 DEF Planned
<1> QED
  BY <1>1 DEF Planned

(***************************************************************************)
(* A list with the mutex is still one while the state, the pending stop    *)
(* and the configuration are the same,                                     *)
(***************************************************************************)
LEMMA RunsKept ==
  ASSUME NEW t \in Threads, Runs(t), UNCHANGED <<cur_state, pending_stop, config>>,
         todo'[t] = todo[t]
  PROVE  Runs(t)'
<1>1. CASE t = Timer
  BY <1>1 DEF Runs, TimerRuns
<1>2. CASE t = Gsl /\ t # Timer
  BY <1>2 DEF Runs, GslRuns
<1>3. CASE t \in Engines /\ t \notin {Timer, Gsl}
  BY <1>3 DEF Runs, Rejecting, Renews, State
<1>4. CASE t \notin Engines \cup {Timer, Gsl}
  BY <1>4 DEF Runs, Leaving
<1> QED
  BY <1>1, <1>2, <1>3, <1>4

(***************************************************************************)
(* so a step of a thread without the mutex leaves its holder alone.        *)
(***************************************************************************)
LEMMA PlannedByOther ==
  ASSUME Planned, DOMAIN todo = Threads, NEW t \in Threads,
         UNCHANGED <<mutex, cur_state, pending_stop, config>>,
         \A u \in Threads \ {t} : todo'[u] = todo[u] \/ todo'[u] \in Free(u),
         todo'[t] \in Free(t)
  PROVE  Planned'
<1>1. ASSUME NEW u \in Threads, todo'[u] = todo[u]
      PROVE  todo'[u] \in Free(u) \/ (mutex' = u /\ Runs(u)')
  BY <1>1, RunsKept DEF Planned
<1> QED
  BY <1>1 DEF Planned

(***************************************************************************)
(* A timer that is woken has a list without the mutex.                     *)
(***************************************************************************)
LEMMA FrameFrees ==
  ASSUME NEW t \in Threads, Frame(t)
  PROVE  \A u \in Threads \ {t} : todo'[u] = todo[u] \/ todo'[u] \in Free(u)
<1>1. <<<<"awake">>>> \in Free(Timer)
  BY DEF Free, Callers, CallerFree
<1> QED
  BY <1>1 DEF Frame

(***************************************************************************)
(* Calls on engines and handlers keep everybody's list one that the code   *)
(* can have.                                                               *)
(***************************************************************************)
LEMMA WorksPlanned ==
  ASSUME Planned, DOMAIN todo = Threads, config \in Configs, UNCHANGED config,
         NEW t \in Threads, Works(t),
         pending_stop \in BOOLEAN, pending_stop => State(Told)
  PROVE  /\ Planned' /\ mutex = t /\ mutex' = t
         /\ t # Gsl => Frame(t)
         /\ t = Gsl => UNCHANGED stream /\ \A u \in Threads \ {Gsl} :
              \/ todo'[u] = todo[u]
              \/ u \in config.second /\ todo[u] = <<>> /\ todo'[u] = <<<<"run">>>>
<1> DEFINE n == Head(todo[t])[1]
<1>1. todo[t] # <<>> /\ n \in HeldNames \cup {"engage"}
  BY SectionDone DEF HeldNames
<1>2. mutex = t /\ Runs(t)
  BY <1>1, WhoseTurn
<1>3. mutex' = t
  BY <1>2, WorksKeep
<1>4. CASE t = Gsl
  <2>1. t # Timer /\ t \notin Engines
    BY <1>4, ThreadsAssumption
  <2>2. GslRuns
    BY <1>2, <1>4, <2>1 DEF Runs
  <2>3. /\ GslRuns' /\ UNCHANGED stream
        /\ \A u \in Threads \ {Gsl} :
              \/ todo'[u] = todo[u]
              \/ u \in config.second /\ todo[u] = <<>> /\ todo'[u] = <<<<"run">>>>
    BY <1>4, <2>2, GslGoesOn
  <2>4. Runs(t)'
    BY <1>4, <2>1, <2>3 DEF Runs
  <2>5. \A u \in Engines : u \notin Callers /\ <<<<"run">>>> \in Free(u)
    BY ThreadsAssumption DEF Free, Callers, PollerFree
  <2>6. \A u \in Threads \ {t} : todo'[u] = todo[u] \/ todo'[u] \in Free(u)
    BY <1>4, <2>3, <2>5, SecondFinite
  <2>7. Planned'
    BY <1>2, <1>3, <2>4, <2>6, PlannedByHolder
  <2> QED
    BY <1>2, <1>3, <1>4, <2>3, <2>7
<1>5. t # Gsl => n # "engage"
  BY <1>1, WhoseTurn
<1>6. CASE t # Gsl
  <2>1. Frame(t) /\ Runs(t)'
    <3>1. CASE t = Timer
      <4>1. TimerRuns
        BY <1>2, <3>1 DEF Runs
      <4>2. TimerRuns'
        BY <3>1, <4>1, TimerGoesOn
      <4>3. Runs(t)'
        BY <3>1, <4>2 DEF Runs
      <4> QED
        BY <1>6, <1>5, <4>3, WorksFrame
    <3>2. CASE t \in Engines
      <4>1. t \notin {Timer, Gsl}
        BY <3>2, ThreadsAssumption
      <4>2. CASE Rejecting(t) /\ State({"BUFFERING"})
        <5>1. Rejecting(t)' /\ UNCHANGED stream /\ \A u \in Threads \ {t} : todo'[u] = todo[u]
          BY <3>2, <4>2, RejectingGoesOn
        <5>2. Runs(t)'
          BY <3>2, <4>1, <4>2, <5>1 DEF Runs, State, stream, states
        <5> QED
          BY <1>6, <1>5, <5>2, WorksFrame
      <4>3. CASE Renews(t)
        <5>1. Renews(t)' /\ Frame(t)
          BY <3>2, <4>3, RenewsGoesOn
        <5> QED
          BY <3>2, <4>1, <5>1 DEF Runs
      <4> QED
        BY <1>2, <3>2, <4>1, <4>2, <4>3 DEF Runs
    <3>3. CASE t \in {Client, Server}
      <4>1. t \notin Engines \cup {Timer, Gsl}
        BY <3>3, ThreadsAssumption
      <4>2. ~(t = Client /\ Leaving)
        <5>1. Leaving => Head(todo[Client])[1] = "joinTimer"
          BY DEF Leaving
        <5>2. "joinTimer" \notin Names \cup {"engage"}
          BY DEF Names, Plain
        <5> QED
          BY <5>1, <5>2, SectionDone
      <4>3. todo[t] \in CallLists(Ops(t))
        BY <1>2, <4>1, <4>2 DEF Runs
      <4>4. todo'[t] \in CallLists(Ops(t))
        BY <4>1, <4>3, CallsGoOn DEF Works
      <4>5. Runs(t)'
        BY <4>1, <4>4 DEF Runs
      <4> QED
        BY <1>6, <1>5, <4>5, WorksFrame
    <3> QED
      BY <1>6, <3>1, <3>2, <3>3 DEF Threads
  <2>2. Planned'
    BY <1>2, <1>3, <2>1, FrameFrees, PlannedByHolder
  <2> QED
    BY <1>2, <1>3, <1>6, <2>1, <2>2
<1> QED
  BY <1>4, <1>6

(***************************************************************************)
(* Only engines of the configuration ever run.                             *)
(***************************************************************************)
EnginesIdle == \A k \in Engines : todo[k] # <<>> => k \in config.second

(***************************************************************************)
(* The types that the proof needs.                                         *)
(***************************************************************************)
Types ==
  /\ config \in Configs /\ DOMAIN todo = Threads /\ currentState \in CallStates
  /\ pending_stop \in BOOLEAN /\ detection_state \subseteq config.second

(***************************************************************************)
(* The client is about to start the stream again, which cancels the stop;  *)
(***************************************************************************)
Starting == mutex = Client
  /\ \E l \in Leaves({"start"}) : todo[Client] = <<<<"handle", "start">>, l>>

(***************************************************************************)
(* or it is about to end a call that leaves the stop pending, or to handle *)
(* an event that cancels it or finds nothing to do;                        *)
(***************************************************************************)
ClientReady ==
  \/ \E l \in Leaves({"config", "stop", "stopBuffering"}) : todo[Client] = <<l>>
  \/ \E l \in Leaves(ClientOps) : \E op \in {"load", "config", "stop", "unload"} :
       todo[Client] = <<<<"handle", op>>, l>>

(***************************************************************************)
(* and ResourceManager's thread likewise: a microphone that goes, a        *)
(* profile that changes and a restart of the DSP cancel the stop, a resume *)
(* does not.                                                               *)
(***************************************************************************)
ServerReady ==
  \E l \in Leaves(ServerOps) :
     \/ todo[Server] = <<l>>
     \/ todo[Server] = <<<<"handle", "stop">>, <<"handle", "unload">>, <<"offline">>, l>>
     \/ \E e \in {"pause", "resume", "offline", "online"} :
          todo[Server] = <<<<"handle", e>>, l>>
     \/ todo[Server] = <<<<"handle", "concurrent">>, <<"handle", "concurrentEnd">>, l>>
     \/ todo[Server] = <<<<"handle", "disconnect">>, <<"handle", "connect">>, l>>

(***************************************************************************)
(* An engine that may still reject the last detection.                     *)
(***************************************************************************)
Rejects(k) == At(k, "run") \/ (At(k, "poll") /\ Arg(k) = "reject")

(***************************************************************************)
(* While the deferred stop is pending the stream waits for its client with *)
(* a timer that will stop it: nobody with the mutex is about to move it,   *)
(* and no engine will start recognition again by rejecting a detection     *)
(* that the client was told of.                                            *)
(***************************************************************************)
Pending ==
  pending_stop =>
    /\ State(Told) /\ ~timer_stop_waiting /\ todo[Timer] # <<>>
    /\ mutex \notin Pollers
    /\ mutex = Server => ServerReady
    /\ mutex = Client => Starting \/ ClientReady
    /\ currentState = "STOPPED" \/ Starting
    /\ rejection_notified \/ Starting \/ \A k \in Engines : ~Rejects(k)

(***************************************************************************)
(* A verdict that is kept is on the detection in the buffer: the stream is *)
(* there, no call is in progress, and the engines that accepted do not     *)
(* reject.                                                                 *)
(***************************************************************************)
Verdicts ==
  detection_state # {} =>
    /\ State({"BUFFERING"})
    /\ mutex = None \/ \E k \in Engines : mutex = k /\ Rejecting(k)
    /\ \A k \in detection_state : ~Rejects(k)

(***************************************************************************)
(* What holds also while the destructor waits.                             *)
(***************************************************************************)
Kept == Types /\ Planned /\ EnginesIdle

(***************************************************************************)
(* The inductive invariant.                                                *)
(***************************************************************************)
IInv == Kept /\ (~Leaving => Pending /\ Verdicts)

(***************************************************************************)
(* A thread without the mutex is neither about to start, stop nor destroy  *)
(* the stream, nor stopping engines after a rejection.                     *)
(***************************************************************************)
LEMMA NotFree ==
  ASSUME NEW t \in Threads, todo[t] \in Free(t)
  PROVE  /\ t = Client => ~Leaving /\ ~Starting /\ ~ClientReady
         /\ t = Server => ~ServerReady
         /\ t \in Engines => ~Rejecting(t)
<1> DEFINE n == Head(todo[t])[1]
<1>1. todo[t] = <<>> \/ n \in FreeNames
  BY FreeHeads
<1>2. {"joinTimer", "handle", "leave", "rejected", "quit", "await"} \cap FreeNames = {}
  BY DEF FreeNames
<1>3. ASSUME todo[t] # <<>>, n \in {"joinTimer", "handle", "leave", "rejected", "quit", "await"}
      PROVE  FALSE
  BY <1>1, <1>2, <1>3
<1>4. ASSUME t = Client PROVE ~Leaving /\ ~Starting /\ ~ClientReady
  <2>1. ASSUME Leaving PROVE FALSE
    BY <1>3, <1>4, <2>1 DEF Leaving
  <2>2. ASSUME Starting PROVE FALSE
    BY <1>3, <1>4, <2>2 DEF Starting
  <2>3. ASSUME ClientReady PROVE FALSE
    <3>1. ASSUME NEW l \in Leaves({"config", "stop", "stopBuffering"}), todo[Client] = <<l>>
          PROVE  FALSE
      BY <1>3, <1>4, <3>1, LeafLists
    <3>2. ASSUME NEW l, NEW op, todo[Client] = <<<<"handle", op>>, l>> PROVE FALSE
      BY <1>3, <1>4, <3>2
    <3> QED
      BY <2>3, <3>1, <3>2 DEF ClientReady
  <2> QED
    BY <2>1, <2>2, <2>3
<1>5. ASSUME t = Server PROVE ~ServerReady
  <2>1. ASSUME NEW l \in Leaves(ServerOps), todo[Server] = <<l>> PROVE FALSE
    BY <1>3, <1>5, <2>1, LeafLists
  <2>2. ASSUME NEW l, NEW op, todo[Server] = <<<<"handle", op>>, l>> PROVE FALSE
    BY <1>3, <1>5, <2>2
  <2>3. ASSUME NEW l, NEW a, NEW b, todo[Server] = <<<<"handle", a>>, b, l>> PROVE FALSE
    BY <1>3, <1>5, <2>3
  <2>4. ASSUME NEW l, NEW a, NEW b, NEW c, todo[Server] = <<<<"handle", a>>, b, c, l>>
        PROVE  FALSE
    BY <1>3, <1>5, <2>4
  <2> QED
    BY <2>1, <2>2, <2>3, <2>4 DEF ServerReady
<1>6. ASSUME t \in Engines, Rejecting(t) PROVE FALSE
  <2>1. PICK e \in Outcomes("done") : todo[t] \in After(Deciding, <<<<"rejected">>, e>>)
    BY <1>6 DEF Rejecting
  <2> DEFINE r == <<<<"rejected">>, e>>
  <2>2. r \in Seq({<<"rejected">>, e}) /\ r # <<>> /\ Head(r)[1] = "rejected"
    OBVIOUS
  <2> HIDE DEF r
  <2>3. todo[t] # <<>> /\ (todo[t] = r \/ Head(todo[t]) \in Deciding)
    BY <2>1, <2>2, AfterHeads DEF r
  <2> QED
    BY <1>3, <2>2, <2>3 DEF Deciding
<1> QED
  BY <1>4, <1>5, <1>6

(***************************************************************************)
(* A step of a thread without the mutex that changes nothing of the stream *)
(* but, at most, adds its verdict on the detection in the buffer.          *)
(***************************************************************************)
LEMMA FreeStep ==
  ASSUME IInv, NEW t \in Threads, todo[t] \in Free(t), todo'[t] \in Free(t),
         DOMAIN todo' = Threads,
         \A u \in Threads \ {t} : todo'[u] = todo[u],
         UNCHANGED <<config, cur_state, currentState, rejection_notified, timer, mutex>>,
         \/ detection_state' = detection_state
         \/ /\ detection_state' = detection_state \cup {t} /\ t \in config.second
            /\ State({"BUFFERING"}) /\ mutex = None /\ ~Rejects(t)',
         Rejects(t)' => Rejects(t),
         t = Timer /\ pending_stop /\ ~Leaving => todo'[t] # <<>>,
         t \in Engines /\ todo'[t] # <<>> => todo[t] # <<>>
  PROVE  IInv'
<1>1. Client \in Threads /\ Server \in Threads /\ Timer \in Threads /\ Engines \subseteq Threads
      /\ None \notin Threads
  BY EnginesAssumption DEF Threads
<1>2. Types'
  BY DEF IInv, Kept, Types, timer
<1>3. Planned'
  BY PlannedByOther DEF IInv, Kept, Types, timer
<1>4. EnginesIdle'
  BY <1>1 DEF IInv, Kept, EnginesIdle
<1>5. ASSUME NEW u \in Threads, u # t
      PROVE  At(u, "run")' = At(u, "run") /\ At(u, "poll")' = At(u, "poll") /\ Arg(u)' = Arg(u)
  BY <1>5 DEF At, Arg
<1>6. \A k \in Engines : Rejects(k)' => Rejects(k)
  BY <1>1, <1>5 DEF Rejects
<1>7. ASSUME ~Leaving' PROVE Pending' /\ Verdicts'
  <2>1. ~Leaving
    <3>1. CASE t = Client
      BY <3>1, NotFree
    <3>2. CASE t # Client
      BY <1>1, <1>7, <3>2 DEF Leaving
    <3> QED
      BY <3>1, <3>2
  <2>2. Pending /\ Verdicts
    BY <2>1 DEF IInv
  <2>3. ASSUME pending_stop' PROVE Pending'
    <3>1. /\ State(Told) /\ ~timer_stop_waiting /\ todo[Timer] # <<>>
          /\ mutex \notin Pollers
          /\ mutex = Server => ServerReady
          /\ mutex = Client => Starting \/ ClientReady
          /\ currentState = "STOPPED" \/ Starting
          /\ rejection_notified \/ Starting \/ \A k \in Engines : ~Rejects(k)
      BY <2>2, <2>3 DEF Pending, timer
    <3>2. mutex = Client => t # Client
      BY <3>1, NotFree
    <3>3. mutex = Server => t # Server
      BY <3>1, NotFree
    <3>4. mutex = Server => ServerReady'
      BY <1>1, <3>1, <3>3 DEF ServerReady
    <3>5. mutex = Client => Starting' = Starting /\ ClientReady' = ClientReady
      BY <1>1, <3>2 DEF Starting, ClientReady
    <3>6. Starting => Starting'
      BY <3>5 DEF Starting
    <3>7. todo'[Timer] # <<>>
      BY <1>1, <2>1, <2>3, <3>1 DEF timer
    <3>8. State(Told)' /\ ~timer_stop_waiting'
      BY <3>1 DEF State, timer
    <3> QED
      BY <1>6, <3>1, <3>4, <3>5, <3>6, <3>7, <3>8 DEF Pending
  <2>4. ASSUME detection_state' # {} PROVE Verdicts'
    <3>1. CASE detection_state' = detection_state
      <4>1. /\ State({"BUFFERING"})
            /\ mutex = None \/ \E k \in Engines : mutex = k /\ Rejecting(k)
            /\ \A k \in detection_state : ~Rejects(k)
        BY <2>2, <2>4, <3>1 DEF Verdicts
      <4>2. detection_state \subseteq Engines
        BY SecondFinite DEF IInv, Kept, Types
      <4>3. ASSUME NEW k \in Engines, mutex = k, Rejecting(k) PROVE Rejecting(k)'
        <5>1. k # t
          BY <4>3, NotFree
        <5> QED
          BY <1>1, <4>3, <5>1 DEF Rejecting
      <4> QED
        BY <1>6, <3>1, <4>1, <4>2, <4>3 DEF Verdicts, State
    <3>2. CASE detection_state' = detection_state \cup {t} /\ State({"BUFFERING"})
              /\ mutex = None /\ ~Rejects(t)'
      <4>1. \A k \in detection_state : ~Rejects(k)
        BY <2>2 DEF Verdicts
      <4>2. detection_state \subseteq Engines
        BY SecondFinite DEF IInv, Kept, Types
      <4> QED
        BY <1>6, <3>2, <4>1, <4>2 DEF Verdicts, State
    <3> QED
      BY <3>1, <3>2
  <2> QED
    BY <2>3, <2>4 DEF Pending, Verdicts
<1> QED
  BY <1>2, <1>3, <1>4, <1>7 DEF IInv, Kept

(***************************************************************************)
(* A step of a thread with the mutex, or of one who takes it, after which  *)
(* no stop is pending and no verdict is kept.                              *)
(***************************************************************************)
LEMMA CalmStep ==
  ASSUME IInv, NEW t \in Threads, mutex \in {None, t}, DOMAIN todo' = Threads,
         \A u \in Threads \ {t} : todo'[u] = todo[u] \/ todo'[u] \in Free(u),
         \A u \in Engines \ {t} : todo'[u] # <<>> => todo[u] # <<>> \/ u \in config.second,
         t \in Engines => t \in config.second,
         todo'[t] \in Free(t) \/ (mutex' = t /\ Runs(t)'),
         UNCHANGED config, currentState' \in CallStates, pending_stop' = FALSE,
           detection_state' = {}
  PROVE  IInv'
<1>1. Planned'
  BY PlannedByHolder DEF IInv, Kept, Types
<1>2. Types'
  BY DEF IInv, Kept, Types
<1>3. EnginesIdle'
  BY DEF IInv, Kept, EnginesIdle
<1>4. Pending' /\ Verdicts'
  BY DEF Pending, Verdicts
<1> QED
  BY <1>1, <1>2, <1>3, <1>4 DEF IInv, Kept

(***************************************************************************)
(* Engines' threads and callers are different threads.                     *)
(***************************************************************************)
LEMMA PollerThreads ==
  /\ \A t \in Pollers : t \in Threads /\ t \notin Callers /\ t # Timer /\ t # Client
       /\ Free(t) = PollerFree(t)
  /\ Engines \subseteq Pollers /\ Gsl \in Pollers /\ Gsl \notin Engines
  /\ \A t \in Callers : t \in Threads /\ t \notin Pollers /\ t \notin Engines
       /\ Free(t) = CallerFree(t)
BY ThreadsAssumption DEF Pollers, Callers, Threads, Free

(***************************************************************************)
(* An engine's last section, as a list; it stays one when a detection is   *)
(* given up.                                                               *)
(***************************************************************************)
LEMMA OutcomeOf ==
  ASSUME NEW t, NEW e \in Outcome(t)
  PROVE  /\ e[1] \in {"answer", "done"} /\ [e EXCEPT ![2] = FALSE] \in Outcome(t)
         /\ <<e>> \in Seq({e}) /\ Head(<<e>>) = e /\ Last(<<e>>) = e /\ <<e>> # <<>>
<1>1. e[1] \in {"answer", "done"}
  BY DEF Outcome, Outcomes
<1>2. [e EXCEPT ![2] = FALSE] \in Outcome(t)
  BY OutcomeFails DEF Outcome
<1>3. <<e>> \in Seq({e}) /\ Head(<<e>>) = e /\ Last(<<e>>) = e /\ <<e>> # <<>>
  BY DEF Last
<1> QED
  BY <1>1, <1>2, <1>3

(***************************************************************************)
(* An engine's thread that polls for the mutex or tells the client has     *)
(* just that left,                                                         *)
(***************************************************************************)
LEMMA PollerShapes ==
  ASSUME NEW t \in Pollers, todo[t] \in Free(t), todo[t] # <<>>, NEW n, n = Head(todo[t])[1]
  PROVE  /\ n = "poll" => \E e \in Outcome(t) : \E w \in Asks(t) :
              todo[t] = <<<<"poll", w>>, e>>
         /\ n = "callback" => \E e \in Outcome(t) : \E w \in {"detected", "rejected"} :
                                todo[t] = <<<<"callback", w>>, <<"relock", w>>, e>>
         /\ n = "relock" => \E e \in Outcome(t) : \E w \in {"detected", "rejected"} :
                                todo[t] = <<<<"relock", w>>, e>>
<1> DEFINE Goal ==
         /\ n = "poll" => \E e \in Outcome(t) : \E w \in Asks(t) :
              todo[t] = <<<<"poll", w>>, e>>
         /\ n = "callback" => \E e \in Outcome(t) : \E w \in {"detected", "rejected"} :
                                todo[t] = <<<<"callback", w>>, <<"relock", w>>, e>>
         /\ n = "relock" => \E e \in Outcome(t) : \E w \in {"detected", "rejected"} :
                                todo[t] = <<<<"relock", w>>, e>>
<1>1. todo[t] \in PollerFree(t)
  BY PollerThreads
<1>2. CASE todo[t] \in {<<<<"woken">>>>, <<<<"buffer">>>>, <<<<"drain">>>>, <<<<"run">>>>}
  BY <1>2
<1>3. ASSUME NEW e \in Outcome(t), NEW w \in Asks(t), todo[t] = <<<<"poll", w>>, e>>
      PROVE  Goal
  <2>1. n = "poll"
    BY <1>3
  <2> QED
    BY <1>3, <2>1
<1>4. ASSUME NEW e \in Outcome(t), todo[t] \in Telling(e) PROVE Goal
  <2>1. e[1] \in {"answer", "done"}
    BY OutcomeOf
  <2>2. CASE todo[t] = <<e>>
    <3>1. n = e[1]
      BY <2>2
    <3> QED
      BY <2>1, <3>1
  <2>3. ASSUME NEW w \in {"detected", "rejected"}, todo[t] = <<<<"relock", w>>, e>>
        PROVE  Goal
    <3>1. n = "relock"
      BY <2>3
    <3> QED
      BY <2>3, <3>1
  <2>4. ASSUME NEW w \in {"detected", "rejected"},
               todo[t] = <<<<"callback", w>>, <<"relock", w>>, e>>
        PROVE  Goal
    <3>1. n = "callback"
      BY <2>4
    <3> QED
      BY <2>4, <3>1
  <2> QED
    BY <1>4, <2>2, <2>3, <2>4, Zenon DEF Telling
<1> QED
  BY <1>1, <1>2, <1>3, <1>4, Zenon DEF PollerFree

(***************************************************************************)
(* and these are lists without the mutex.                                  *)
(***************************************************************************)
LEMMA FreeLists ==
  ASSUME NEW t \in Pollers, NEW e \in Outcome(t)
  PROVE  /\ <<>> \in Free(t) /\ <<e>> \in Free(t) /\ <<<<"woken">>>> \in Free(t)
         /\ <<<<"buffer">>>> \in Free(t) /\ <<<<"drain">>>> \in Free(t)
         /\ <<<<"run">>>> \in Free(t)
         /\ \A w \in Asks(t) : <<<<"poll", w>>, e>> \in Free(t)
         /\ \A w \in {"detected", "rejected"} :
               /\ <<<<"callback", w>>, <<"relock", w>>, e>> \in Free(t)
               /\ <<<<"relock", w>>, e>> \in Free(t)
<1>1. Free(t) = PollerFree(t)
  BY PollerThreads
<1>2. Telling(e) \subseteq PollerFree(t)
  BY Zenon DEF PollerFree
<1>3. \A w \in Asks(t) : <<<<"poll", w>>, e>> \in PollerFree(t)
  <2> DEFINE A == {<<<<"poll", w>>, e>> : w \in Asks(t)}
  <2>1. A \in {{<<<<"poll", w>>, x>> : w \in Asks(t)} : x \in Outcome(t)}
    BY Zenon
  <2>2. \A w \in Asks(t) : <<<<"poll", w>>, e>> \in A
    BY Zenon
  <2> QED
    BY <2>1, <2>2, Zenon DEF PollerFree
<1>4. /\ <<>> \in PollerFree(t) /\ <<<<"woken">>>> \in PollerFree(t)
      /\ <<<<"buffer">>>> \in PollerFree(t)
      /\ <<<<"drain">>>> \in PollerFree(t) /\ <<<<"run">>>> \in PollerFree(t)
  <2>1. {<<>>, <<<<"woken">>>>, <<<<"buffer">>>>, <<<<"drain">>>>,
          <<<<"run">>>>} \subseteq PollerFree(t)
    BY Zenon DEF PollerFree
  <2> QED
    BY <2>1
<1>5. <<e>> \in Telling(e)
  BY DEF Telling
<1>6. \A w \in {"detected", "rejected"} :
        /\ <<<<"callback", w>>, <<"relock", w>>, e>> \in Telling(e)
                                          /\ <<<<"relock", w>>, e>> \in Telling(e)
  BY Zenon DEF Telling
<1> QED
  BY <1>1, <1>2, <1>3, <1>4, <1>5, <1>6

(***************************************************************************)
(* notifyClient(): the stop is pending, the timer is armed, and the mutex  *)
(* is given up for the client's callback.                                  *)
(***************************************************************************)
LEMMA NotifyStep ==
  ASSUME IInv, UNCHANGED config, NEW t \in Pollers, NEW what \in {"detected", "rejected"},
         Notify(t, what),
         Last(todo[t]) \in Outcome(t), mutex \in {None, t}, State(Told)', detection_state' = {},
         rejection_notified' \/ \A k \in Engines \ {t} : ~Rejects(k), t \in Engines
           => t \in config.second
  PROVE  IInv'
<1>1. /\ t \in Threads /\ t \notin Callers /\ Timer \in Threads /\ t # Timer /\ Client # Timer
      /\ t # Client
      /\ Client \in Threads /\ Engines \subseteq Threads /\ Timer \notin Engines
  BY PollerThreads, ThreadsAssumption DEF Threads
<1> DEFINE e == Last(todo[t])
           q == <<<<"callback", what>>, <<"relock", what>>, e>>
<1>2. todo' = Armed([todo EXCEPT ![t] = <<<<"callback", what>>,
        <<"relock", what>>>> \o <<Last(@)>>])
  BY DEF Notify
<1>3. <<<<"callback", what>>, <<"relock", what>>>> \o <<e>> = q
  <2> DEFINE a == <<"callback", what>>
             b == <<"relock", what>>
             T == {a, b, e}
  <2>1. <<a>> \in Seq(T) /\ <<b>> \in Seq(T) /\ <<e>> \in Seq(T)
    OBVIOUS
  <2> HIDE DEF a, b, e, T
  <2>2. /\ <<a>> \o <<b>> = <<a, b>> /\ <<b>> \o <<e>> = <<b, e>>
        /\ <<a>> \o <<b, e>> = <<a, b, e>>
    BY Joined2, Joined3
  <2>3. (<<a>> \o <<b>>) \o <<e>> = <<a>> \o (<<b>> \o <<e>>)
    BY <2>1, ConcatAssociative
  <2>4. <<a, b>> \o <<e>> = <<a, b, e>>
    BY <2>2, <2>3
  <2> QED
    BY <2>4 DEF a, b
<1>4. q \in Free(t)
  BY FreeLists
<1> HIDE DEF q
<1>5. /\ DOMAIN todo' = Threads /\ todo'[t] = q
      /\ \A u \in Threads \ {t, Timer} : todo'[u] = todo[u]
      /\ todo'[Timer] = IF todo[Timer] = <<>> THEN <<<<"arm">>>> ELSE todo[Timer]
  BY <1>1, <1>2, <1>3 DEF Armed, IInv, Kept, Types
<1>6. <<<<"arm">>>> \in Free(Timer)
  BY DEF Free, Callers, CallerFree
<1>7. Planned'
  BY <1>1, <1>4, <1>5, <1>6, PlannedByHolder DEF IInv, Kept, Types
<1>8. /\ mutex' = None /\ currentState' = "STOPPED" /\ pending_stop' = TRUE
      /\ timer_stop_waiting' = FALSE
  BY DEF Notify, PostDelayedStop
<1>9. Types'
  BY <1>5, <1>8 DEF IInv, Kept, Types, CallStates
<1>10. EnginesIdle'
  BY <1>1, <1>5 DEF IInv, Kept, EnginesIdle
<1>11. Head(q)[1] = "callback"
  BY DEF q
<1>12. ASSUME NEW k \in Engines, ~Rejects(k), k # t PROVE ~Rejects(k)'
  BY <1>1, <1>5, <1>12 DEF Rejects, At, Arg
<1>13. ~Rejects(t)'
  BY <1>5, <1>11 DEF Rejects, At
<1>14. todo'[Timer] # <<>>
  BY <1>5
<1>15. None \notin Threads /\ Server \in Threads
  BY EnginesAssumption DEF Threads
<1>16. Pending'
  BY <1>1, <1>8, <1>12, <1>13, <1>14, <1>15, PollerThreads DEF Pending
<1>17. Verdicts'
  BY DEF Verdicts
<1> QED
  BY <1>7, <1>9, <1>10, <1>16, <1>17 DEF IInv, Kept

(***************************************************************************)
(* The destructor has the mutex.                                           *)
(***************************************************************************)
LEMMA LeavingHolds ==
  ASSUME Planned, Leaving
  PROVE  mutex = Client
<1>1. Client \in Threads
  BY DEF Threads
<1> QED
  BY <1>1, NotFree DEF Planned

(***************************************************************************)
(* While an engine's thread has the mutex no stop is pending, and verdicts *)
(* are kept only while it stops the other engine after a rejection.        *)
(***************************************************************************)
LEMMA HeldPoller ==
  ASSUME IInv, NEW t \in Pollers, mutex = t
  PROVE  /\ ~Leaving /\ pending_stop = FALSE
         /\ detection_state # {} => t \in Engines /\ Rejecting(t) /\ State({"BUFFERING"})
<1>1. ~Leaving
  BY LeavingHolds, PollerThreads DEF IInv, Kept
<1>2. t # None
  BY PollerThreads, EnginesAssumption
<1> QED
  BY <1>1, <1>2 DEF IInv, Kept, Types, Pending, Verdicts

(***************************************************************************)
(* An engine's thread with the mutex that has stopped the others, or is    *)
(* about to give the mutex up.                                             *)
(***************************************************************************)
LEMMA HeldShapes ==
  ASSUME NEW t \in Pollers, Runs(t), NEW n, n = Head(todo[t])[1]
  PROVE  /\ n = "rejected" => /\ t \in Engines /\ State({"BUFFERING"})
                              /\ \E e \in Outcome(t) : todo[t] = <<<<"rejected">>, e>>
         /\ n = "unlock" => \E e \in Outcome(t) : todo[t] = <<<<"unlock">>, e>>
         /\ n = "unlock" /\ t \in Engines => ~Rejecting(t)
<1>1. t # Timer
  BY PollerThreads
<1>2. ASSUME NEW S, NEW first, NEW e, todo[t] \in After(S, <<first, e>>)
      PROVE  (todo[t] = <<first, e>> /\ n = first[1]) \/ \E s \in S : n = s[1]
  <2>1. <<first, e>> \in Seq({first, e}) /\ <<first, e>> # <<>> /\ Head(<<first, e>>) = first
    OBVIOUS
  <2> QED
    BY <1>2, <2>1, AfterHeads
<1>3. CASE t = Gsl
  <2>1. PICK e \in Outcomes("answer") :
            todo[t] \in After({"engage"} \X config.second, <<<<"unlock">>, e>>)
    BY <1>1, <1>3 DEF Runs, GslRuns
  <2>2. (todo[t] = <<<<"unlock">>, e>> /\ n = "unlock") \/ n = "engage"
    BY <1>2, <2>1
  <2> QED
    BY <1>3, <2>2, PollerThreads DEF Outcome
<1>4. CASE t \in Engines /\ t # Gsl
  <2>1. Outcome(t) = Outcomes("done")
    BY <1>4 DEF Outcome
  <2>2. ASSUME Rejecting(t)
        PROVE  n # "unlock" /\ (n = "rejected"
                 => \E e \in Outcome(t) : todo[t] = <<<<"rejected">>, e>>)
    <3>1. PICK e \in Outcomes("done") : todo[t] \in After(Deciding, <<<<"rejected">>, e>>)
      BY <2>2 DEF Rejecting
    <3>2. (todo[t] = <<<<"rejected">>, e>> /\ n = "rejected") \/ n \in {"quit", "await"}
      BY <1>2, <3>1 DEF Deciding
    <3> QED
      BY <2>1, <3>2
  <2>3. ASSUME Renews(t)
        PROVE  n # "rejected" /\ (n = "unlock"
                 => \E e \in Outcome(t) : todo[t] = <<<<"unlock">>, e>>)
    <3>1. PICK e \in Outcomes("done") : todo[t] \in After(Renewing, <<<<"unlock">>, e>>)
      BY <2>3 DEF Renews
    <3>2. \A s \in Renewing : s[1] # "rejected" /\ s[1] # "unlock"
      BY DEF Renewing, Deciding
    <3>3. (todo[t] = <<<<"unlock">>, e>> /\ n = "unlock") \/ n \notin {"rejected", "unlock"}
      BY <1>2, <3>1, <3>2
    <3> QED
      BY <2>1, <3>3
  <2> QED
    BY <1>1, <1>4, <2>2, <2>3 DEF Runs
<1> QED
  BY <1>3, <1>4 DEF Pollers

(***************************************************************************)
(* An engine that polls: with what, and what it has left.                  *)
(***************************************************************************)
LEMMA Polling ==
  ASSUME IInv, NEW t \in Pollers, At(t, "poll")
  PROVE  /\ todo[t] \in Free(t) /\ todo[t] # <<>> /\ Arg(t) \in Asks(t)
         /\ Last(todo[t]) \in Outcome(t) /\ Tail(todo[t]) = <<Last(todo[t])>>
         /\ Tail(todo[t]) \in Free(t)
<1>1. t \in Threads
  BY PollerThreads
<1>2. todo[t] \in Free(t) /\ todo[t] # <<>> /\ Head(todo[t])[1] = "poll"
  BY <1>1, WhoseTurn DEF At, FreeNames, IInv, Kept
<1>3. PICK e \in Outcome(t) : \E w \in Asks(t) : todo[t] = <<<<"poll", w>>, e>>
  BY <1>2, PollerShapes
<1>4. PICK w \in Asks(t) : todo[t] = <<<<"poll", w>>, e>>
  BY <1>3
<1>5. Arg(t) = w /\ Tail(todo[t]) = <<e>>
  BY <1>4 DEF Arg
<1>6. Last(todo[t]) = e
  BY <1>4 DEF Last
<1> QED
  BY <1>2, <1>5, <1>6, FreeLists

(***************************************************************************)
(* An engine that is done does not reject.                                 *)
(***************************************************************************)
LEMMA NotRejects ==
  ASSUME NEW t, NEW e \in Outcome(t), todo'[t] = <<e>>
  PROVE  ~Rejects(t)' /\ todo'[t] # <<>>
<1>1. Head(todo'[t])[1] \in {"answer", "done"} /\ todo'[t] # <<>>
  BY OutcomeOf
<1> QED
  BY <1>1 DEF Rejects, At

(***************************************************************************)
(* A detection that no state can use is given up.                          *)
(***************************************************************************)
LEMMA IgnoredKeeps ==
  ASSUME IInv, UNCHANGED config, NEW t \in Pollers, Ignored(t)
  PROVE  IInv'
<1>1. At(t, "poll") /\ Fail(t) /\ UNCHANGED stream
  BY DEF Ignored
<1>2. todo[t] \in Free(t) /\ todo[t] # <<>> /\ Last(todo[t]) \in Outcome(t)
  BY <1>1, Polling
<1> DEFINE f == [Last(todo[t]) EXCEPT ![2] = FALSE]
<1>3. t \in Threads /\ t # Timer
  BY PollerThreads
<1>4. Frame(t) /\ todo'[t] = <<f>>
  BY <1>1, <1>3, GoesFrame DEF Fail, IInv, Kept, Types
<1>5. f \in Outcome(t)
  BY <1>2, OutcomeOf
<1> HIDE DEF f
<1>6. todo'[t] \in Free(t) /\ ~Rejects(t)'
  BY <1>4, <1>5, FreeLists, NotRejects
<1>7. DOMAIN todo' = Threads /\ \A u \in Threads \ {t} : todo'[u] = todo[u]
  BY <1>1, <1>3 DEF Fail, Goes, IInv, Kept, Types
<1>8. UNCHANGED <<cur_state, currentState, rejection_notified, timer, mutex, detection_state>>
  BY <1>1 DEF stream, states, verdicts, locks
<1> QED
  BY <1>2, <1>3, <1>6, <1>7, <1>8, FreeStep

(***************************************************************************)
(* The client's callback returns, and the rest of notifyClient() changes   *)
(* no state.                                                               *)
(***************************************************************************)
LEMMA CallbackKeeps ==
  ASSUME IInv, UNCHANGED config, NEW t \in Pollers, Callback(t) \/ Relock(t)
  PROVE  IInv'
<1>1. (At(t, "callback") \/ At(t, "relock")) /\ Then(t, <<>>) /\ UNCHANGED stream
  BY DEF Callback, Relock
<1>2. t \in Threads /\ t # Timer
  BY PollerThreads
<1> DEFINE n == Head(todo[t])[1]
<1>3. todo[t] # <<>> /\ n \in {"callback", "relock"} /\ todo[t] \in Free(t)
  BY <1>1, <1>2, WhoseTurn DEF At, FreeNames, IInv, Kept
<1>4. PICK e \in Outcome(t) : \E w \in {"detected", "rejected"} :
         \/ todo[t] = <<<<"callback", w>>, <<"relock", w>>, e>>
         \/ todo[t] = <<<<"relock", w>>, e>>
  BY <1>3, PollerShapes
<1>5. PICK w \in {"detected", "rejected"} :
         \/ todo[t] = <<<<"callback", w>>, <<"relock", w>>, e>>
         \/ todo[t] = <<<<"relock", w>>, e>>
  BY <1>4
<1> DEFINE r == <<<<"relock", w>>, e>>
<1>6. Tail(todo[t]) = r \/ Tail(todo[t]) = <<e>>
  <2>1. Tail(<<<<"callback", w>>, <<"relock", w>>, e>>) = r /\ Tail(r) = <<e>>
    OBVIOUS
  <2> QED
    BY <1>5, <2>1, Zenon
<1>7. r \in Seq({<<"relock", w>>, e}) /\ Head(r)[1] = "relock" /\ r # <<>>
  OBVIOUS
<1>8. <<e>> \in Seq({e})
  OBVIOUS
<1>9. r \in Free(t) /\ <<e>> \in Free(t)
  BY FreeLists
<1> HIDE DEF r
<1>10. todo'[t] = Tail(todo[t])
  <2>1. DOMAIN todo = Threads
    BY DEF IInv, Kept, Types
  <2> QED
    BY <1>1, <1>2, <1>6, <1>7, <1>8, <2>1, ThenTail
<1>11. todo'[t] \in Free(t)
  BY <1>6, <1>9, <1>10
<1>12. ~Rejects(t)'
  <2>1. CASE todo'[t] = r
    BY <1>7, <2>1 DEF Rejects, At
  <2>2. CASE todo'[t] = <<e>>
    BY <2>2, NotRejects
  <2> QED
    BY <1>6, <1>10, <2>1, <2>2
<1>13. DOMAIN todo' = Threads /\ \A u \in Threads \ {t} : todo'[u] = todo[u]
  BY <1>1, <1>2 DEF Then, Goes, IInv, Kept, Types
<1>14. UNCHANGED <<cur_state, currentState, rejection_notified, timer, mutex, detection_state>>
  BY <1>1 DEF stream, states, verdicts, locks
<1> QED
  BY <1>2, <1>3, <1>11, <1>12, <1>13, <1>14, FreeStep

(***************************************************************************)
(* The last section that an engine's thread starts with,                   *)
(***************************************************************************)
LEMMA OutcomeIs ==
  ASSUME NEW name, NEW b \in BOOLEAN
  PROVE  <<name, b>> \in Outcomes(name)
BY DEF Outcomes

(***************************************************************************)
(* that of the first stage and those of the second,                        *)
(***************************************************************************)
LEMMA Succeeds ==
  ASSUME NEW t
  PROVE  /\ t = Gsl => <<"answer", TRUE>> \in Outcome(t)
         /\ t # Gsl => <<"done", TRUE>> \in Outcome(t)
BY OutcomeIs DEF Outcome

(***************************************************************************)
(* and the list of a thread that has something to tell.                    *)
(***************************************************************************)
LEMMA TellIs ==
  ASSUME NEW t \in Pollers, NEW w \in Asks(t), Tell(t, w)
  PROVE  \E q \in Free(t) : Goes(t, q) /\ Head(q) = <<"poll", w>>
<1> DEFINE e == <<IF t = Gsl THEN "answer" ELSE "done", TRUE>>
           q == <<<<"poll", w>>, e>>
<1>1. e \in Outcome(t)
  BY Succeeds
<1>2. Goes(t, q) /\ Head(q) = <<"poll", w>>
  BY DEF Tell
<1> HIDE DEF e
<1>3. q \in Free(t)
  BY <1>1, FreeLists
<1> QED
  BY <1>2, <1>3

(***************************************************************************)
(* The first stage's own steps.                                            *)
(***************************************************************************)
LEMMA FirstStageKeeps ==
  ASSUME IInv, UNCHANGED config, FirstStage, UNCHANGED stream
  PROVE  IInv'
<1>1. Gsl \in Threads /\ Gsl \in Pollers /\ Gsl \notin Engines /\ Gsl # Timer
  BY PollerThreads
<1> DEFINE n == Head(todo[Gsl])[1]
<1>2. /\ todo[Gsl] # <<>> /\ n \in {"woken", "buffer", "drain", "answer"}
      /\ \E q \in Free(Gsl) : Goes(Gsl, q)
           /\ (q # <<>> => Head(q)[1] \in {"poll", "buffer", "drain"})
                              /\ (q # <<>> /\ Head(q)[1] = "poll" => Head(q)[2] = "gmm")
  <2>1. PICK e \in Outcome(Gsl) : TRUE
    <3>1. <<"answer", TRUE>> \in Outcome(Gsl)
      BY Succeeds
    <3> QED
      BY <3>1
  <2>2. <<>> \in Free(Gsl) /\ <<<<"buffer">>>> \in Free(Gsl) /\ <<<<"drain">>>> \in Free(Gsl)
    BY <1>1, FreeLists
  <2> DEFINE Goal == \E q \in Free(Gsl) : Goes(Gsl, q)
               /\ (q # <<>> => Head(q)[1] \in {"poll", "buffer", "drain"})
                              /\ (q # <<>> /\ Head(q)[1] = "poll" => Head(q)[2] = "gmm")
  <2>3. Goes(Gsl, <<>>) => Goal
    BY <2>2
  <2>4. Goes(Gsl, <<<<"buffer">>>>) => Goal
    BY <2>2
  <2>5. Goes(Gsl, <<<<"drain">>>>) => Goal
    BY <2>2
  <2>6. "gmm" \in Asks(Gsl)
    BY DEF Asks
  <2>7. Tell(Gsl, "gmm") => Goal
    <3> SUFFICES ASSUME Tell(Gsl, "gmm") PROVE Goal
      OBVIOUS
    <3>1. PICK q \in Free(Gsl) : Goes(Gsl, q) /\ Head(q) = <<"poll", "gmm">>
      BY <1>1, <2>6, TellIs
    <3> QED
      BY <3>1
  <2> HIDE DEF Goal
  <2>8. CASE Skip \/ StopBuffering \/ Refused
    <3>1. Goal
      BY <2>3, <2>8 DEF Skip, StopBuffering, Refused, Ends
    <3>2. todo[Gsl] # <<>> /\ n \in {"woken", "buffer", "drain", "answer"}
      BY <2>8 DEF Skip, StopBuffering, Refused, At
    <3> QED
      BY <3>1, <3>2 DEF Goal
  <2>9. CASE NoBuffering \/ Buffered
    BY <2>7, <2>9 DEF NoBuffering, Buffered, At, Goal
  <2>10. CASE StartBuffering
    BY <2>4, <2>10 DEF StartBuffering, At, Goal
  <2>11. CASE Answered
    BY <2>3, <2>5, <2>11 DEF Answered, Ends, At, Goal
  <2> QED
    BY <2>8, <2>9, <2>10, <2>11 DEF FirstStage
<1>3. PICK q \in Free(Gsl) : Goes(Gsl, q)
          /\ (q # <<>> => Head(q)[1] \in {"poll", "buffer", "drain"})
                             /\ (q # <<>> /\ Head(q)[1] = "poll" => Head(q)[2] = "gmm")
  BY <1>2
<1>4. todo[Gsl] \in Free(Gsl)
  BY <1>1, <1>2, WhoseTurn DEF FreeNames, IInv, Kept
<1>5. /\ todo'[Gsl] = q /\ DOMAIN todo' = Threads
      /\ \A u \in Threads \ {Gsl} : todo'[u] = todo[u]
  BY <1>1, <1>3 DEF Goes, IInv, Kept, Types
<1>6. ~Rejects(Gsl)'
  BY <1>3, <1>5 DEF Rejects, At, Arg
<1>7. UNCHANGED <<cur_state, currentState, rejection_notified, timer, mutex, detection_state>>
  BY DEF stream, states, verdicts, locks
<1> QED
  BY <1>1, <1>4, <1>5, <1>6, <1>7, FreeStep

(***************************************************************************)
(* A detection of the DSP wakes the first stage's thread.                  *)
(***************************************************************************)
LEMMA DetectKeeps ==
  ASSUME IInv, UNCHANGED config, Detect, UNCHANGED stream
  PROVE  IInv'
<1>1. Gsl \in Threads /\ Gsl \in Pollers /\ Gsl \notin Engines /\ Gsl # Timer
  BY PollerThreads
<1>2. UNCHANGED <<cur_state, currentState, rejection_notified, timer, mutex, detection_state>>
  BY DEF stream, states, verdicts, locks
<1>3. /\ todo'[Gsl] = IF todo[Gsl] = <<>> THEN <<<<"woken">>>> ELSE todo[Gsl]
      /\ DOMAIN todo' = Threads /\ \A u \in Threads \ {Gsl} : todo'[u] = todo[u]
  BY <1>1 DEF Detect, IInv, Kept, Types
<1>4. CASE todo[Gsl] = <<>>
  <2>1. <<"answer", TRUE>> \in Outcome(Gsl)
    BY Succeeds
  <2>2. todo'[Gsl] = <<<<"woken">>>> /\ <<<<"woken">>>> \in Free(Gsl) /\ <<>> \in Free(Gsl)
    BY <1>1, <1>3, <1>4, <2>1, FreeLists
  <2>3. ~Rejects(Gsl)'
    BY <2>2 DEF Rejects, At
  <2> QED
    BY <1>1, <1>2, <1>3, <1>4, <2>2, <2>3, FreeStep
<1>5. CASE todo[Gsl] # <<>>
  <2>1. \A u \in Threads : todo'[u] = todo[u]
    BY <1>3, <1>5
  <2>2. CASE todo[Gsl] \in Free(Gsl)
    <3>1. Rejects(Gsl)' => Rejects(Gsl)
      BY <1>1, <2>1 DEF Rejects, At, Arg
    <3> QED
      BY <1>1, <1>2, <1>3, <2>1, <2>2, <3>1, FreeStep
  <2>3. CASE mutex = Gsl /\ Runs(Gsl)
    <3>1. pending_stop = FALSE /\ detection_state = {}
      BY <1>1, <2>3, HeldPoller
    <3>2. Runs(Gsl)'
      BY <1>1, <1>2, <2>1, <2>3, RunsKept DEF timer
    <3>3. currentState \in CallStates /\ Engines \subseteq Threads
      BY PollerThreads DEF IInv, Kept, Types
    <3> QED
      BY <1>1, <1>2, <1>3, <2>1, <2>3, <3>1, <3>2, <3>3, CalmStep DEF timer
  <2> QED
    BY <1>1, <2>2, <2>3 DEF IInv, Kept, Planned
<1> QED
  BY <1>4, <1>5

(***************************************************************************)
(* A second stage engine's own steps: it looks at the sound and decides.   *)
(***************************************************************************)
LEMMA SecondStageKeeps ==
  ASSUME IInv, UNCHANGED config, NEW k \in Engines, SecondStage(k), UNCHANGED stream
  PROVE  IInv'
<1>1. k \in Threads /\ k \in Pollers /\ k # Gsl /\ k # Timer
  BY PollerThreads
<1>2. UNCHANGED <<cur_state, currentState, rejection_notified, timer, mutex, detection_state>>
  BY DEF stream, states, verdicts, locks
<1>3. /\ todo[k] # <<>> /\ Head(todo[k])[1] \in {"run", "done"}
      /\ Head(todo[k])[1] = "run" => Rejects(k)
  BY DEF SecondStage, Judge, Interrupted, Judged, At, Rejects
<1>4. todo[k] \in Free(k)
  BY <1>1, <1>3, WhoseTurn DEF FreeNames, IInv, Kept
<1>5. ASSUME NEW q \in Free(k), Goes(k, q), q = <<>> \/ Rejects(k) PROVE IInv'
  <2>1. todo'[k] = q /\ DOMAIN todo' = Threads /\ \A u \in Threads \ {k} : todo'[u] = todo[u]
    BY <1>1, <1>5 DEF Goes, IInv, Kept, Types
  <2>2. Rejects(k)' => Rejects(k)
    BY <1>5, <2>1 DEF Rejects, At
  <2> QED
    BY <1>1, <1>2, <1>3, <1>4, <2>1, <2>2, FreeStep
<1>6. ASSUME NEW verdict \in {"success", "reject"}, Judge(k, verdict) PROVE IInv'
  <2>1. Tell(k, verdict) /\ Rejects(k)
    BY <1>6 DEF Judge, Rejects
  <2>2. verdict \in Asks(k)
    BY <1>1 DEF Asks
  <2>3. PICK q \in Free(k) : Goes(k, q) /\ Head(q) = <<"poll", verdict>>
    BY <1>1, <2>1, <2>2, TellIs
  <2> QED
    BY <1>5, <2>1, <2>3
<1>7. ASSUME Interrupted(k) \/ Judged(k) PROVE IInv'
  <2>1. Goes(k, <<>>)
    BY <1>7 DEF Interrupted, Judged
  <2>2. <<"done", TRUE>> \in Outcome(k)
    BY <1>1, Succeeds
  <2>3. <<>> \in Free(k)
    BY <1>1, <2>2, FreeLists
  <2> QED
    BY <1>5, <2>1, <2>3
<1> QED
  BY <1>6, <1>7 DEF SecondStage

(***************************************************************************)
(* With the mutex free no destructor waits.                                *)
(***************************************************************************)
LEMMA NotLeaving ==
  ASSUME IInv, mutex = None
  PROVE  ~Leaving /\ Pending /\ Verdicts /\ ~Starting
<1>1. Client # None
  BY EnginesAssumption DEF Threads
<1> QED
  BY <1>1, LeavingHolds DEF IInv, Kept, Starting

(***************************************************************************)
(* An engine that may reject is one of the configuration.                  *)
(***************************************************************************)
LEMMA IdleRejectsNothing ==
  ASSUME IInv, NEW k \in Engines, Rejects(k)
  PROVE  k \in config.second
BY DEF IInv, Kept, EnginesIdle, Rejects, At

(***************************************************************************)
(* A detection without second stages: the client is told.                  *)
(***************************************************************************)
LEMMA FirstStageOnlyKeeps ==
  ASSUME IInv, UNCHANGED config, NEW t \in Pollers, FirstStageOnly(t)
  PROVE  IInv'
<1>1. At(t, "poll") /\ Arg(t) = "gmm" /\ mutex = None /\ State({"ACTIVE"}) /\ config.second = {}
  BY DEF FirstStageOnly
<1>2. Last(todo[t]) \in Outcome(t) /\ Arg(t) \in Asks(t)
  BY <1>1, Polling
<1>3. t \notin Engines
  BY <1>1, <1>2, PollerThreads DEF Asks
<1>4. detection_state = {}
  BY <1>1, NotLeaving DEF Verdicts, State
<1>5. detection_state' = {} /\ Notify(t, "detected")
  BY <1>4 DEF FirstStageOnly, verdicts
<1>6. State(Told)'
  BY DEF FirstStageOnly, TransitTo, State, Told
<1>7. \A k \in Engines \ {t} : ~Rejects(k)
  BY <1>1, IdleRejectsNothing
<1> QED
  BY <1>1, <1>2, <1>3, <1>5, <1>6, <1>7, NotifyStep

(***************************************************************************)
(* A detection with second stages: the mutex is taken to engage them.      *)
(***************************************************************************)
LEMMA FirstStageDetectedKeeps ==
  ASSUME IInv, UNCHANGED config, NEW t \in Pollers, FirstStageDetected(t)
  PROVE  IInv'
<1> DEFINE E == config.second
           s == [i \in 1..Cardinality(E) |-> <<"engage", SetToSeq(E)[i]>>]
           e == Last(todo[t])
           S == {"engage"} \X E
           a == <<"unlock">>
<1>1. /\ At(t, "poll") /\ Arg(t) = "gmm" /\ mutex = None /\ State({"ACTIVE"}) /\ mutex' = t
      /\ Goes(t, s \o <<a, e>>)
  BY DEF FirstStageDetected
<1>2. e \in Outcome(t) /\ Arg(t) \in Asks(t)
  BY <1>1, Polling
<1>3. t = Gsl /\ t \notin Engines /\ t \in Threads /\ t # Timer
  BY <1>1, <1>2, PollerThreads DEF Asks, Pollers
<1>4. /\ currentState' = currentState /\ detection_state' = detection_state
      /\ pending_stop' = pending_stop
  BY DEF FirstStageDetected, timer
<1>5. /\ detection_state = {} /\ pending_stop = FALSE /\ currentState \in CallStates
      /\ DOMAIN todo = Threads
  BY <1>1, NotLeaving DEF Verdicts, Pending, State, Told, IInv, Kept, Types
<1>6. s \in Seq(S)
  <2>1. IsFiniteSet(E)
    BY SecondFinite DEF IInv, Kept, Types
  <2>2. Cardinality(E) \in Nat /\ SetToSeq(E) \in [1..Cardinality(E) -> E]
    BY <2>1, ListOf
  <2>3. s \in [1..Cardinality(E) -> S]
    BY <2>2
  <2> QED
    BY <2>2, <2>3, SeqDef
<1> HIDE DEF s, S, e
<1>7. todo'[t] \in After(S, <<a, e>>)
  BY <1>1, <1>3, <1>5, <1>6 DEF Goes, After
<1>8. GslRuns'
  BY <1>2, <1>3, <1>7 DEF GslRuns, Outcome, S
<1>9. Runs(t)'
  BY <1>3, <1>8 DEF Runs
<1>10. DOMAIN todo' = Threads /\ \A u \in Threads \ {t} : todo'[u] = todo[u]
  BY <1>1, <1>3, <1>5 DEF Goes
<1>11. Engines \subseteq Threads
  BY PollerThreads
<1> QED
  BY <1>1, <1>3, <1>4, <1>5, <1>9, <1>10, <1>11, CalmStep

(***************************************************************************)
(* An engine's thread gives the mutex up.                                  *)
(***************************************************************************)
LEMMA UnlockKeeps ==
  ASSUME IInv, UNCHANGED config, NEW t \in Pollers, Unlock(t)
  PROVE  IInv'
<1>1. At(t, "unlock") /\ Then(t, <<>>) /\ mutex' = None
  BY DEF Unlock
<1>2. t \in Threads /\ Engines \subseteq Threads
  BY PollerThreads
<1>3. mutex = t /\ Runs(t)
  BY <1>1, <1>2, WhoseTurn DEF At, HeldNames, IInv, Kept
<1>4. PICK e \in Outcome(t) : todo[t] = <<<<"unlock">>, e>>
  BY <1>1, <1>3, HeldShapes DEF At
<1>5. t \in Engines => ~Rejecting(t)
  BY <1>1, <1>3, HeldShapes DEF At
<1>6. pending_stop = FALSE /\ detection_state = {}
  BY <1>3, <1>5, HeldPoller
<1>7. Tail(todo[t]) = <<e>> /\ <<e>> \in Seq({e}) /\ todo[t] # <<>>
  BY <1>4
<1>8. DOMAIN todo = Threads /\ currentState \in CallStates
  BY DEF IInv, Kept, Types
<1>9. todo'[t] = <<e>>
  BY <1>1, <1>2, <1>7, <1>8, ThenTail
<1>10. todo'[t] \in Free(t)
  BY <1>9, FreeLists
<1>11. DOMAIN todo' = Threads /\ \A u \in Threads \ {t} : todo'[u] = todo[u]
  BY <1>1, <1>2, <1>8 DEF Then, Goes
<1>12. /\ currentState' = currentState /\ detection_state' = detection_state
       /\ pending_stop' = pending_stop
  BY DEF Unlock, states, verdicts, timer
<1>13. t \in Engines => t \in config.second
  BY <1>7 DEF IInv, Kept, EnginesIdle
<1> QED
  BY <1>2, <1>3, <1>6, <1>8, <1>10, <1>11, <1>12, <1>13, CalmStep

(***************************************************************************)
(* An engine accepts: it is the last one and the client is told, or its    *)
(* verdict is kept.                                                        *)
(***************************************************************************)
LEMMA AcceptKeeps ==
  ASSUME IInv, UNCHANGED config, NEW t \in Pollers, Accept(t)
  PROVE  IInv'
<1>1. At(t, "poll") /\ Arg(t) = "success" /\ mutex = None /\ State({"BUFFERING"})
  BY DEF Accept
<1>2. /\ todo[t] \in Free(t) /\ todo[t] # <<>> /\ Arg(t) \in Asks(t)
      /\ Last(todo[t]) \in Outcome(t) /\ Tail(todo[t]) = <<Last(todo[t])>>
      /\ Tail(todo[t]) \in Free(t)
  BY <1>1, Polling
<1>3. t \in Engines /\ t \in Threads /\ t # Timer
  BY <1>1, <1>2, PollerThreads DEF Asks, Pollers
<1>4. t \in config.second
  BY <1>2, <1>3 DEF IInv, Kept, EnginesIdle
<1>5. Verdicts
  BY <1>1, NotLeaving
<1>6. CASE detection_state \cup {t} = config.second
  <2>1. Notify(t, "detected") /\ detection_state' = {} /\ State(Told)'
    BY <1>6 DEF Accept, TransitTo, State, Told
  <2>2. \A k \in Engines \ {t} : ~Rejects(k)
    <3>1. \A k \in detection_state : ~Rejects(k)
      BY <1>5 DEF Verdicts
    <3> QED
      BY <1>6, <3>1, IdleRejectsNothing
  <2> QED
    BY <1>1, <1>2, <1>4, <2>1, <2>2, NotifyStep
<1>7. CASE detection_state \cup {t} # config.second
  <2>1. /\ detection_state' = detection_state \cup {t} /\ Then(t, <<>>)
        /\ UNCHANGED <<cur_state, currentState, timer, mutex, rejection_notified>>
    BY <1>7 DEF Accept, timer
  <2>2. DOMAIN todo = Threads
    BY DEF IInv, Kept, Types
  <2> DEFINE e == Last(todo[t])
  <2>3. <<e>> \in Seq({e})
    OBVIOUS
  <2> HIDE DEF e
  <2>4. todo'[t] = <<e>>
    BY <1>2, <1>3, <2>1, <2>2, <2>3, ThenTail DEF e
  <2>5. todo'[t] \in Free(t) /\ ~Rejects(t)'
    BY <1>2, <2>4, NotRejects DEF e
  <2>6. DOMAIN todo' = Threads /\ \A u \in Threads \ {t} : todo'[u] = todo[u]
    BY <1>3, <2>1, <2>2 DEF Then, Goes
  <2> QED
    BY <1>1, <1>2, <1>3, <1>4, <2>1, <2>5, <2>6, FreeStep
<1> QED
  BY <1>6, <1>7

(***************************************************************************)
(* An engine rejects: no stop is pending then, as the engines that         *)
(* accepted do not reject, and the client is told only when all have       *)
(* accepted.                                                               *)
(***************************************************************************)
LEMMA RejectKeeps ==
  ASSUME IInv, UNCHANGED config, NEW t \in Pollers, Reject(t)
  PROVE  IInv'
<1>1. /\ At(t, "poll") /\ Arg(t) = "reject" /\ mutex = None /\ State({"BUFFERING"})
      /\ UNCHANGED <<cur_state, currentState, rejection_notified, timer, detection_state>>
  BY DEF Reject, states, verdicts
<1>2. /\ todo[t] \in Free(t) /\ todo[t] # <<>> /\ Arg(t) \in Asks(t)
      /\ Last(todo[t]) \in Outcome(t) /\ Tail(todo[t]) = <<Last(todo[t])>>
      /\ Tail(todo[t]) \in Free(t)
  BY <1>1, Polling
<1>3. t \in Engines /\ t \in Threads /\ t # Timer /\ t # Gsl /\ Engines \subseteq Threads
  BY <1>1, <1>2, PollerThreads DEF Asks, Pollers
<1>4. t \in config.second
  BY <1>2, <1>3 DEF IInv, Kept, EnginesIdle
<1>5. Rejects(t)
  BY <1>1 DEF Rejects
<1>6. Pending /\ Verdicts /\ ~Starting /\ ~Leaving
  BY <1>1, NotLeaving
<1> DEFINE e == Last(todo[t])
           r == <<<<"rejected">>, e>>
           s == Stage2(config.second \ {t}, "await")
<1>7. DOMAIN todo = Threads
  BY DEF IInv, Kept, Types
<1>8. <<e>> \in Seq({e}) /\ <<<<"rejected">>>> \o <<e>> = r
  BY Joined2
<1>9. s \in Seq(Deciding)
  BY ListsOfEngines DEF IInv, Kept, Types
<1>10. CASE rejection_notified
  <2>1. Then(t, <<>>) /\ UNCHANGED mutex
    BY <1>10 DEF Reject
  <2> HIDE DEF e
  <2>2. todo'[t] = <<e>>
    BY <1>2, <1>3, <1>7, <1>8, <2>1, ThenTail DEF e
  <2>3. todo'[t] \in Free(t) /\ ~Rejects(t)'
    BY <1>2, <2>2, NotRejects DEF e
  <2>4. DOMAIN todo' = Threads /\ \A u \in Threads \ {t} : todo'[u] = todo[u]
    BY <1>3, <1>7, <2>1 DEF Then, Goes
  <2> QED
    BY <1>1, <1>2, <1>3, <1>4, <2>1, <2>3, <2>4, FreeStep
<1>11. CASE ~rejection_notified
  <2>1. Then(t, s \o <<<<"rejected">>>>) /\ mutex' = t
    BY <1>11 DEF Reject
  <2>2. pending_stop = FALSE
    BY <1>3, <1>5, <1>6, <1>11 DEF Pending, IInv, Kept, Types
  <2> HIDE DEF e, s
  <2>3. todo'[t] \in After(Deciding, <<<<"rejected">>>> \o <<e>>)
    BY <1>2, <1>3, <1>7, <1>8, <1>9, <2>1, Pushes DEF e
  <2>4. e \in Outcomes("done")
    BY <1>2, <1>3 DEF Outcome, e
  <2>5. Rejecting(t)'
    BY <1>8, <2>3, <2>4 DEF Rejecting
  <2>6. State({"BUFFERING"})'
    BY <1>1 DEF State
  <2>7. Runs(t)'
    BY <1>3, <2>5, <2>6 DEF Runs
  <2>8. DOMAIN todo' = Threads /\ \A u \in Threads \ {t} : todo'[u] = todo[u]
    BY <1>3, <1>7, <2>1 DEF Then, Goes
  <2>9. Planned'
    BY <1>1, <1>3, <1>7, <2>1, <2>7, <2>8, PlannedByHolder DEF IInv, Kept
  <2>10. Types' /\ EnginesIdle'
    BY <1>1, <1>3, <1>4, <2>8 DEF IInv, Kept, Types, EnginesIdle, timer
  <2>11. Pending'
    BY <1>1, <2>2 DEF Pending, timer
  <2>12. Verdicts'
    <3>1. \A k \in detection_state : ~Rejects(k)
      BY <1>6 DEF Verdicts
    <3>2. detection_state \subseteq Engines
      BY SecondFinite DEF IInv, Kept, Types
    <3>3. \A k \in detection_state : ~Rejects(k)'
      BY <1>3, <1>5, <2>8, <3>1, <3>2 DEF Rejects, At, Arg
    <3> QED
      BY <1>1, <1>3, <2>1, <2>5, <2>6, <3>3 DEF Verdicts
  <2> QED
    BY <2>9, <2>10, <2>11, <2>12 DEF IInv, Kept
<1> QED
  BY <1>10, <1>11

(***************************************************************************)
(* The others are stopped: the verdicts are dropped, and recognition       *)
(* starts again or the client is told.                                     *)
(***************************************************************************)
LEMMA RejectedKeeps ==
  ASSUME IInv, UNCHANGED config, NEW t \in Pollers, Rejected(t)
  PROVE  IInv'
<1>1. At(t, "rejected") /\ detection_state' = {} /\ UNCHANGED cur_state
  BY DEF Rejected
<1>2. t \in Threads /\ Engines \subseteq Threads /\ t # Timer
  BY PollerThreads
<1>3. mutex = t /\ Runs(t)
  BY <1>1, <1>2, WhoseTurn DEF At, HeldNames, IInv, Kept
<1>4. /\ t \in Engines /\ State({"BUFFERING"})
      /\ \E e \in Outcome(t) : todo[t] = <<<<"rejected">>, e>>
  BY <1>1, <1>3, HeldShapes DEF At
<1>5. PICK e \in Outcome(t) : todo[t] = <<<<"rejected">>, e>>
  BY <1>4
<1>6. Last(todo[t]) = e
  BY <1>5 DEF Last
<1>7. Tail(todo[t]) = <<e>> /\ todo[t] # <<>> /\ t # Gsl
  BY <1>4, <1>5, PollerThreads
<1>8. t \in config.second
  BY <1>4, <1>7 DEF IInv, Kept, EnginesIdle
<1>9. CASE config.notify
  <2>1. Notify(t, "rejected") /\ rejection_notified'
    BY <1>9 DEF Rejected
  <2>2. State(Told)'
    BY <1>1, <1>4 DEF State, Told
  <2> QED
    BY <1>1, <1>3, <1>6, <1>8, <2>1, <2>2, NotifyStep
<1>10. CASE ~config.notify
  <2> DEFINE a == <<"restarted">>
             b == <<"unwake">>
             c == <<"unlock">>
             q == RestartEngines
             f == q \o <<a, b>>
             U == Renewing \cup {c, e}
  <2>1. Then(t, q \o <<a, b, c>>) /\ UNCHANGED <<currentState, pending_stop, mutex>>
    BY <1>10 DEF Rejected, timer
  <2>2. q \in Seq(Renewing)
    BY ListsOfEngines DEF IInv, Kept, Types
  <2>3. <<a, b>> \in Seq(Renewing)
    BY DEF Renewing
  <2>4. f \in Seq(Renewing)
    BY <2>2, <2>3, ConcatProperties
  <2>5. /\ <<a, b>> \in Seq(U) /\ <<c>> \in Seq(U) /\ <<e>> \in Seq(U) /\ q \in Seq(U)
        /\ f \in Seq(U)
    <3>1. Renewing \subseteq U
      OBVIOUS
    <3>2. <<c>> \in Seq(U) /\ <<e>> \in Seq(U)
      OBVIOUS
    <3> HIDE DEF U, f, q
    <3> QED
      BY <2>2, <2>3, <2>4, <3>1, <3>2, SeqMonotonic
  <2>6. <<a, b>> \o <<c>> = <<a, b, c>>
    <3> HIDE DEF a, b, c
    <3>1. /\ <<a>> \o <<b>> = <<a, b>> /\ <<b>> \o <<c>> = <<b, c>>
          /\ <<a>> \o <<b, c>> = <<a, b, c>>
      BY Joined2, Joined3
    <3>2. <<a>> \in Seq({a, b, c}) /\ <<b>> \in Seq({a, b, c}) /\ <<c>> \in Seq({a, b, c})
      OBVIOUS
    <3>3. (<<a>> \o <<b>>) \o <<c>> = <<a>> \o (<<b>> \o <<c>>)
      BY <3>2, ConcatAssociative
    <3> QED
      BY <3>1, <3>3
  <2> HIDE DEF U, q, a, b, c
  <2>7. (q \o <<a, b>>) \o <<c>> = q \o (<<a, b>> \o <<c>>)
    BY <2>5, ConcatAssociative
  <2>8. q \o <<a, b, c>> = f \o <<c>>
    BY <2>6, <2>7
  <2> HIDE DEF f
  <2>9. <<c>> \o <<e>> = <<c, e>> /\ <<e>> \in Seq({e})
    BY Joined2
  <2>10. Then(t, f \o <<c>>)
    BY <2>1, <2>8
  <2>11. DOMAIN todo = Threads /\ currentState \in CallStates
    BY DEF IInv, Kept, Types
  <2>12. todo'[t] \in After(Renewing, <<c>> \o <<e>>)
    BY <1>2, <1>7, <2>4, <2>9, <2>10, <2>11, Pushes
  <2>13. Renews(t)'
    BY <1>7, <2>9, <2>12 DEF Renews, Outcome, c
  <2>14. Runs(t)'
    BY <1>2, <1>4, <1>7, <2>13 DEF Runs
  <2>15. DOMAIN todo' = Threads /\ \A u \in Threads \ {t} : todo'[u] = todo[u]
    BY <1>2, <2>1, <2>11 DEF Then, Goes
  <2>16. pending_stop = FALSE
    BY <1>3, HeldPoller
  <2> QED
    BY <1>1, <1>2, <1>3, <1>8, <2>1, <2>11, <2>14, <2>15, <2>16, CalmStep
<1> QED
  BY <1>9, <1>10

(***************************************************************************)
(* In the states that a pending stop leaves the stream in, every event     *)
(* cancels it, but a resume, the first half of a restart of the DSP, and   *)
(* the second half of a change of profile.                                 *)
(***************************************************************************)
LEMMA InTold ==
  ASSUME NEW t, HandlesEvent(t), State(Told)
  PROVE  \/ (Halt(t) \/ Restart(t)) /\ pending_stop' = FALSE
         \/ Resume(t) /\ Arg(t) = "resume"
         \/ Offline(t) /\ Arg(t) = "offline"
         \/ Nothing(t) /\ Arg(t) = "concurrentEnd"
<1>1. ~State({"ACTIVE"}) /\ ~State({"IDLE"}) /\ ~State({"LOADED"}) /\ ~State({"SSR"})
  BY DEF State, Told
<1>2. Halt(t) => pending_stop' = FALSE
  BY <1>1 DEF Halt, CancelDelayedStop
<1>3. Restart(t) => pending_stop' = FALSE
  BY DEF Restart, CancelDelayedStop
<1>4. ~StartLater(t) /\ ~Start(t) /\ ~Load(t) /\ ~Configure(t) /\ ~Reconfigure(t) /\ ~Reload(t)
  BY <1>1 DEF StartLater, Start, Load, Configure, Reconfigure, Reload
<1>5. ~Unload(t) /\ ~Pause(t) /\ ~Disconnect(t) /\ ~Connect(t)
  BY DEF Unload, Pause, Disconnect, Connect, State, Told
<1>6. ~Online(t) /\ ~CallOffline(t)
  BY <1>1 DEF Online, CallOffline
<1>7. Nothing(t) => Arg(t) = "concurrentEnd"
  BY DEF Nothing, Handles, State, Told
<1>8. (Resume(t) => Arg(t) = "resume") /\ (Offline(t) => Arg(t) = "offline")
  BY DEF Resume, Offline, Handles
<1> QED
  BY <1>2, <1>3, <1>4, <1>5, <1>6, <1>7, <1>8 DEF HandlesEvent

(***************************************************************************)
(* A step that works begins with a section with the mutex.                 *)
(***************************************************************************)
LEMMA WorkNames ==
  ASSUME NEW t, Works(t)
  PROVE  /\ todo[t] # <<>> /\ Head(todo[t])[1] \in Names \cup {"engage"}
         /\ Head(todo[t])[1] \in HeldNames \cup {"engage"}
         /\ Head(todo[t])[1] \notin {"leave", "joinTimer", "unlock", "rejected"}
<1>1. todo[t] # <<>> /\ Head(todo[t])[1] \in Names \cup {"engage"}
  BY SectionDone
<1>2. {"leave", "joinTimer", "unlock", "rejected"} \cap (Names \cup {"engage"}) = {}
  BY DEF Names, Plain
<1> QED
  BY <1>1, <1>2 DEF HeldNames

(***************************************************************************)
(* Whatever the client is about to do when it works cancels the stop;      *)
(***************************************************************************)
LEMMA ClientCancels ==
  ASSUME Works(Client), State(Told), Starting \/ ClientReady
  PROVE  pending_stop' = FALSE
<1>1. ~(\E l \in Leaves({"config", "stop", "stopBuffering"}) : todo[Client] = <<l>>)
  BY LeafLists, WorkNames
<1>2. \E l : \E op \in {"load", "config", "stop", "unload", "start"} :
        todo[Client] = <<<<"handle", op>>, l>>
  <2>1. CASE Starting
    BY <2>1, Zenon DEF Starting
  <2>2. CASE ClientReady
    <3>1. PICK l \in Leaves(ClientOps) : \E op \in {"load", "config", "stop", "unload"} :
              todo[Client] = <<<<"handle", op>>, l>>
      BY <1>1, <2>2 DEF ClientReady
    <3> QED
      BY <3>1
  <2> QED
    BY <2>1, <2>2
<1>3. PICK l, op : op \in {"load", "config", "stop", "unload", "start"}
          /\ todo[Client] = <<<<"handle", op>>, l>>
  BY <1>2
<1>4. Head(todo[Client])[1] = "handle" /\ Arg(Client) = op
  BY <1>3 DEF Arg
<1>5. HandlesEvent(Client)
  BY <1>4, SectionDone
<1> QED
  BY <1>3, <1>4, <1>5, InTold

(***************************************************************************)
(* ResourceManager's requests cancel it too, or go on to something that    *)
(* does or to their end.                                                   *)
(***************************************************************************)
LEMMA ServerCancels ==
  ASSUME DOMAIN todo = Threads, Works(Server), State(Told), ServerReady, pending_stop' # FALSE
  PROVE  ServerReady' /\ cur_state' = cur_state
<1>1. PICK l \in Leaves(ServerOps) :
     \/ todo[Server] = <<l>>
     \/ todo[Server] = <<<<"handle", "stop">>, <<"handle", "unload">>, <<"offline">>, l>>
     \/ \E e \in {"pause", "resume", "offline", "online"} :
          todo[Server] = <<<<"handle", e>>, l>>
     \/ todo[Server] = <<<<"handle", "concurrent">>, <<"handle", "concurrentEnd">>, l>>
     \/ todo[Server] = <<<<"handle", "disconnect">>, <<"handle", "connect">>, l>>
  BY DEF ServerReady
<1>2. l[1] = "leave" /\ <<l>> \in Seq({l}) /\ Head(<<l>>) = l /\ Server \in Threads
  BY LeafLists DEF Threads
<1>3. ~State({"LOADED"}) /\ State(Running) /\ ~State({"IDLE"})
  BY DEF State, Told, Running
<1>4. todo[Server] # <<l>>
  BY <1>2, WorkNames
<1>5. ASSUME Head(todo[Server])[1] = "handle",
             Arg(Server) \notin {"resume", "offline", "concurrentEnd"}
      PROVE  FALSE
  BY <1>5, SectionDone, InTold
<1>6. CASE todo[Server] = <<<<"handle", "stop">>, <<"handle", "unload">>, <<"offline">>, l>>
  BY <1>5, <1>6 DEF Arg
<1>7. CASE todo[Server] = <<<<"handle", "concurrent">>, <<"handle", "concurrentEnd">>, l>>
  BY <1>5, <1>7 DEF Arg
<1>8. CASE todo[Server] = <<<<"handle", "disconnect">>, <<"handle", "connect">>, l>>
  BY <1>5, <1>8 DEF Arg
<1>9. ASSUME NEW e \in {"pause", "resume", "offline", "online"},
             todo[Server] = <<<<"handle", e>>, l>>
      PROVE  ServerReady' /\ cur_state' = cur_state
  <2>1. Head(todo[Server])[1] = "handle" /\ Arg(Server) = e /\ Tail(todo[Server]) = <<l>>
    BY <1>9 DEF Arg
  <2>2. \/ Resume(Server) /\ e = "resume"
        \/ Offline(Server) /\ e = "offline"
    BY <2>1, SectionDone, InTold
  <2>3. CASE Resume(Server)
    <3>1. Then(Server, <<>>) /\ cur_state' = cur_state
      BY <1>3, <2>3 DEF Resume
    <3>2. todo'[Server] = <<l>>
      BY <1>2, <2>1, <3>1, ThenTail
    <3> QED
      BY <3>1, <3>2 DEF ServerReady
  <2>4. CASE Offline(Server)
    <3> DEFINE a == <<"handle", "stop">>
               b == <<"handle", "unload">>
               c == <<"offline">>
    <3>1. Then(Server, <<a>> \o <<b>> \o <<c>>) /\ cur_state' = cur_state
      BY <1>3, <2>4 DEF Offline, states
    <3>2. todo'[Server] = <<a, b, c, l>>
      <4> DEFINE T == {a, b, c, l}
      <4>1. <<a>> \in Seq(T) /\ <<b>> \in Seq(T) /\ <<c>> \in Seq(T) /\ <<l>> \in Seq(T)
        OBVIOUS
      <4> HIDE DEF a, b, c, T
      <4>2. /\ <<a>> \o <<b>> = <<a, b>> /\ <<c>> \o <<l>> = <<c, l>>
            /\ <<b>> \o <<c, l>> = <<b, c, l>> /\ <<a>> \o <<b, c, l>> = <<a, b, c, l>>
        BY Joined2, Joined3, Joined4
      <4>3. <<a, b>> \in Seq(T) /\ <<c, l>> \in Seq(T)
        BY <4>1, <4>2, ConcatProperties
      <4>4. (<<a, b>> \o <<c>>) \o <<l>> = <<a, b>> \o <<c, l>>
        BY <4>1, <4>2, <4>3, ConcatAssociative
      <4>5. (<<a>> \o <<b>>) \o <<c, l>> = <<a>> \o (<<b>> \o <<c, l>>)
        BY <4>1, <4>3, ConcatAssociative
      <4>6. (<<a, b>> \o <<c>>) \o <<l>> = <<a, b, c, l>>
        BY <4>2, <4>4, <4>5
      <4> QED
        BY <1>2, <2>1, <3>1, <4>2, <4>6 DEF Then, Goes
    <3> QED
      BY <3>1, <3>2 DEF ServerReady
  <2> QED
    BY <2>2, <2>3, <2>4
<1> QED
  BY <1>1, <1>4, <1>6, <1>7, <1>8, <1>9

(***************************************************************************)
(* Calls on engines and handlers of events.                                *)
(***************************************************************************)
LEMMA WorksKeeps ==
  ASSUME IInv, UNCHANGED config, NEW t \in Threads, Works(t)
  PROVE  IInv'
<1> DEFINE n == Head(todo[t])[1]
<1>1. /\ DOMAIN todo = Threads /\ config \in Configs /\ currentState \in CallStates
      /\ pending_stop \in BOOLEAN
      /\ Planned /\ EnginesIdle /\ detection_state \subseteq config.second
  BY DEF IInv, Kept, Types
<1>2. mutex = t /\ Runs(t) /\ todo[t] # <<>>
  BY <1>1, WorkNames, WhoseTurn
<1>3. ~Leaving
  <2>1. ASSUME Leaving PROVE FALSE
    <3>1. t = Client
      BY <1>1, <1>2, <2>1, LeavingHolds
    <3>2. n = "joinTimer"
      BY <2>1, <3>1 DEF Leaving
    <3> QED
      BY <3>2, WorkNames
  <2> QED
    BY <2>1
<1>4. Pending /\ Verdicts
  BY <1>3 DEF IInv
<1>5. pending_stop => State(Told)
  BY <1>4 DEF Pending
<1>6. /\ Planned' /\ mutex' = t
      /\ t # Gsl => Frame(t)
      /\ t = Gsl => UNCHANGED stream /\ \A u \in Threads \ {Gsl} :
              \/ todo'[u] = todo[u]
              \/ u \in config.second /\ todo[u] = <<>> /\ todo'[u] = <<<<"run">>>>
  BY <1>1, <1>5, WorksPlanned
<1>7. /\ UNCHANGED <<currentState, detection_state, rejection_notified, mutex>>
      /\ UNCHANGED timer \/ pending_stop' = FALSE
  BY WorksKeep
<1>8. DOMAIN todo' = Threads
  <2>1. CASE t = Gsl
    <3>1. GslRuns
      BY <1>2, <2>1, PollerThreads DEF Runs
    <3> QED
      BY <1>1, <2>1, <3>1, GslGoesOn
  <2>2. CASE t # Gsl
    BY <1>6, <2>2 DEF Frame
  <2> QED
    BY <2>1, <2>2
<1>9. t \in Engines => t \in config.second
  BY <1>1, <1>2 DEF EnginesIdle
<1>10. Engines \subseteq Threads /\ t # None
  BY PollerThreads, EnginesAssumption
<1>11. CASE detection_state # {}
  <2>1. t \in Engines /\ Rejecting(t) /\ State({"BUFFERING"})
          /\ \A k \in detection_state : ~Rejects(k)
    BY <1>2, <1>4, <1>10, <1>11 DEF Verdicts
  <2>2. t \in Pollers
    BY <2>1, PollerThreads
  <2>3. pending_stop = FALSE
    BY <1>2, <2>2, HeldPoller
  <2>4. Rejecting(t)' /\ UNCHANGED stream /\ \A u \in Threads \ {t} : todo'[u] = todo[u]
    BY <1>1, <2>1, RejectingGoesOn
  <2>5. ~Rejects(t)'
    <3>1. PICK e \in Outcomes("done") : todo'[t] \in After(Deciding, <<<<"rejected">>, e>>)
      BY <2>4 DEF Rejecting
    <3> DEFINE r == <<<<"rejected">>, e>>
    <3>2. r \in Seq({<<"rejected">>, e}) /\ r # <<>> /\ Head(r)[1] = "rejected"
      OBVIOUS
    <3> HIDE DEF r
    <3>3. todo'[t] = r \/ Head(todo'[t]) \in Deciding
      BY <3>1, <3>2, AfterHeads DEF r
    <3> QED
      BY <3>2, <3>3 DEF Deciding, Rejects, At
  <2>6. detection_state \subseteq Engines
    BY <1>1, SecondFinite
  <2>7. \A k \in detection_state : ~Rejects(k)'
    BY <1>10, <2>1, <2>4, <2>5, <2>6 DEF Rejects, At, Arg
  <2>8. pending_stop' = FALSE
    BY <1>7, <2>3 DEF timer
  <2>9. State({"BUFFERING"})'
    BY <2>1, <2>4 DEF State, stream, states
  <2>10. Verdicts'
    BY <1>6, <1>7, <2>1, <2>4, <2>7, <2>9 DEF Verdicts
  <2>11. EnginesIdle'
    BY <1>1, <1>9, <1>10, <2>4 DEF EnginesIdle
  <2>12. Types'
    BY <1>1, <1>7, <1>8, <2>8 DEF Types
  <2>13. Pending'
    BY <2>8 DEF Pending
  <2> QED
    BY <1>6, <2>10, <2>11, <2>12, <2>13 DEF IInv, Kept
<1>12. CASE detection_state = {} /\ pending_stop' = FALSE
  <2>1. todo'[t] \in Free(t) \/ (mutex' = t /\ Runs(t)')
    BY <1>6 DEF Planned
  <2>2. \A u \in Threads \ {t} : todo'[u] = todo[u] \/ todo'[u] \in Free(u)
    <3>1. CASE t = Gsl
      <4>1. \A u \in Engines : <<<<"run">>>> \in Free(u)
        BY PollerThreads DEF PollerFree
      <4> QED
        BY <1>1, <1>6, <3>1, <4>1, SecondFinite
    <3>2. CASE t # Gsl
      BY <1>6, <3>2, FrameFrees
    <3> QED
      BY <3>1, <3>2
  <2>3. \A u \in Engines \ {t} : todo'[u] # <<>> => todo[u] # <<>> \/ u \in config.second
    <3>1. CASE t = Gsl
      BY <1>6, <1>10, <3>1
    <3>2. CASE t # Gsl
      BY <1>6, <1>10, <3>2, PollerThreads, ThreadsAssumption DEF Frame
    <3> QED
      BY <3>1, <3>2
  <2> QED
    BY <1>1, <1>2, <1>7, <1>8, <1>9, <1>12, <2>1, <2>2, <2>3, CalmStep
<1>13. CASE detection_state = {} /\ pending_stop' # FALSE
  <2>1. UNCHANGED timer /\ pending_stop
    BY <1>1, <1>7, <1>13 DEF timer
  <2>2. /\ State(Told) /\ ~timer_stop_waiting /\ todo[Timer] # <<>>
        /\ mutex \notin Pollers
        /\ mutex = Server => ServerReady
        /\ mutex = Client => Starting \/ ClientReady
        /\ currentState = "STOPPED" \/ Starting
        /\ rejection_notified \/ Starting \/ \A k \in Engines : ~Rejects(k)
    BY <1>4, <2>1 DEF Pending
  <2>3. t = Server
    <3>1. t # Timer
      <4>1. ASSUME t = Timer PROVE FALSE
        <5>1. TimerRuns
          BY <1>2, <4>1 DEF Runs
        <5>2. ~pending_stop'
          BY <1>1, <1>5, <4>1, <5>1, TimerGoesOn
        <5> QED
          BY <1>1, <1>13, <2>1, <5>2 DEF timer
      <4> QED
        BY <4>1
    <3>2. t # Client
      BY <1>2, <1>13, <2>2, ClientCancels
    <3>3. t \notin Pollers
      BY <1>2, <2>2
    <3> QED
      BY <3>1, <3>2, <3>3 DEF Threads, Pollers
  <2>4. ServerReady' /\ cur_state' = cur_state
    BY <1>1, <1>2, <1>13, <2>2, <2>3, ServerCancels
  <2>5. ~Starting /\ Server \notin Pollers /\ Server # Client /\ Server # Timer /\ Server # Gsl
        /\ Timer \in Threads /\ Timer \notin Engines /\ Server \notin Engines
    BY <1>2, <2>3, ThreadsAssumption DEF Starting, Pollers, Threads
  <2>6. Frame(Server)
    BY <1>6, <2>3, <2>5
  <2>7. todo'[Timer] # <<>>
    BY <2>2, <2>5, <2>6 DEF Frame
  <2>8. \A k \in Engines : Rejects(k)' => Rejects(k)
    BY <1>10, <2>5, <2>6 DEF Frame, Rejects, At, Arg
  <2>9. State(Told)' /\ ~timer_stop_waiting'
    BY <2>1, <2>2, <2>4 DEF State, timer
  <2>10. Pending'
    BY <1>6, <1>7, <2>2, <2>3, <2>4, <2>5, <2>7, <2>8, <2>9 DEF Pending
  <2>11. Verdicts'
    BY <1>7, <1>13 DEF Verdicts
  <2>12. EnginesIdle'
    BY <1>1, <1>10, <2>5, <2>6 DEF EnginesIdle, Frame
  <2>13. Types'
    BY <1>1, <1>7, <1>8, <2>1 DEF Types, timer
  <2> QED
    BY <1>6, <2>10, <2>11, <2>12, <2>13 DEF IInv, Kept
<1> QED
  BY <1>11, <1>12, <1>13

(***************************************************************************)
(* What Enter takes out of the list of a call that waits.                  *)
(***************************************************************************)
LEMMA Middle ==
  ASSUME NEW a, NEW b, NEW c
  PROVE  /\ SubSeq(<<a, b>>, 2, Len(<<a, b>>) - 1) = <<>>
         /\ SubSeq(<<a, b, c>>, 2, Len(<<a, b, c>>) - 1) = <<b>>
<1>1. SubSeq(<<a, b>>, 2, Len(<<a, b>>) - 1) = <<>>
  OBVIOUS
<1>2. SubSeq(<<a, b, c>>, 2, Len(<<a, b, c>>) - 1) = <<b>>
  <2> DEFINE q == <<a, b, c>>
             S == {a, b, c}
             x == SubSeq(q, 2, 2)
  <2>1. Len(q) - 1 = 2 /\ q[2] = b /\ 2 \in Int /\ \A i \in 2..2 : q[i] \in S
    OBVIOUS
  <2> HIDE DEF q, S
  <2>2. x \in Seq(S) /\ Len(x) = 1 /\ \A i \in 1..1 : x[i] = q[2 + i - 1]
    BY <2>1, SubSeqProperties
  <2>3. <<b>> \in Seq(S) /\ Len(<<b>>) = 1 /\ <<b>>[1] = b
    BY <2>1 DEF S
  <2> HIDE DEF x
  <2>4. \A i \in 1..Len(x) : x[i] = <<b>>[i]
    BY <2>1, <2>2, <2>3
  <2>5. x = <<b>>
    BY <2>2, <2>3, <2>4, SeqEqual
  <2> QED
    BY <2>1, <2>5 DEF x, q
<1> QED
  BY <1>1, <1>2

(***************************************************************************)
(* A caller about to enter has a call of its own,                          *)
(***************************************************************************)
LEMMA Entering ==
  ASSUME Planned, NEW t \in Callers, At(t, "enter")
  PROVE  Arg(t) \in Ops(t) /\ todo[t] = Waiting(Arg(t))
<1>1. t \in Threads /\ todo[t] \in CallerFree(t) /\ todo[t] # <<>> /\ Head(todo[t])[1] = "enter"
  BY PollerThreads, WhoseTurn DEF At, FreeNames
<1>2. todo[t] \notin {<<<<"delete">>>>, <<<<"arm">>>>, <<<<"sleep">>>>, <<<<"awake">>>>}
  BY <1>1
<1>3. PICK op \in Ops(t) : todo[t] = Waiting(op)
  BY <1>1, <1>2 DEF CallerFree
<1>4. Arg(t) = op
  BY <1>3, WaitingHead DEF Arg
<1> QED
  BY <1>3, <1>4

(***************************************************************************)
(* which gives it these sections: a stop that is no longer pending, and a  *)
(* stop of buffering where nothing is buffered, have nothing to do.        *)
(***************************************************************************)
LEMMA EnterLists ==
  ASSUME Planned, DOMAIN todo = Threads, NEW t \in Callers, Enter(t), NEW op, op = Arg(t),
         NEW l, l = Leave(op)
  PROVE  /\ op = "lateStop" => todo'[t] = IF pending_stop THEN <<<<"handle", "stop">>,
              l>> ELSE <<l>>
         /\ op = "stopBuffering" => todo'[t] \in {<<<<"handle", "stop">>, l>>, <<l>>}
         /\ op = "concurrent" => todo'[t] = <<<<"handle", op>>, <<"handle", "concurrentEnd">>,
              l>>
         /\ op = "disconnect" => todo'[t] = <<<<"handle", op>>, <<"handle", "connect">>, l>>
         /\ op \notin {"lateStop", "stopBuffering", "concurrent", "disconnect"}
              => todo'[t] = <<<<"handle", op>>, l>>
<1> DEFINE h == CASE op = "lateStop" -> IF pending_stop THEN <<<<"handle", "stop">>>> ELSE <<>>
                  [] op = "stopBuffering" ->
                       IF State({"BUFFERING"}) THEN <<<<"handle", "stop">>>> ELSE <<>>
                  [] OTHER -> <<<<"handle", op>>>>
           m == SubSeq(todo[t], 2, Len(todo[t]) - 1)
<1>1. At(t, "enter") /\ t \in Threads
  BY PollerThreads DEF Enter
<1>2. todo[t] = Waiting(op)
  BY <1>1, Entering
<1>3. todo'[t] = h \o m \o <<l>>
  <2>1. Goes(t, h \o m \o <<l>>)
    BY DEF Enter
  <2> HIDE DEF h, m
  <2> QED
    BY <1>1, <2>1 DEF Goes
<1>4. m = CASE op = "concurrent" -> <<<<"handle", "concurrentEnd">>>>
            [] op = "disconnect" -> <<<<"handle", "connect">>>>
            [] OTHER -> <<>>
  <2>1. CASE op = "concurrent"
    <3>1. todo[t] = <<<<"enter", op>>, <<"handle", "concurrentEnd">>, <<"leave">>>>
      BY <1>2, <2>1 DEF Waiting
    <3>2. m = <<<<"handle", "concurrentEnd">>>>
      BY <3>1, Middle
    <3> HIDE DEF m
    <3> QED
      BY <2>1, <3>2
  <2>2. CASE op = "disconnect"
    <3>1. todo[t] = <<<<"enter", op>>, <<"handle", "connect">>, <<"leave">>>>
      BY <1>2, <2>2 DEF Waiting
    <3>2. m = <<<<"handle", "connect">>>>
      BY <3>1, Middle
    <3> HIDE DEF m
    <3> QED
      BY <2>2, <3>2
  <2>3. CASE op \notin {"concurrent", "disconnect"}
    <3>1. todo[t] = <<<<"enter", op>>, <<"leave">>>>
      BY <1>2, <2>3 DEF Waiting
    <3>2. m = <<>>
      BY <3>1, Middle
    <3> HIDE DEF m
    <3> QED
      BY <2>3, <3>2
  <2> QED
    BY <2>1, <2>2, <2>3
<1>5. h \in {<<>>, <<<<"handle", "stop">>>>, <<<<"handle", op>>>>}
  OBVIOUS
<1>6. ASSUME m = <<>> PROVE todo'[t] = h \o <<l>>
  <2>1. h \in Seq({<<"handle", "stop">>, <<"handle", op>>})
    BY <1>5
  <2> HIDE DEF h, m
  <2> QED
    BY <1>3, <1>6, <2>1, ConcatEmptySeq
<1>7. <<>> \o <<l>> = <<l>> /\ \A x : <<x>> \o <<l>> = <<x, l>>
  <2>1. <<l>> \in Seq({l})
    OBVIOUS
  <2> QED
    BY <2>1, ConcatEmptySeq, Joined2
<1>8. ASSUME NEW x, NEW y, h = <<x>>, m = <<y>> PROVE todo'[t] = <<x, y, l>>
  <2> DEFINE T == {x, y, l}
  <2>1. <<x>> \in Seq(T) /\ <<y>> \in Seq(T) /\ <<l>> \in Seq(T)
    OBVIOUS
  <2> HIDE DEF h, m, T
  <2>2. (<<x>> \o <<y>>) \o <<l>> = <<x>> \o (<<y>> \o <<l>>)
    BY <2>1, ConcatAssociative
  <2> QED
    BY <1>3, <1>8, <2>2, Joined2, Joined3
<1>9. CASE op = "lateStop"
  <2>1. m = <<>>
    BY <1>4, <1>9
  <2>2. h = IF pending_stop THEN <<<<"handle", "stop">>>> ELSE <<>>
    BY <1>9
  <2> HIDE DEF h, m
  <2> QED
    BY <1>6, <1>7, <1>9, <2>1, <2>2
<1>10. CASE op = "stopBuffering"
  <2>1. m = <<>>
    BY <1>4, <1>10
  <2>2. h \in {<<<<"handle", "stop">>>>, <<>>}
    BY <1>10
  <2> HIDE DEF h, m
  <2> QED
    BY <1>6, <1>7, <1>10, <2>1, <2>2
<1>11. CASE op = "concurrent"
  <2>1. m = <<<<"handle", "concurrentEnd">>>>
    BY <1>4, <1>11
  <2>2. h = <<<<"handle", op>>>>
    BY <1>11
  <2> HIDE DEF h, m
  <2> QED
    BY <1>8, <1>11, <2>1, <2>2
<1>12. CASE op = "disconnect"
  <2>1. m = <<<<"handle", "connect">>>>
    BY <1>4, <1>12
  <2>2. h = <<<<"handle", op>>>>
    BY <1>12
  <2> HIDE DEF h, m
  <2> QED
    BY <1>8, <1>12, <2>1, <2>2
<1>13. CASE op \notin {"lateStop", "stopBuffering", "concurrent", "disconnect"}
  <2>1. m = <<>>
    BY <1>4, <1>13
  <2>2. h = <<<<"handle", op>>>>
    BY <1>13
  <2> HIDE DEF h, m
  <2> QED
    BY <1>6, <1>7, <1>13, <2>1, <2>2
<1> QED
  BY <1>9, <1>10, <1>11, <1>12, <1>13

(***************************************************************************)
(* Up to two events and the return make a call's list.                     *)
(***************************************************************************)
LEMMA CallOf ==
  ASSUME NEW ops, NEW l \in Leaves(ops)
  PROVE  /\ <<l>> \in CallLists(ops)
         /\ \A e \in Events : <<<<"handle", e>>, l>> \in CallLists(ops)
         /\ \A e \in Events : \A f \in Events :
              <<<<"handle", e>>, <<"handle", f>>, l>> \in CallLists(ops)
<1> DEFINE A == After(Section, <<l>>)
<1>1. <<l>> \in Seq({l})
  BY LeafLists
<1>2. <<l>> \in A
  BY <1>1, AfterNothing
<1>3. ASSUME NEW s \in Section, NEW q \in A PROVE <<s>> \o q \in A
  <2>1. <<s>> \in Seq(Section)
    OBVIOUS
  <2> QED
    BY <1>1, <1>3, <2>1, AfterMore
<1>4. A \subseteq CallLists(ops)
  BY Zenon DEF CallLists
<1> HIDE DEF A
<1>5. ASSUME NEW e \in Events PROVE <<<<"handle", e>>, l>> \in A
  <2>1. <<"handle", e>> \in Section
    BY DEF Section
  <2>2. <<<<"handle", e>>>> \o <<l>> \in A
    BY <1>2, <1>3, <2>1
  <2> QED
    BY <2>2, Joined2
<1>6. ASSUME NEW e \in Events, NEW f \in Events
      PROVE  <<<<"handle", e>>, <<"handle", f>>, l>> \in A
  <2>1. <<"handle", e>> \in Section
    BY DEF Section
  <2>2. <<<<"handle", e>>>> \o <<<<"handle", f>>, l>> \in A
    BY <1>3, <1>5, <2>1
  <2> QED
    BY <2>2, Joined3
<1> QED
  BY <1>2, <1>4, <1>5, <1>6

(***************************************************************************)
(* A call that has entered has a list with the mutex,                      *)
(***************************************************************************)
LEMMA EnterRuns ==
  ASSUME Planned, DOMAIN todo = Threads, currentState \in CallStates, pending_stop \in BOOLEAN,
         NEW t \in Callers, Enter(t)
  PROVE  Runs(t)'
<1> DEFINE op == Arg(t)
           l == Leave(op)
<1>1. At(t, "enter") /\ t \in Threads /\ pending_stop' = pending_stop
  BY PollerThreads DEF Enter, timer
<1>2. op \in Ops(t)
  BY <1>1, Entering
<1>3. l \in Leaves(Ops(t)) /\ l = Leave(Arg(t))
  BY <1>2, LeaveIs DEF Leave
<1>4. <<l>> \in Seq({l})
  BY <1>3, LeafLists
<1> HIDE DEF l
<1>5. CASE t = Timer
  <2>1. Ops(t) = {"lateStop"}
    BY <1>5, ThreadsAssumption DEF Ops
  <2>2. todo'[t] = IF pending_stop THEN <<<<"handle", "stop">>, l>> ELSE <<l>>
    BY <1>2, <1>3, <2>1, EnterLists
  <2>3. <<l>> \in After(Ending, <<l>>)
    BY <1>4, AfterNothing
  <2>4. TimerRuns'
    BY <1>1, <1>3, <1>5, <2>1, <2>2, <2>3 DEF TimerRuns
  <2> QED
    BY <1>5, <2>4 DEF Runs
<1>6. CASE t \in {Client, Server}
  <2>1. t \notin Engines \cup {Timer, Gsl}
    BY <1>6, ThreadsAssumption
  <2>2. op \in ClientOps \cup ServerOps
    BY <1>2, <1>6 DEF Ops
  <2>3. todo'[t] \in CallLists(Ops(t))
    <3>1. CASE op \in {"concurrent", "disconnect"}
      <4>1. \/ todo'[t] = <<<<"handle", op>>, <<"handle", "concurrentEnd">>, l>>
            \/ todo'[t] = <<<<"handle", op>>, <<"handle", "connect">>, l>>
        BY <1>3, <3>1, EnterLists
      <4>2. op \in Events /\ "concurrentEnd" \in Events /\ "connect" \in Events
        BY <3>1 DEF Events
      <4> QED
        BY <1>3, <4>1, <4>2, CallOf
    <3>2. CASE op = "stopBuffering"
      <4>1. todo'[t] \in {<<<<"handle", "stop">>, l>>, <<l>>}
        BY <1>3, <3>2, EnterLists
      <4>2. "stop" \in Events
        BY DEF Events
      <4> QED
        BY <1>3, <4>1, <4>2, CallOf
    <3>3. CASE op \notin {"concurrent", "disconnect", "stopBuffering"}
      <4>1. op \in Events /\ op # "lateStop"
        BY <2>2, <3>3 DEF Events, ClientOps, ServerOps
      <4>2. todo'[t] = <<<<"handle", op>>, l>>
        BY <1>3, <3>3, <4>1, EnterLists
      <4> QED
        BY <1>3, <4>1, <4>2, CallOf
    <3> QED
      BY <3>1, <3>2, <3>3
  <2> QED
    BY <2>1, <2>3 DEF Runs
<1> QED
  BY <1>5, <1>6 DEF Callers

(***************************************************************************)
(* and with a stop pending it is ready for it; only a start changes the    *)
(* client's state to another than STOPPED.                                 *)
(***************************************************************************)
LEMMA EnterReadies ==
  ASSUME Planned, DOMAIN todo = Threads, currentState \in CallStates, NEW t \in Callers,
         Enter(t),
         mutex' = t
  PROVE  /\ t = Client => Starting' \/ ClientReady'
         /\ t = Server => ServerReady'
         /\ currentState' = "STOPPED" \/ currentState' = currentState \/ Starting'
         /\ rejection_notified' = rejection_notified \/ Starting'
<1> DEFINE op == Arg(t)
           l == Leave(op)
<1>1. At(t, "enter") /\ t \in Threads
  BY PollerThreads DEF Enter
<1>2. op \in Ops(t)
  BY <1>1, Entering
<1>3. l = Leave(Arg(t)) /\ \A ops : op \in ops => l \in Leaves(ops)
  BY LeaveIs DEF Leave
<1>4. Client # Server /\ Client # Timer /\ Server # Timer
  BY ThreadsAssumption
<1>5. op = "start" => Starting'
  <2>1. ASSUME op = "start" PROVE t = Client
    BY <1>2, <2>1 DEF Ops, ServerOps
  <2>2. ASSUME op = "start" PROVE todo'[t] = <<<<"handle", "start">>, l>>
    <3> HIDE DEF l
    <3> QED
      BY <1>3, <2>2, EnterLists
  <2>3. op = "start" => l \in Leaves({"start"})
    BY <1>3
  <2> HIDE DEF l
  <2> QED
    BY <2>1, <2>2, <2>3 DEF Starting
<1>6. /\ op = "start" \/ currentState' \in {"STOPPED", currentState}
      /\ op = "start" \/ rejection_notified' = rejection_notified
  BY DEF Enter
<1> HIDE DEF l, op
<1>7. ASSUME t = Client PROVE Starting' \/ ClientReady'
  <2>1. op \in ClientOps
    BY <1>2, <1>7 DEF Ops
  <2>2. l \in Leaves(ClientOps)
    BY <1>3, <2>1
  <2>3. CASE op = "stopBuffering"
    <3>1. todo'[t] \in {<<<<"handle", "stop">>, l>>, <<l>>}
      BY <1>3, <2>3, EnterLists DEF op
    <3>2. l \in Leaves({"config", "stop", "stopBuffering"})
      BY <1>3, <2>3
    <3> QED
      BY <1>7, <2>2, <3>1, <3>2 DEF ClientReady
  <2>4. CASE op \in {"load", "config", "stop", "unload"}
    <3>1. todo'[t] = <<<<"handle", op>>, l>>
      BY <1>3, <2>4, EnterLists DEF op
    <3> QED
      BY <1>7, <2>2, <2>4, <3>1 DEF ClientReady
  <2> QED
    BY <1>5, <2>1, <2>3, <2>4 DEF ClientOps
<1>8. ASSUME t = Server PROVE ServerReady'
  <2>1. op \in ServerOps
    BY <1>2, <1>4, <1>8 DEF Ops
  <2>2. l \in Leaves(ServerOps)
    BY <1>3, <2>1
  <2>3. CASE op = "concurrent"
    <3>1. todo'[t] = <<<<"handle", op>>, <<"handle", "concurrentEnd">>, l>>
      BY <1>3, <2>3, EnterLists DEF op
    <3> QED
      BY <1>8, <2>2, <2>3, <3>1 DEF ServerReady
  <2>4. CASE op = "disconnect"
    <3>1. todo'[t] = <<<<"handle", op>>, <<"handle", "connect">>, l>>
      BY <1>3, <2>4, EnterLists DEF op
    <3> QED
      BY <1>8, <2>2, <2>4, <3>1 DEF ServerReady
  <2>5. CASE op \in {"pause", "resume", "offline", "online"}
    <3>1. todo'[t] = <<<<"handle", op>>, l>>
      BY <1>3, <2>5, EnterLists DEF op
    <3> QED
      BY <1>8, <2>2, <2>5, <3>1 DEF ServerReady
  <2> QED
    BY <2>1, <2>3, <2>4, <2>5 DEF ServerOps
<1> QED
  BY <1>5, <1>6, <1>7, <1>8

(***************************************************************************)
(* A call enters. No verdict is kept then: the hypothesis. With one kept   *)
(* over a call the next detection is reported too early, and the engine    *)
(* that has not decided rejects it afterwards, which starts recognition    *)
(* with a stop pending.                                                    *)
(***************************************************************************)
LEMMA EnterKeeps ==
  ASSUME IInv, UNCHANGED config, "verdict" \notin Overlap, NEW t \in Callers, Enter(t)
  PROVE  IInv'
<1>1. /\ At(t, "enter") /\ mutex = None /\ mutex' = t /\ detection_state = {}
      /\ detection_state' = {}
      /\ UNCHANGED <<cur_state, pending_stop, timer_stop_waiting>>
      /\ currentState' \in {"STARTED", "STOPPED", currentState}
  BY DEF Enter, timer
<1>2. /\ t \in Threads /\ t \notin Pollers /\ t \notin Engines /\ Engines \subseteq Threads
      /\ Client \in Threads /\ Timer \in Threads /\ None \notin Threads
  BY PollerThreads, EnginesAssumption DEF Threads
<1>3. /\ Planned /\ EnginesIdle /\ DOMAIN todo = Threads /\ currentState \in CallStates
      /\ pending_stop \in BOOLEAN /\ config \in Configs
  BY DEF IInv, Kept, Types
<1>4. DOMAIN todo' = Threads /\ \A u \in Threads \ {t} : todo'[u] = todo[u]
  BY <1>2, <1>3 DEF Enter, Goes
<1>5. Runs(t)'
  BY <1>3, EnterRuns
<1>6. currentState' \in CallStates
  BY <1>1, <1>3 DEF CallStates
<1>7. CASE ~pending_stop
  BY <1>1, <1>2, <1>3, <1>4, <1>5, <1>6, <1>7, CalmStep
<1>8. CASE pending_stop
  <2>1. ~Leaving
    BY <1>1, <1>2, <1>3, LeavingHolds
  <2>2. /\ State(Told) /\ ~timer_stop_waiting /\ todo[Timer] # <<>>
        /\ currentState = "STOPPED"
        /\ rejection_notified \/ \A k \in Engines : ~Rejects(k)
    BY <1>1, <1>2, <1>8, <2>1 DEF IInv, Pending, Starting
  <2>3. /\ t = Client => Starting' \/ ClientReady'
        /\ t = Server => ServerReady'
        /\ currentState' = "STOPPED" \/ currentState' = currentState \/ Starting'
        /\ rejection_notified' = rejection_notified \/ Starting'
    BY <1>1, <1>3, EnterReadies
  <2>4. State(Told)' /\ ~timer_stop_waiting'
    BY <1>1, <2>2 DEF State
  <2>5. todo'[Timer] # <<>>
    <3>1. CASE t = Timer
      <4>1. t \in Threads /\ Runs(t)'
        BY <1>2, <1>5
      <4>2. todo'[t] # <<>>
        <5> DEFINE l == Leave(Arg(t))
        <5>1. Arg(t) = "lateStop"
          BY <1>1, <1>3, <3>1, ThreadsAssumption, Entering DEF Ops
        <5>2. l = Leave(Arg(t))
          OBVIOUS
        <5> HIDE DEF l
        <5>3. todo'[t] = <<<<"handle", "stop">>, l>>
          BY <1>3, <1>8, <5>1, <5>2, EnterLists
        <5> QED
          BY <5>3
      <4> QED
        BY <3>1, <4>2
    <3>2. CASE t # Timer
      BY <1>2, <1>4, <2>2, <3>2
    <3> QED
      BY <3>1, <3>2
  <2>6. \A k \in Engines : ~Rejects(k) => ~Rejects(k)'
    BY <1>2, <1>4 DEF Rejects, At, Arg
  <2>7. Pending'
    BY <1>1, <1>2, <2>2, <2>3, <2>4, <2>5, <2>6 DEF Pending
  <2>8. Verdicts'
    BY <1>1 DEF Verdicts
  <2>9. Types'
    BY <1>1, <1>3, <1>4, <1>6 DEF Types
  <2>10. EnginesIdle'
    BY <1>2, <1>3, <1>4 DEF EnginesIdle
  <2>11. Planned'
    BY <1>1, <1>2, <1>3, <1>4, <1>5, PlannedByHolder
  <2> QED
    BY <2>7, <2>8, <2>9, <2>10, <2>11 DEF IInv, Kept
<1> QED
  BY <1>3, <1>7, <1>8

(***************************************************************************)
(* While a caller has the mutex no verdict is kept.                        *)
(***************************************************************************)
LEMMA CallerHolds ==
  ASSUME IInv, NEW t \in Callers, mutex = t
  PROVE  ~Leaving => detection_state = {}
<1>1. t \notin Engines /\ t # None
  BY PollerThreads, EnginesAssumption
<1> QED
  BY <1>1 DEF IInv, Verdicts

(***************************************************************************)
(* A call that returns has nothing else left; the timer's has handled its  *)
(* stop.                                                                   *)
(***************************************************************************)
LEMMA ReturnLists ==
  ASSUME Planned, NEW t \in Callers, At(t, "leave")
  PROVE  /\ mutex = t /\ (t = Timer => ~pending_stop)
         /\ \E l \in Leaves(Ops(t)) : todo[t] = <<l>>
<1>1. t \in Threads /\ todo[t] # <<>> /\ Head(todo[t])[1] = "leave"
  BY PollerThreads DEF At
<1>2. mutex = t /\ Runs(t)
  BY <1>1, WhoseTurn DEF HeldNames
<1>3. "leave" \notin Names
  BY DEF Names, Plain
<1>4. CASE t = Timer
  <2>1. Ops(t) = {"lateStop"}
    BY <1>4, ThreadsAssumption DEF Ops
  <2>2. PICK l \in Leaves({"lateStop"}) :
          \/ pending_stop /\ todo[Timer] = <<<<"handle", "stop">>, l>>
          \/ ~pending_stop /\ \E r \in {<<<<"halted">>, <<"unwake">>, l>>, <<l>>} :
                                 todo[Timer] \in After(Ending, r)
    BY <1>2, <1>4 DEF Runs, TimerRuns
  <2>3. todo[Timer] # <<<<"handle", "stop">>, l>>
    BY <1>1, <1>4
  <2>4. PICK r \in {<<<<"halted">>, <<"unwake">>, l>>, <<l>>} : todo[Timer] \in After(Ending, r)
    BY <2>2, <2>3
  <2>5. <<<<"halted">>, <<"unwake">>, l>> \in Seq({<<"halted">>, <<"unwake">>, l})
          /\ <<l>> \in Seq({l})
        /\ <<<<"halted">>, <<"unwake">>, l>> # <<>> /\ <<l>> # <<>>
        /\ Head(<<<<"halted">>, <<"unwake">>, l>>)[1] = "halted"
    OBVIOUS
  <2>6. todo[Timer] = r \/ Head(todo[Timer]) \in Ending
    <3>1. CASE r = <<l>>
      BY <2>4, <2>5, <3>1, AfterHeads
    <3> DEFINE h == <<<<"halted">>, <<"unwake">>, l>>
               T == {<<"halted">>, <<"unwake">>, l}
    <3>2. CASE r = h
      <4>1. h \in Seq(T) /\ h # <<>> /\ todo[Timer] \in After(Ending, h)
        BY <2>4, <2>5, <3>2
      <4> HIDE DEF h, T
      <4> QED
        BY <3>2, <4>1, AfterHeads
    <3> QED
      BY <2>4, <3>1, <3>2
  <2>7. \A s \in Ending : s[1] # "leave"
    BY DEF Ending
  <2>8. todo[Timer] = <<l>>
    <3>1. todo[Timer] = r
      BY <1>1, <1>4, <2>6, <2>7
    <3>2. r # <<<<"halted">>, <<"unwake">>, l>>
      BY <1>1, <1>4, <2>5, <3>1
    <3> QED
      BY <2>4, <3>1, <3>2
  <2> QED
    BY <1>2, <1>4, <2>1, <2>2, <2>3, <2>8
<1>5. CASE t \in {Client, Server}
  <2>1. t \notin Engines \cup {Timer, Gsl}
    BY <1>5, ThreadsAssumption
  <2>2. ~(t = Client /\ Leaving)
    BY <1>1 DEF Leaving
  <2>3. todo[t] \in CallLists(Ops(t))
    BY <1>2, <2>1, <2>2 DEF Runs
  <2>4. \E l \in Leaves(Ops(t)) : todo[t] = <<l>>
    BY <1>1, <1>3, <2>3, LeaveHead
  <2> QED
    BY <1>2, <2>1, <2>4
<1> QED
  BY <1>4, <1>5 DEF Callers

(***************************************************************************)
(* A call returns: with a stop pending it is one that leaves the client's  *)
(* state STOPPED.                                                          *)
(***************************************************************************)
LEMMA ReturnKeeps ==
  ASSUME IInv, UNCHANGED config, NEW t \in Callers, Return(t)
  PROVE  IInv'
<1>1. /\ At(t, "leave") /\ mutex' = None
      /\ UNCHANGED <<cur_state, detection_state, rejection_notified, pending_stop,
           timer_stop_waiting>>
  BY DEF Return, verdicts, timer
<1>2. /\ t \in Threads /\ t \notin Pollers /\ t \notin Engines /\ Engines \subseteq Threads
      /\ Client \in Threads /\ Timer \in Threads /\ None \notin Threads
      /\ Free(t) = CallerFree(t)
  BY PollerThreads, EnginesAssumption DEF Threads
<1>3. /\ Planned /\ EnginesIdle /\ DOMAIN todo = Threads /\ currentState \in CallStates
      /\ pending_stop \in BOOLEAN /\ config \in Configs
      /\ detection_state \subseteq config.second
  BY DEF IInv, Kept, Types
<1>4. mutex = t /\ (t = Timer => ~pending_stop)
  BY <1>1, <1>3, ReturnLists
<1>5. PICK l \in Leaves(Ops(t)) : todo[t] = <<l>>
  BY <1>1, <1>3, ReturnLists
<1>6. Head(todo[t]) = l /\ l[1] = "leave" /\ l[3] \in Ops(t) /\ l[4] \in CallStates
  BY <1>5 DEF Leaves
<1>7. /\ currentState' \in {l[4], "OPENED", "IDLE", currentState}
      /\ l[3] \notin {"start", "load", "unload"} => currentState' = currentState
  BY <1>6 DEF Return
<1>8. DOMAIN todo' = Threads /\ (\A u \in Threads \ {t} : todo'[u] = todo[u])
      /\ todo'[t] \in {<<<<"delete">>>>, <<>>}
  BY <1>2, <1>3 DEF Return, Goes
<1>9. todo'[t] \in Free(t)
  BY <1>2, <1>8 DEF CallerFree
<1>10. currentState' \in CallStates
  BY <1>3, <1>6, <1>7 DEF CallStates
<1>11. ~Leaving
  <2>1. ASSUME Leaving PROVE FALSE
    <3>1. t = Client
      BY <1>2, <1>3, <1>4, <2>1, LeavingHolds
    <3> QED
      BY <1>1, <2>1, <3>1 DEF Leaving, At
  <2> QED
    BY <2>1
<1>12. detection_state' = {}
  BY <1>1, <1>4, <1>11, CallerHolds
<1>13. CASE ~pending_stop
  BY <1>1, <1>2, <1>3, <1>4, <1>8, <1>9, <1>10, <1>12, <1>13, CalmStep
<1>14. CASE pending_stop
  <2>1. /\ State(Told) /\ ~timer_stop_waiting /\ todo[Timer] # <<>>
        /\ mutex = Client => Starting \/ ClientReady
        /\ currentState = "STOPPED" \/ Starting
        /\ rejection_notified \/ Starting \/ \A k \in Engines : ~Rejects(k)
    BY <1>11, <1>14 DEF IInv, Pending
  <2>2. ~Starting
    <3>1. ASSUME Starting PROVE FALSE
      <4>1. t = Client
        BY <1>4, <3>1 DEF Starting
      <4>2. Head(todo[Client])[1] = "handle"
        BY <3>1 DEF Starting
      <4> QED
        BY <1>1, <4>1, <4>2 DEF At
    <3> QED
      BY <3>1
  <2>3. t \in {Client, Server}
    BY <1>4, <1>14 DEF Callers
  <2>4. l[3] \notin {"start", "load", "unload"}
    <3>1. CASE t = Client
      <4>1. \A x, op : todo[Client] # <<<<"handle", op>>, x>>
        BY <1>5, <3>1
      <4>2. PICK x \in Leaves({"config", "stop", "stopBuffering"}) : todo[Client] = <<x>>
        BY <1>4, <2>1, <2>2, <3>1, <4>1 DEF ClientReady
      <4>3. x = l
        BY <1>5, <3>1, <4>2
      <4>4. x[3] \in {"config", "stop", "stopBuffering"}
        BY <4>2 DEF Leaves
      <4> QED
        BY <4>3, <4>4
    <3>2. CASE t = Server
      <4>1. Ops(t) = ServerOps
        BY <3>2, ThreadsAssumption DEF Ops
      <4> QED
        BY <1>6, <4>1 DEF ServerOps
    <3> QED
      BY <2>3, <3>1, <3>2
  <2>5. currentState' = "STOPPED"
    BY <1>7, <2>1, <2>2, <2>4
  <2>6. todo'[Timer] # <<>>
    BY <1>2, <1>4, <1>8, <1>14, <2>1
  <2>7. \A k \in Engines : Rejects(k)' => Rejects(k)
    BY <1>2, <1>8 DEF Rejects, At, Arg
  <2>8. Server \in Threads
    BY DEF Threads
  <2>9. None \notin Pollers
    BY <1>2, PollerThreads
  <2>10. Pending'
    BY <1>1, <1>2, <2>1, <2>2, <2>5, <2>6, <2>7, <2>8, <2>9 DEF Pending, State
  <2>11. Verdicts'
    BY <1>12 DEF Verdicts
  <2>12. Types'
    BY <1>1, <1>3, <1>8, <1>10 DEF Types
  <2>13. EnginesIdle'
    BY <1>2, <1>3, <1>8 DEF EnginesIdle
  <2>14. Planned'
    BY <1>2, <1>3, <1>4, <1>8, <1>9, PlannedByHolder
  <2> QED
    BY <2>10, <2>11, <2>12, <2>13, <2>14 DEF IInv, Kept
<1> QED
  BY <1>3, <1>13, <1>14

(***************************************************************************)
(* The first sections of callers without the mutex.                        *)
(***************************************************************************)
LEMMA CallerHeads ==
  ASSUME NEW t, NEW q \in CallerFree(t)
  PROVE  q = <<>> \/ Head(q)[1] \in {"enter", "delete", "arm", "sleep", "awake"}
<1>1. CASE q \in {<<>>, <<<<"delete">>>>, <<<<"arm">>>>, <<<<"sleep">>>>, <<<<"awake">>>>}
  BY <1>1
<1>2. CASE \E op \in Ops(t) : q = Waiting(op)
  BY <1>2, WaitingHead
<1> QED
  BY <1>1, <1>2 DEF CallerFree

(***************************************************************************)
(* A step of a caller without the mutex that changes nothing of the        *)
(* stream.                                                                 *)
(***************************************************************************)
LEMMA CallerStep ==
  ASSUME IInv, UNCHANGED config, NEW t \in Callers, todo[t] \in Free(t), NEW q \in CallerFree(t),
         Goes(t, q),
         UNCHANGED <<cur_state, currentState, rejection_notified, detection_state, timer,
           mutex>>,
         t = Timer /\ pending_stop /\ ~Leaving => q # <<>>
  PROVE  IInv'
<1>1. t \in Threads /\ Free(t) = CallerFree(t) /\ t \notin Engines
  BY PollerThreads
<1>2. DOMAIN todo' = Threads /\ todo'[t] = q /\ \A u \in Threads \ {t} : todo'[u] = todo[u]
  BY <1>1 DEF Goes, IInv, Kept, Types
<1>3. ~Rejects(t)'
  BY <1>2, CallerHeads DEF Rejects, At
<1> QED
  BY <1>1, <1>2, <1>3, FreeStep

(***************************************************************************)
(* The timer's thread begins to wait,                                      *)
(***************************************************************************)
LEMMA ArmKeeps ==
  ASSUME IInv, UNCHANGED config, Arm
  PROVE  IInv'
<1>1. At(Timer, "arm") /\ Goes(Timer, <<<<"sleep">>>>) /\ Timer \in Callers
  BY DEF Arm, Callers
<1>2. todo[Timer] \in Free(Timer)
  BY <1>1, PollerThreads, WhoseTurn DEF At, FreeNames, IInv, Kept
<1>3. <<<<"sleep">>>> \in CallerFree(Timer) /\ <<<<"sleep">>>> # <<>>
  BY DEF CallerFree
<1>4. UNCHANGED <<cur_state, currentState, rejection_notified, detection_state, timer, mutex>>
  BY DEF Arm, stream, states, verdicts, locks
<1> QED
  BY <1>1, <1>2, <1>3, <1>4, CallerStep

(***************************************************************************)
(* and wakes up: with a stop pending it goes on to stop the stream.        *)
(***************************************************************************)
LEMMA WakeKeeps ==
  ASSUME IInv, UNCHANGED config, Wake
  PROVE  IInv'
<1> DEFINE q == IF timer_stop_waiting THEN <<>> ELSE <<<<"enter", "lateStop">>, <<"leave">>>>
<1>1. (At(Timer, "sleep") \/ At(Timer, "awake")) /\ Goes(Timer, q) /\ Timer \in Callers
  BY DEF Wake, Callers
<1>2. todo[Timer] \in Free(Timer)
  BY <1>1, PollerThreads, WhoseTurn DEF At, FreeNames, IInv, Kept
<1>3. /\ Waiting("lateStop") = <<<<"enter", "lateStop">>, <<"leave">>>>
      /\ Waiting("lateStop") # <<>>
  BY WaitingHead DEF Waiting
<1>4. "lateStop" \in Ops(Timer)
  BY ThreadsAssumption DEF Ops
<1>5. q \in CallerFree(Timer)
  BY <1>3, <1>4 DEF CallerFree
<1>6. pending_stop /\ ~Leaving => q # <<>>
  BY <1>3 DEF IInv, Pending
<1>7. UNCHANGED <<cur_state, currentState, rejection_notified, detection_state, timer, mutex>>
  BY DEF Wake, stream, states, verdicts, locks
<1> QED
  BY <1>1, <1>2, <1>5, <1>6, <1>7, CallerStep

(***************************************************************************)
(* The client calls,                                                       *)
(***************************************************************************)
LEMMA CallKeeps ==
  ASSUME IInv, UNCHANGED config,
         NEW op \in {"load", "config", "start", "stop", "stopBuffering", "unload"}, Call(op)
  PROVE  IInv'
<1>1. /\ todo[Client] = <<>> /\ Goes(Client, <<<<"enter", op>>, <<"leave">>>>)
      /\ Client \in Callers /\ Client # Timer
  BY ThreadsAssumption DEF Call, Callers
<1>2. todo[Client] \in Free(Client)
  BY <1>1, PollerThreads DEF CallerFree
<1>3. Waiting(op) = <<<<"enter", op>>, <<"leave">>>> /\ op \in Ops(Client)
  BY DEF Waiting, Ops, ClientOps
<1>4. Waiting(op) \in CallerFree(Client)
  BY <1>3 DEF CallerFree
<1>5. UNCHANGED <<cur_state, currentState, rejection_notified, detection_state, timer, mutex>>
  BY DEF Call, states, verdicts
<1> QED
  BY <1>1, <1>2, <1>3, <1>4, <1>5, CallerStep

(***************************************************************************)
(* ResourceManager's thread calls,                                         *)
(***************************************************************************)
LEMMA RequestKeeps ==
  ASSUME IInv, UNCHANGED config, NEW r \in Requests, Request(r)
  PROVE  IInv'
<1>1. todo[Server] = <<>> /\ Goes(Server, Steps(r)) /\ Server \in Callers /\ Server # Timer
  BY ThreadsAssumption DEF Request, Callers
<1>2. todo[Server] \in Free(Server)
  BY <1>1, PollerThreads DEF CallerFree
<1>3. \E op \in ServerOps : Steps(r) = Waiting(op)
  <2>1. CASE r = "pause"
    <3>1. Steps(r) = Waiting(IF paused THEN "resume" ELSE "pause")
      BY <2>1 DEF Steps, Waiting
    <3> QED
      BY <3>1 DEF ServerOps
  <2>2. CASE r = "concurrent"
    BY <2>2 DEF Steps, Waiting, ServerOps
  <2>3. CASE r = "switch"
    <3>1. Steps(r) = Waiting("disconnect")
      BY <2>3 DEF Steps, Waiting
    <3> QED
      BY <3>1 DEF ServerOps
  <2>4. CASE r = "restart"
    <3>1. Steps(r) = Waiting(IF State({"SSR"}) THEN "online" ELSE "offline")
      BY <2>4 DEF Steps, Waiting
    <3> QED
      BY <3>1 DEF ServerOps
  <2> QED
    BY <2>1, <2>2, <2>3, <2>4 DEF Requests
<1>4. Steps(r) \in CallerFree(Server)
  BY <1>3, ThreadsAssumption DEF CallerFree, Ops
<1>5. UNCHANGED <<cur_state, currentState, rejection_notified, detection_state, timer, mutex>>
  BY DEF Request, states, verdicts
<1> QED
  BY <1>1, <1>2, <1>4, <1>5, CallerStep

(***************************************************************************)
(* the client reads, which cancels the stop,                               *)
(***************************************************************************)
LEMMA ReadKeeps ==
  ASSUME IInv, UNCHANGED config, Read
  PROVE  IInv'
<1>1. /\ todo[Client] = <<>> /\ mutex = None /\ pending_stop' = FALSE /\ todo' = Disarmed(todo)
      /\ UNCHANGED <<cur_state, currentState, rejection_notified, detection_state, mutex>>
  BY DEF Read, CancelDelayedStop, states, verdicts, locks
<1>2. /\ Planned /\ EnginesIdle /\ DOMAIN todo = Threads /\ currentState \in CallStates
      /\ detection_state \subseteq config.second /\ config \in Configs
  BY DEF IInv, Kept, Types
<1>3. /\ Timer \in Threads /\ Timer \notin Engines /\ Engines \subseteq Threads
      /\ Timer \in Callers /\ None \notin Threads
  BY PollerThreads, EnginesAssumption DEF Callers
<1>4. DOMAIN todo' = Threads /\ (\A u \in Threads \ {Timer} : todo'[u] = todo[u])
      /\ todo'[Timer] \in {<<<<"awake">>>>, todo[Timer]}
  BY <1>1, <1>2, <1>3 DEF Disarmed
<1>5. todo'[Timer] \in Free(Timer)
  <2>1. todo[Timer] \in Free(Timer)
    BY <1>1, <1>2, <1>3 DEF Planned
  <2>2. <<<<"awake">>>> \in Free(Timer)
    BY <1>3, PollerThreads DEF CallerFree
  <2> QED
    BY <1>4, <2>1, <2>2
<1>6. Planned'
  BY <1>1, <1>2, <1>3, <1>4, <1>5, PlannedByHolder
<1>7. Verdicts
  <2>1. ~Leaving
    BY <1>1 DEF Leaving
  <2> QED
    BY <2>1 DEF IInv
<1>8. Verdicts'
  <2>1. \A k \in Engines : ~Rejects(k) => ~Rejects(k)'
    BY <1>3, <1>4 DEF Rejects, At, Arg
  <2>2. detection_state \subseteq Engines
    BY <1>2, SecondFinite
  <2> QED
    BY <1>1, <1>7, <2>1, <2>2 DEF Verdicts, State
<1>9. Pending'
  BY <1>1 DEF Pending
<1>10. Types'
  BY <1>1, <1>2, <1>4 DEF Types
<1>11. EnginesIdle'
  BY <1>2, <1>3, <1>4 DEF EnginesIdle
<1> QED
  BY <1>6, <1>8, <1>9, <1>10, <1>11 DEF IInv, Kept

(***************************************************************************)
(* the destructor begins to wait for the timer,                            *)
(***************************************************************************)
LEMMA DestroyKeeps ==
  ASSUME IInv, UNCHANGED config, Destroy
  PROVE  IInv'
<1>1. /\ mutex = None /\ mutex' = Client /\ Goes(Client, <<<<"joinTimer">>>>)
      /\ UNCHANGED <<currentState, detection_state, pending_stop>>
  BY DEF Destroy, states, verdicts
<1>2. Planned /\ EnginesIdle /\ Types
  BY DEF IInv, Kept
<1>3. Client \in Threads /\ Client \notin Engines \cup {Timer, Gsl} /\ Engines \subseteq Threads
  BY PollerThreads, ThreadsAssumption DEF Threads
<1>4. DOMAIN todo' = Threads /\ todo'[Client] = <<<<"joinTimer">>>>
      /\ \A u \in Threads \ {Client} : todo'[u] = todo[u]
  BY <1>1, <1>2, <1>3 DEF Types, Goes
<1>5. Leaving'
  BY <1>4 DEF Leaving
<1>6. Runs(Client)'
  BY <1>3, <1>5 DEF Runs
<1>7. Planned'
  BY <1>1, <1>2, <1>3, <1>4, <1>6, PlannedByHolder DEF Types
<1>8. Types'
  BY <1>1, <1>2, <1>4 DEF Types
<1>9. EnginesIdle'
  BY <1>2, <1>3, <1>4 DEF EnginesIdle
<1> QED
  BY <1>5, <1>7, <1>8, <1>9 DEF IInv, Kept

(***************************************************************************)
(* and ends; the next stream is a new one.                                 *)
(***************************************************************************)
LEMMA DestroyedKeeps ==
  ASSUME IInv, UNCHANGED config, Destroyed
  PROVE  IInv'
<1>1. /\ At(Client, "joinTimer") /\ mutex' = None /\ currentState' = "IDLE"
      /\ detection_state' = {} /\ pending_stop' = FALSE
      /\ todo' = [todo EXCEPT ![Client] = <<>>, ![Timer] = <<>>]
  BY DEF Destroyed, Born
<1>2. /\ Client \in Threads /\ Timer \in Threads /\ Client \notin Engines
      /\ Timer \notin Engines
      /\ Client # Timer
      /\ Engines \subseteq Threads /\ Client \in Callers /\ Timer \in Callers
  BY PollerThreads, ThreadsAssumption DEF Callers
<1>3. mutex = Client
  BY <1>1, <1>2, WhoseTurn DEF At, HeldNames, IInv, Kept
<1>4. DOMAIN todo' = Threads /\ todo'[Client] = <<>> /\ todo'[Timer] = <<>>
      /\ \A u \in Threads \ {Client, Timer} : todo'[u] = todo[u]
  BY <1>1, <1>2 DEF IInv, Kept, Types
<1>5. <<>> \in Free(Client) /\ <<>> \in Free(Timer)
  BY <1>2, PollerThreads DEF CallerFree
<1>6. "IDLE" \in CallStates
  BY DEF CallStates
<1>7. \A u \in Threads \ {Client} : todo'[u] = todo[u] \/ todo'[u] \in Free(u)
  BY <1>4, <1>5
<1>8. \A u \in Engines \ {Client} : todo'[u] # <<>> => todo[u] # <<>> \/ u \in config.second
  BY <1>2, <1>4
<1> QED
  BY <1>1, <1>2, <1>3, <1>4, <1>5, <1>6, <1>7, <1>8, CalmStep

(***************************************************************************)
(* The invariant holds at first,                                           *)
(***************************************************************************)
LEMMA InitInv ==
  ASSUME Init
  PROVE  IInv
<1>1. config \in Configs /\ todo = [t \in Threads |-> <<>>]
  BY DEF Init, InitEngines
<1>2. \A t \in Threads : todo[t] = <<>> /\ <<>> \in Free(t)
  BY <1>1 DEF Free, CallerFree, PollerFree
<1>3. Planned
  BY <1>2 DEF Planned
<1>4. EnginesIdle
  BY <1>2, PollerThreads DEF EnginesIdle
<1>5. Types
  BY <1>1 DEF Init, Types, CallStates
<1>6. Pending /\ Verdicts
  BY DEF Init, Pending, Verdicts
<1> QED
  BY <1>3, <1>4, <1>5, <1>6 DEF IInv, Kept

(***************************************************************************)
(* while nothing happens,                                                  *)
(***************************************************************************)
LEMMA StutterKeeps ==
  ASSUME IInv, UNCHANGED vars
  PROVE  IInv'
<1>1. UNCHANGED <<config, todo, mutex, cur_state, pending_stop, currentState, detection_state,
                  rejection_notified, timer_stop_waiting>>
  BY DEF vars, stream, states, verdicts, timer, locks
<1>2. Client \in Threads
  BY DEF Threads
<1>3. Planned'
  BY <1>1, <1>2, RunsKept DEF IInv, Kept, Planned
<1>4. Types'
  BY <1>1 DEF IInv, Kept, Types
<1>5. EnginesIdle'
  BY <1>1 DEF IInv, Kept, EnginesIdle
<1>6. Leaving' = Leaving
  BY <1>1 DEF Leaving
<1>7. Pending' = Pending
  BY <1>1 DEF Pending, Starting, ClientReady, ServerReady, State, Rejects, At, Arg
<1>8. Verdicts' = Verdicts
  BY <1>1 DEF Verdicts, Rejecting, State, Rejects, At, Arg
<1> QED
  BY <1>3, <1>4, <1>5, <1>6, <1>7, <1>8 DEF IInv, Kept

(***************************************************************************)
(* and after every step.                                                   *)
(***************************************************************************)
LEMMA NextInv ==
  ASSUME IInv, [Next]_vars, "verdict" \notin Overlap
  PROVE  IInv'
<1>1. CASE UNCHANGED vars
  BY <1>1, StutterKeeps
<1>2. CASE Next
  <2>1. UNCHANGED config
    BY <1>2 DEF Next
  <2>2. ASSUME NEW t \in Pollers, Engine(t) PROVE IInv'
    <3>1. t \in Threads
      BY PollerThreads
    <3>2. CASE (EngineCall(t) /\ UNCHANGED stream) \/ Handling(t)
      BY <2>1, <3>1, <3>2, WorksKeeps DEF Works
    <3>3. CASE Detection(t)
      <4>1. CASE Ignored(t)
        BY <2>1, <4>1, IgnoredKeeps
      <4>2. CASE FirstStageOnly(t)
        BY <2>1, <4>2, FirstStageOnlyKeeps
      <4>3. CASE FirstStageDetected(t)
        BY <2>1, <4>3, FirstStageDetectedKeeps
      <4>4. CASE Unlock(t)
        BY <2>1, <4>4, UnlockKeeps
      <4>5. CASE Accept(t)
        BY <2>1, <4>5, AcceptKeeps
      <4>6. CASE Reject(t)
        BY <2>1, <4>6, RejectKeeps
      <4>7. CASE Rejected(t)
        BY <2>1, <4>7, RejectedKeeps
      <4>8. CASE Callback(t) \/ Relock(t)
        BY <2>1, <4>8, CallbackKeeps
      <4> QED
        BY <3>3, <4>1, <4>2, <4>3, <4>4, <4>5, <4>6, <4>7, <4>8 DEF Detection
    <3>4. CASE t = Gsl /\ FirstStage /\ UNCHANGED stream
      BY <2>1, <3>4, FirstStageKeeps
    <3>5. CASE t \in Engines /\ SecondStage(t) /\ UNCHANGED stream
      BY <2>1, <3>5, SecondStageKeeps
    <3> QED
      BY <2>2, <3>2, <3>3, <3>4, <3>5 DEF Engine
  <2>3. ASSUME NEW t \in Callers, Caller(t) PROVE IInv'
    <3>1. t \in Threads
      BY PollerThreads
    <3>2. CASE (EngineCall(t) /\ UNCHANGED stream) \/ Handling(t)
      BY <2>1, <3>1, <3>2, WorksKeeps DEF Works
    <3>3. CASE Enter(t)
      BY <2>1, <3>3, EnterKeeps
    <3>4. CASE Return(t)
      BY <2>1, <3>4, ReturnKeeps
    <3>5. CASE Destroy \/ Destroyed
      BY <2>1, <3>5, DestroyKeeps, DestroyedKeeps
    <3>6. CASE Arm \/ Wake
      BY <2>1, <3>6, ArmKeeps, WakeKeeps
    <3> QED
      BY <2>3, <3>2, <3>3, <3>4, <3>5, <3>6 DEF Caller
  <2>4. CASE Outside
    <3>1. ASSUME NEW op \in {"load", "config", "start", "stop", "stopBuffering", "unload"},
                 Call(op)
          PROVE  IInv'
      BY <2>1, <3>1, CallKeeps
    <3>2. ASSUME NEW r \in Requests, Request(r) PROVE IInv'
      BY <2>1, <3>2, RequestKeeps
    <3>3. CASE Read
      BY <2>1, <3>3, ReadKeeps
    <3>4. CASE Detect /\ UNCHANGED stream
      BY <2>1, <3>4, DetectKeeps
    <3> QED
      BY <2>4, <3>1, <3>2, <3>3, <3>4 DEF Outside
  <2> QED
    BY <1>2, <2>2, <2>3, <2>4 DEF Next
<1> QED
  BY <1>1, <1>2

(***************************************************************************)
(* The timer that handles its stop has it pending, so nobody has started   *)
(* the stream since;                                                       *)
(***************************************************************************)
LEMMA StopsTold ==
  ASSUME IInv
  PROVE  NeverStopsActive
<1>1. SUFFICES ASSUME At(Timer, "handle") PROVE currentState = "STOPPED" /\ State(Told)
  BY DEF NeverStopsActive
<1>2. Timer \in Threads /\ Timer # Client
  BY ThreadsAssumption DEF Threads
<1>3. todo[Timer] # <<>> /\ Head(todo[Timer])[1] = "handle"
  BY <1>1 DEF At
<1>4. mutex = Timer /\ Runs(Timer)
  <2>1. "handle" \in HeldNames
    BY DEF HeldNames, Names
  <2> QED
    BY <1>2, <1>3, <2>1, WhoseTurn DEF IInv, Kept
<1>5. pending_stop
  <2>1. PICK l \in Leaves({"lateStop"}) :
          \/ pending_stop /\ todo[Timer] = <<<<"handle", "stop">>, l>>
          \/ ~pending_stop /\ \E r \in {<<<<"halted">>, <<"unwake">>, l>>, <<l>>} :
                                 todo[Timer] \in After(Ending, r)
    BY <1>4 DEF Runs, TimerRuns
  <2>2. ASSUME ~pending_stop PROVE FALSE
    <3> DEFINE h == <<<<"halted">>, <<"unwake">>, l>>
               T == {<<"halted">>, <<"unwake">>, l}
    <3>1. h \in Seq(T) /\ h # <<>> /\ Head(h)[1] = "halted"
      OBVIOUS
    <3>2. <<l>> \in Seq({l}) /\ <<l>> # <<>> /\ Head(<<l>>)[1] = "leave"
      BY LeafLists
    <3>3. \A s \in Ending : s[1] # "handle"
      BY DEF Ending
    <3> HIDE DEF h, T
    <3>4. CASE todo[Timer] \in After(Ending, h)
      <4>1. todo[Timer] = h \/ Head(todo[Timer]) \in Ending
        BY <3>1, <3>4, AfterHeads
      <4> QED
        BY <1>3, <3>1, <3>3, <4>1
    <3>5. CASE todo[Timer] \in After(Ending, <<l>>)
      <4>1. todo[Timer] = <<l>> \/ Head(todo[Timer]) \in Ending
        BY <3>2, <3>5, AfterHeads
      <4> QED
        BY <1>3, <3>2, <3>3, <4>1
    <3> QED
      BY <2>1, <2>2, <3>4, <3>5 DEF h
  <2> QED
    BY <2>2
<1>6. ~Leaving
  BY <1>2, <1>4, LeavingHolds DEF IInv, Kept
<1>7. ~Starting
  BY <1>2, <1>4 DEF Starting
<1> QED
  BY <1>5, <1>6, <1>7 DEF IInv, Pending

(***************************************************************************)
(* and a pending stop has its timer.                                       *)
(***************************************************************************)
LEMMA StopTimed ==
  ASSUME IInv
  PROVE  PendingStopTimed
<1>1. SUFFICES ASSUME Quiet, pending_stop PROVE todo[Timer] # <<>>
  BY DEF PendingStopTimed
<1>2. todo[Client] = <<>>
  BY <1>1, ThreadsAssumption DEF Quiet, Threads
<1>3. ~Leaving
  BY <1>2 DEF Leaving
<1> QED
  BY <1>1, <1>3 DEF IInv, Pending

(***************************************************************************)
(* The inductive invariant holds in every reachable state.                 *)
(***************************************************************************)
THEOREM Invariant ==
  ASSUME "verdict" \notin Overlap
  PROVE  Spec => []IInv
<1>1. Init => IInv
  BY InitInv
<1>2. IInv /\ [Next]_vars => IInv'
  BY NextInv
<1> QED
  BY <1>1, <1>2, PTL DEF Spec

(***************************************************************************)
(* The deferred stop stops a stream whose client was told of a detection   *)
(* and has not started it since, whatever the client, ResourceManager, the *)
(* DSP and the engines do in between. Without the hypothesis a verdict     *)
(* kept over a stop and a start breaks it.                                 *)
(***************************************************************************)
THEOREM StopsOnlyTold ==
  ASSUME "verdict" \notin Overlap
  PROVE  Spec => []NeverStopsActive
<1>1. Spec => []IInv
  BY Invariant
<1>2. IInv => NeverStopsActive
  BY StopsTold
<1> QED
  BY <1>1, <1>2, PTL

(***************************************************************************)
(* A deferred stop that is due when nothing else happens has a timer that  *)
(* will wake up, although a stop is posted and cancelled without the timer *)
(* hearing of it.                                                          *)
(***************************************************************************)
THEOREM StopIsTimed ==
  ASSUME "verdict" \notin Overlap
  PROVE  Spec => []PendingStopTimed
<1>1. Spec => []IInv
  BY Invariant
<1>2. IInv => PendingStopTimed
  BY StopTimed
<1> QED
  BY <1>1, <1>2, PTL
==============================================================================
