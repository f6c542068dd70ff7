--------------------------- MODULE SoundCardProofs ---------------------------
(***************************************************************************)
(* The safety properties of restarts (ssrHandlingLoop and the handlers and *)
(* calls of StreamPCM), for any clients, streams, bounds and restarts. The *)
(* invariant has three parts. CoreInv says who is where: which sections of *)
(* a call may meet a walk, what they know of their stream, and when        *)
(* mActiveStreamMutex is held. DeviceInv says what every section in        *)
(* progress has done to the device. DeathInv says where the news of a DSP  *)
(* that went down is: with the monitor, in msgQ, or in the walk that       *)
(* closes the streams.                                                     *)
(*                                                                         *)
(* The theorems about restarts assume CallsKeptApart: during a walk a      *)
(* stream may be opened and resumed, and the DSP may go down, but nobody   *)
(* starts, stops, closes, pauses or writes; one stream has one caller at a *)
(* time; and a stream that a restart closed is not paused before it is     *)
(* started. RestartTwice and PauseDuringWalk show what happens without.    *)
(*                                                                         *)
(* The types come first. TypeOK is not inductive: Head and Tail of a list  *)
(* of sections have a type only if the list is one that the code can have, *)
(* so the lists of a client and those of the restart thread are written    *)
(* out and every section is shown to lead from one of them to another.     *)
(***************************************************************************)
EXTENDS SoundCard, ListLemmas, FiniteSetTheorems

------------------------------------------------------------------------------
(***************************************************************************)
(* The sections that a thread may still have to run: those of a client's   *)
(* call,                                                                   *)
(***************************************************************************)
OverlapTodo == {<<"open", "count">>, <<"count">>, <<"delete">>, <<"resume">>}

CloseTodo ==
  {<<"uncache", "close", "deactivate", "delete">>,
   <<"close", "deactivate", "delete">>,
   <<"stop", "closed", "deactivate", "delete">>,
   <<"stopped", "closed", "deactivate", "delete">>,
   <<"closed", "deactivate", "delete">>,
   <<"deactivate", "delete">>}

ClientTodo ==
  OverlapTodo \cup CloseTodo \cup
    {<<>>, <<"start">>, <<"started">>, <<"stop">>, <<"stopped">>, <<"pause">>, <<"write">>,
     <<"rewrite", "written">>, <<"written">>}

(***************************************************************************)
(* and those of the restart thread, on the way down and on the way up.     *)
(***************************************************************************)
DownTodo ==
  {<<"down">>, <<"downExit">>, <<"close", "downExit">>,
   <<"stop", "relock", "close", "downExit">>,
   <<"stopped", "relock", "close", "downExit">>,
   <<"relock", "close", "downExit">>}

\* What a walk that finds a stream playing when it closes it would do.
StuckTodo ==
  {<<"stop", "closed", "downExit">>, <<"stopped", "closed", "downExit">>, <<"closed", "downExit">>}

UpTodo ==
  {<<"up">>, <<"upExit">>, <<"open", "upExit">>,
   <<"open", "unlock", "start", "relock", "upExit">>,
   <<"unlock", "start", "relock", "upExit">>,
   <<"start", "relock", "upExit">>,
   <<"started", "relock", "upExit">>,
   <<"relock", "upExit">>,
   <<"open", "unlock", "start", "relock", "repause", "upExit">>,
   <<"unlock", "start", "relock", "repause", "upExit">>,
   <<"start", "relock", "repause", "upExit">>,
   <<"started", "relock", "repause", "upExit">>,
   <<"relock", "repause", "upExit">>,
   <<"repause", "upExit">>, <<"pause", "upExit">>}

SsrTodo == {<<>>, <<"relock">>} \cup DownTodo \cup StuckTodo \cup UpTodo

(***************************************************************************)
(* Two sections put in front of others.                                    *)
(***************************************************************************)
LEMMA JoinedPair ==
  ASSUME NEW a, NEW b, NEW c, NEW d
  PROVE  /\ <<a, b>> \o <<c>> = <<a, b, c>>
         /\ <<a, b>> \o <<c, d>> = <<a, b, c, d>>
<1> DEFINE S == {a, b, c, d}
<1>1. ASSUME NEW q, q \in Seq(S) PROVE <<a, b>> \o q = <<a>> \o (<<b>> \o q)
  <2>1. <<a, b>> = <<a>> \o <<b>>
    BY Joined2
  <2>2. <<a>> \in Seq(S) /\ <<b>> \in Seq(S)
    OBVIOUS
  <2> HIDE DEF S
  <2> QED
    BY <1>1, <2>1, <2>2, ConcatAssociative
<1>2. <<c>> \in Seq(S) /\ <<c, d>> \in Seq(S)
  OBVIOUS
<1> HIDE DEF S
<1>3. /\ <<a, b>> \o <<c>> = <<a>> \o (<<b>> \o <<c>>)
      /\ <<a, b>> \o <<c, d>> = <<a>> \o (<<b>> \o <<c, d>>)
  BY <1>1, <1>2
<1>4. /\ <<b>> \o <<c>> = <<b, c>> /\ <<a>> \o <<b, c>> = <<a, b, c>>
      /\ <<b>> \o <<c, d>> = <<b, c, d>> /\ <<a>> \o <<b, c, d>> = <<a, b, c, d>>
  BY Joined2, Joined3, Joined4
<1> QED
  BY <1>3, <1>4

(***************************************************************************)
(* The section that a thread runs next and the one after it; what that can *)
(* be after each section of a client and of the restart thread.            *)
(***************************************************************************)
First(p)  == IF p = <<>> THEN "none" ELSE Head(p)
Second(p) == IF p = <<>> THEN "none" ELSE First(Tail(p))

ClientFollows(a) ==
  CASE a = "open" -> {"count"} [] a = "uncache" -> {"close"} [] a = "close" -> {"deactivate"}
    [] a \in {"stop", "stopped"} -> {"none", "closed"} [] a = "closed" -> {"deactivate"}
    [] a = "deactivate" -> {"delete"} [] a = "rewrite" -> {"written"}
    [] OTHER -> {"none"}

SsrFollows(a) ==
  CASE a = "relock" -> {"none", "close", "upExit", "repause"}
    [] a \in {"stop", "stopped"} -> {"relock", "closed"}
    [] a \in {"close", "closed"} -> {"downExit"}
    [] a = "open" -> {"upExit", "unlock"} [] a = "unlock" -> {"start"}
    [] a \in {"start", "started"} -> {"relock"}
    [] a \in {"repause", "pause"} -> {"upExit"}
    [] OTHER -> {"none"}

(***************************************************************************)
(* A client's list starts with a section of its calls, goes on with one    *)
(* that follows it, and what is left of it is a list again.                *)
(***************************************************************************)
LEMMA ClientOrder ==
  ASSUME NEW p \in ClientTodo, p # <<>>
  PROVE  /\ Head(p) \in {"open", "count", "delete", "resume", "uncache", "close", "stop",
                         "stopped", "closed", "deactivate", "start", "started", "pause",
                         "write", "rewrite", "written"}
         /\ Second(p) \in ClientFollows(Head(p))
         /\ Tail(p) \in ClientTodo /\ <<>> \o Tail(p) = Tail(p)
<1> USE DEF ClientTodo, OverlapTodo, CloseTodo, First, Second, ClientFollows
<1>1. CASE \E x \in {"count", "delete", "resume", "start", "started", "stop", "stopped",
                     "pause", "write", "written"} : p = <<x>>
  <2> PICK x \in {"count", "delete", "resume", "start", "started", "stop", "stopped", "pause",
                  "write", "written"} : p = <<x>>
    BY <1>1
  <2>1. Head(p) = x /\ Tail(p) = <<>>
    OBVIOUS
  <2> QED
    BY <2>1
<1>2. CASE p = <<"open", "count">>
  BY <1>2, Tail(<<"open", "count">>) = <<"count">>
<1>3. CASE p = <<"uncache", "close", "deactivate", "delete">>
  BY <1>3,
     Tail(<<"uncache", "close", "deactivate", "delete">>) = <<"close", "deactivate", "delete">>
<1>4. CASE p = <<"close", "deactivate", "delete">>
  BY <1>4, Tail(<<"close", "deactivate", "delete">>) = <<"deactivate", "delete">>
<1>5. CASE p = <<"stop", "closed", "deactivate", "delete">>
  BY <1>5,
     Tail(<<"stop", "closed", "deactivate", "delete">>) = <<"closed", "deactivate", "delete">>
<1>6. CASE p = <<"stopped", "closed", "deactivate", "delete">>
  BY <1>6,
     Tail(<<"stopped", "closed", "deactivate", "delete">>) = <<"closed", "deactivate", "delete">>
<1>7. CASE p = <<"closed", "deactivate", "delete">>
  BY <1>7, Tail(<<"closed", "deactivate", "delete">>) = <<"deactivate", "delete">>
<1>8. CASE p = <<"deactivate", "delete">>
  BY <1>8, Tail(<<"deactivate", "delete">>) = <<"delete">>
<1>9. CASE p = <<"rewrite", "written">>
  BY <1>9, Tail(<<"rewrite", "written">>) = <<"written">>
<1> QED
  BY <1>1, <1>2, <1>3, <1>4, <1>5, <1>6, <1>7, <1>8, <1>9

(***************************************************************************)
(* The same of the restart thread: a walk that stops a stream closes it,   *)
(* one that starts a stream takes the list's mutex again.                  *)
(***************************************************************************)
LEMMA SsrOrder ==
  ASSUME NEW p \in SsrTodo, p # <<>>
  PROVE  /\ Head(p) \in {"relock", "down", "downExit", "close", "stop", "stopped", "closed",
                         "up", "upExit", "open", "unlock", "start", "started", "repause", "pause"}
         /\ Second(p) \in SsrFollows(Head(p))
         /\ Tail(p) \in SsrTodo /\ <<>> \o Tail(p) = Tail(p)
         /\ Head(p) \in {"stop", "stopped"} /\ Second(p) = "relock" => Second(Tail(p)) = "close"
         /\ Head(p) \in {"start", "started"} => Second(Tail(p)) \in {"upExit", "repause"}
<1> USE DEF SsrTodo, DownTodo, StuckTodo, UpTodo, First, Second, SsrFollows
<1>1. CASE \E x \in {"relock", "down", "downExit", "up", "upExit"} : p = <<x>>
  <2> PICK x \in {"relock", "down", "downExit", "up", "upExit"} : p = <<x>>
    BY <1>1
  <2>1. Head(p) = x /\ Tail(p) = <<>>
    OBVIOUS
  <2> QED
    BY <2>1
<1>2. CASE p = <<"close", "downExit">>
  BY <1>2, Tail(<<"close", "downExit">>) = <<"downExit">>
<1>3. CASE p = <<"stop", "relock", "close", "downExit">>
  BY <1>3, Tail(<<"stop", "relock", "close", "downExit">>) = <<"relock", "close", "downExit">>
<1>4. CASE p = <<"stopped", "relock", "close", "downExit">>
  BY <1>4, Tail(<<"stopped", "relock", "close", "downExit">>) = <<"relock", "close", "downExit">>
<1>5. CASE p = <<"relock", "close", "downExit">>
  BY <1>5, Tail(<<"relock", "close", "downExit">>) = <<"close", "downExit">>
<1>6. CASE p = <<"stop", "closed", "downExit">>
  BY <1>6, Tail(<<"stop", "closed", "downExit">>) = <<"closed", "downExit">>
<1>7. CASE p = <<"stopped", "closed", "downExit">>
  BY <1>7, Tail(<<"stopped", "closed", "downExit">>) = <<"closed", "downExit">>
<1>8. CASE p = <<"closed", "downExit">>
  BY <1>8, Tail(<<"closed", "downExit">>) = <<"downExit">>
<1>9. CASE p = <<"open", "upExit">>
  BY <1>9, Tail(<<"open", "upExit">>) = <<"upExit">>
<1>10. CASE p = <<"open", "unlock", "start", "relock", "upExit">>
  BY <1>10,
     Tail(<<"open", "unlock", "start", "relock", "upExit">>) =
         <<"unlock", "start", "relock", "upExit">>
<1>11. CASE p = <<"unlock", "start", "relock", "upExit">>
  BY <1>11, Tail(<<"unlock", "start", "relock", "upExit">>) = <<"start", "relock", "upExit">>
<1>12. CASE p = <<"start", "relock", "upExit">>
  BY <1>12, Tail(<<"start", "relock", "upExit">>) = <<"relock", "upExit">>
<1>13. CASE p = <<"started", "relock", "upExit">>
  BY <1>13, Tail(<<"started", "relock", "upExit">>) = <<"relock", "upExit">>
<1>14. CASE p = <<"relock", "upExit">>
  BY <1>14, Tail(<<"relock", "upExit">>) = <<"upExit">>
<1>15. CASE p = <<"open", "unlock", "start", "relock", "repause", "upExit">>
  BY <1>15,
     Tail(<<"open", "unlock", "start", "relock", "repause", "upExit">>) =
         <<"unlock", "start", "relock", "repause", "upExit">>
<1>16. CASE p = <<"unlock", "start", "relock", "repause", "upExit">>
  BY <1>16,
     Tail(<<"unlock", "start", "relock", "repause", "upExit">>) =
         <<"start", "relock", "repause", "upExit">>
<1>17. CASE p = <<"start", "relock", "repause", "upExit">>
  BY <1>17, Tail(<<"start", "relock", "repause", "upExit">>) = <<"relock", "repause", "upExit">>
<1>18. CASE p = <<"started", "relock", "repause", "upExit">>
  BY <1>18, Tail(<<"started", "relock", "repause", "upExit">>) = <<"relock", "repause", "upExit">>
<1>19. CASE p = <<"relock", "repause", "upExit">>
  BY <1>19, Tail(<<"relock", "repause", "upExit">>) = <<"repause", "upExit">>
<1>20. CASE p = <<"repause", "upExit">>
  BY <1>20, Tail(<<"repause", "upExit">>) = <<"upExit">>
<1>21. CASE p = <<"pause", "upExit">>
  BY <1>21, Tail(<<"pause", "upExit">>) = <<"upExit">>
<1> QED
  BY <1>1, <1>2, <1>3, <1>4, <1>5, <1>6, <1>7, <1>8, <1>9, <1>10, <1>11, <1>12, <1>13, <1>14,
     <1>15, <1>16, <1>17, <1>18, <1>19, <1>20, <1>21

(***************************************************************************)
(* What a client's list of sections becomes when its first one has run.    *)
(***************************************************************************)
LEMMA ClientThen ==
  ASSUME NEW p \in ClientTodo, p # <<>>, NEW more,
         \/ more = <<>>
         \/ Head(p) = "close" /\ more = <<"stop", "closed">>
         \/ Head(p) = "stop" /\ more = <<"stopped">>
         \/ Head(p) = "start" /\ more = <<"started">>
         \/ Head(p) = "write" /\ more = <<"rewrite", "written">>
  PROVE  /\ more \o Tail(p) \in ClientTodo
         /\ more = <<>> => First(more \o Tail(p)) = Second(p)
         /\ more # <<>> => First(more \o Tail(p)) = Head(more)
         /\ more = <<"stop", "closed">> => Second(more \o Tail(p)) = "closed"
         /\ more = <<"stopped">> => Second(more \o Tail(p)) = Second(p)
<1>1. CASE more = <<>>
  <2>1. Tail(p) \in ClientTodo /\ <<>> \o Tail(p) = Tail(p)
    BY ClientOrder
  <2> QED
    BY <1>1, <2>1 DEF Second
<1>2. CASE p = <<"close", "deactivate", "delete">> /\ more = <<"stop", "closed">>
  <2>1. Tail(p) = <<"deactivate", "delete">>
    BY <1>2,
       Tail(<<"close", "deactivate", "delete">>) = <<"deactivate", "delete">>
  <2>2. more \o Tail(p) = <<"stop", "closed", "deactivate", "delete">>
    <3>1. <<"stop", "closed">> \o <<"deactivate", "delete">> =
              <<"stop", "closed", "deactivate", "delete">>
      BY JoinedPair
    <3> QED
      BY <1>2, <2>1, <3>1
  <2>3. more \o Tail(p) \in ClientTodo
    BY <2>2 DEF ClientTodo, OverlapTodo, CloseTodo
  <2>4. /\ First(<<"stop", "closed", "deactivate", "delete">>) = "stop"
        /\ Second(<<"stop", "closed", "deactivate", "delete">>) = "closed"
        /\ Second(<<"close", "deactivate", "delete">>) = "deactivate"
        /\ Tail(<<"stop", "closed", "deactivate", "delete">>) =
               <<"closed", "deactivate", "delete">>
    BY DEF First, Second
  <2>5. First(more \o Tail(p)) = "stop" /\ Second(more \o Tail(p)) = "closed"
    BY <2>2, <2>4
  <2>6. Head(p) = "close" /\ Head(more) = "stop" /\ more \notin {<<>>, <<"stopped">>,
            <<"started">>}
    BY <1>2
  <2> QED
    BY <2>3, <2>5, <2>6
<1>3. CASE p = <<"stop">> /\ more = <<"stopped">>
  <2>1. Tail(p) = <<>>
    BY <1>3, Tail(<<"stop">>) = <<>>
  <2>2. more \o Tail(p) = <<"stopped">>
    BY <1>3, <2>1, <<"stopped">> \o <<>> = <<"stopped">>
  <2>3. more \o Tail(p) \in ClientTodo
    BY <2>2 DEF ClientTodo, OverlapTodo, CloseTodo
  <2>4. /\ First(<<"stopped">>) = "stopped"
        /\ Second(<<"stopped">>) = "none"
        /\ Second(<<"stop">>) = "none"
        /\ Tail(<<"stopped">>) = <<>>
    BY DEF First, Second
  <2>5. First(more \o Tail(p)) = "stopped" /\ Second(more \o Tail(p)) = "none"
    BY <2>2, <2>4
  <2>6. Second(p) = "none" /\ Tail(more \o Tail(p)) = Tail(p)
    BY <1>3, <2>1, <2>2, <2>4
  <2>7. Head(p) = "stop" /\ Head(more) = "stopped" /\ more \notin {<<>>, <<"stop", "closed">>,
            <<"started">>}
    BY <1>3
  <2> QED
    BY <2>3, <2>5, <2>6, <2>7
<1>4. CASE p = <<"stop", "closed", "deactivate", "delete">> /\ more = <<"stopped">>
  <2>1. Tail(p) = <<"closed", "deactivate", "delete">>
    BY <1>4,
       Tail(<<"stop", "closed", "deactivate", "delete">>) = <<"closed", "deactivate", "delete">>
  <2>2. more \o Tail(p) = <<"stopped", "closed", "deactivate", "delete">>
    BY <1>4, <2>1, Joined4
  <2>3. more \o Tail(p) \in ClientTodo
    BY <2>2 DEF ClientTodo, OverlapTodo, CloseTodo
  <2>4. /\ First(<<"stopped", "closed", "deactivate", "delete">>) = "stopped"
        /\ Second(<<"stopped", "closed", "deactivate", "delete">>) = "closed"
        /\ Second(<<"stop", "closed", "deactivate", "delete">>) = "closed"
        /\ Tail(<<"stopped", "closed", "deactivate", "delete">>) =
               <<"closed", "deactivate", "delete">>
    BY DEF First, Second
  <2>5. First(more \o Tail(p)) = "stopped" /\ Second(more \o Tail(p)) = "closed"
    BY <2>2, <2>4
  <2>6. Second(p) = "closed" /\ Tail(more \o Tail(p)) = Tail(p)
    BY <1>4, <2>1, <2>2, <2>4
  <2>7. Head(p) = "stop" /\ Head(more) = "stopped" /\ more \notin {<<>>, <<"stop", "closed">>,
            <<"started">>}
    BY <1>4
  <2> QED
    BY <2>3, <2>5, <2>6, <2>7
<1>5. CASE p = <<"start">> /\ more = <<"started">>
  <2>1. Tail(p) = <<>>
    BY <1>5, Tail(<<"start">>) = <<>>
  <2>2. more \o Tail(p) = <<"started">>
    BY <1>5, <2>1, <<"started">> \o <<>> = <<"started">>
  <2>3. more \o Tail(p) \in ClientTodo
    BY <2>2 DEF ClientTodo, OverlapTodo, CloseTodo
  <2>4. /\ First(<<"started">>) = "started"
        /\ Second(<<"started">>) = "none"
        /\ Second(<<"start">>) = "none"
        /\ Tail(<<"started">>) = <<>>
    BY DEF First, Second
  <2>5. First(more \o Tail(p)) = "started" /\ Second(more \o Tail(p)) = "none"
    BY <2>2, <2>4
  <2>6. Second(p) = "none" /\ Tail(more \o Tail(p)) = Tail(p)
    BY <1>5, <2>1, <2>2, <2>4
  <2>7. Head(p) = "start" /\ Head(more) = "started" /\ more \notin {<<>>, <<"stop", "closed">>,
            <<"stopped">>}
    BY <1>5
  <2> QED
    BY <2>3, <2>5, <2>6, <2>7
<1>6. CASE p = <<"write">> /\ more = <<"rewrite", "written">>
  <2>1. Tail(p) = <<>>
    BY <1>6, Tail(<<"write">>) = <<>>
  <2>2. more \o Tail(p) = <<"rewrite", "written">>
    BY <1>6, <2>1, <<"rewrite", "written">> \o <<>> = <<"rewrite", "written">>
  <2>3. more \o Tail(p) \in ClientTodo
    BY <2>2 DEF ClientTodo, OverlapTodo, CloseTodo
  <2>4. /\ First(<<"rewrite", "written">>) = "rewrite"
        /\ Second(<<"rewrite", "written">>) = "written"
        /\ Second(<<"write">>) = "none"
        /\ Tail(<<"rewrite", "written">>) = <<"written">>
    BY DEF First, Second
  <2>5. First(more \o Tail(p)) = "rewrite" /\ Second(more \o Tail(p)) = "written"
    BY <2>2, <2>4
  <2>6. Head(p) = "write" /\ Head(more) = "rewrite" /\ more \notin {<<>>, <<"stop", "closed">>,
            <<"stopped">>, <<"started">>}
    BY <1>6
  <2> QED
    BY <2>3, <2>5, <2>6
<1>7. Head(p) = "close" => p = <<"close", "deactivate", "delete">>
  BY DEF ClientTodo, OverlapTodo, CloseTodo
<1>8. Head(p) = "stop" => p \in {<<"stop">>, <<"stop", "closed", "deactivate", "delete">>}
  BY DEF ClientTodo, OverlapTodo, CloseTodo
<1>9. (Head(p) = "start" => p = <<"start">>) /\ (Head(p) = "write" => p = <<"write">>)
  BY DEF ClientTodo, OverlapTodo, CloseTodo
<1> QED
  BY <1>1, <1>2, <1>3, <1>4, <1>5, <1>6, <1>7, <1>8, <1>9

(***************************************************************************)
(* And the restart thread's.                                               *)
(***************************************************************************)
WalkFor(a) ==
  IF a = "down"
  THEN {<<"downExit">>, <<"close", "downExit">>, <<"stop", "relock", "close", "downExit">>}
  ELSE {<<"upExit">>, <<"open", "upExit">>, <<"open", "unlock", "start", "relock", "upExit">>,
        <<"open", "unlock", "start", "relock", "repause", "upExit">>}

(***************************************************************************)
(* The restart thread's list; a visit that begins is all that is on it.    *)
(***************************************************************************)
LEMMA SsrThen ==
  ASSUME NEW p \in SsrTodo, p # <<>>, NEW more,
         \/ more = <<>>
         \/ Head(p) \in {"down", "up"} /\ more \in WalkFor(Head(p))
         \/ Head(p) = "close" /\ more = <<"stop", "closed">>
         \/ Head(p) = "stop" /\ more = <<"stopped">>
         \/ Head(p) = "start" /\ more = <<"started">>
         \/ Head(p) = "repause" /\ more = <<"pause">>
  PROVE  /\ more \o Tail(p) \in SsrTodo
         /\ more = <<>> => First(more \o Tail(p)) = Second(p) /\ more \o Tail(p) = Tail(p)
         /\ more # <<>> => First(more \o Tail(p)) = Head(more)
         /\ more \in {<<"stopped">>, <<"started">>} => Tail(more \o Tail(p)) = Tail(p)
         /\ more = <<"stop", "closed">> => Second(more \o Tail(p)) = "closed"
         /\ Head(p) \in {"down", "up"} => more = <<>> \/ more \o Tail(p) = more
<1>1. CASE more = <<>>
  <2>1. Tail(p) \in SsrTodo /\ <<>> \o Tail(p) = Tail(p)
    BY SsrOrder
  <2>2. more \o Tail(p) = Tail(p)
    BY <1>1, <2>1
  <2>3. First(more \o Tail(p)) = Second(p)
    BY <2>2 DEF Second
  <2> QED
    BY <1>1, <2>1, <2>2, <2>3
<1>2. CASE Head(p) \in {"down", "up"} /\ more \in WalkFor(Head(p))
  <2>1. p = <<"down">> \/ p = <<"up">>
    BY <1>2 DEF SsrTodo, DownTodo, StuckTodo, UpTodo
  <2>2. Tail(p) = <<>> /\ more \o <<>> = more /\ more \in SsrTodo /\ more # <<>>
    <3>1. Tail(p) = <<>>
      BY <2>1, Tail(<<"down">>) = <<>>, Tail(<<"up">>) = <<>>
    <3>2. more \o <<>> = more
      <4>1. <<"downExit">> \o <<>> = <<"downExit">>
        OBVIOUS
      <4>2. <<"close", "downExit">> \o <<>> = <<"close", "downExit">>
        OBVIOUS
      <4>3. <<"stop", "relock", "close", "downExit">> \o <<>> =
                <<"stop", "relock", "close", "downExit">>
        OBVIOUS
      <4>4. <<"upExit">> \o <<>> = <<"upExit">>
        OBVIOUS
      <4>5. <<"open", "upExit">> \o <<>> = <<"open", "upExit">>
        OBVIOUS
      <4>6. <<"open", "unlock", "start", "relock", "upExit">> \o <<>> =
                <<"open", "unlock", "start", "relock", "upExit">>
        OBVIOUS
      <4>7. <<"open", "unlock", "start", "relock", "repause", "upExit">> \o <<>> =
                <<"open", "unlock", "start", "relock", "repause", "upExit">>
        OBVIOUS
      <4> QED
        BY <1>2, <2>1, <4>1, <4>2, <4>3, <4>4, <4>5, <4>6, <4>7 DEF WalkFor
    <3>3. more \in SsrTodo /\ more # <<>>
      BY <1>2, <2>1 DEF WalkFor, SsrTodo, DownTodo, StuckTodo, UpTodo
    <3> QED
      BY <3>1, <3>2, <3>3
  <2>3. more \notin {<<"stopped">>, <<"started">>, <<"stop", "closed">>}
    BY <1>2, <2>1 DEF WalkFor
  <2>4. more \o Tail(p) = more
    BY <2>2
  <2>5. First(more \o Tail(p)) = Head(more)
    BY <2>4, <2>2 DEF First
  <2> QED
    BY <1>2, <2>2, <2>3, <2>4, <2>5
<1>3. CASE p = <<"close", "downExit">> /\ more = <<"stop", "closed">>
  <2>1. Tail(p) = <<"downExit">>
    BY <1>3, Tail(<<"close", "downExit">>) = <<"downExit">>
  <2>2. more \o Tail(p) = <<"stop", "closed", "downExit">>
    <3>1. <<"stop", "closed">> \o <<"downExit">> = <<"stop", "closed", "downExit">>
      BY JoinedPair
    <3> QED
      BY <1>3, <2>1, <3>1
  <2>3. more \o Tail(p) \in SsrTodo
    BY <2>2 DEF SsrTodo, DownTodo, StuckTodo, UpTodo
  <2>4. /\ First(<<"stop", "closed", "downExit">>) = "stop"
        /\ Second(<<"stop", "closed", "downExit">>) = "closed"
        /\ Second(<<"close", "downExit">>) = "downExit"
        /\ Tail(<<"stop", "closed", "downExit">>) = <<"closed", "downExit">>
    BY DEF First, Second
  <2>5. First(more \o Tail(p)) = "stop" /\ Second(more \o Tail(p)) = "closed"
    BY <2>2, <2>4
  <2>6. Head(p) = "close" /\ Head(more) = "stop" /\ more \notin {<<>>, <<"stopped">>,
            <<"started">>}
    BY <1>3
  <2> QED
    BY <2>3, <2>5, <2>6
<1>4. CASE p = <<"stop", "relock", "close", "downExit">> /\ more = <<"stopped">>
  <2>1. Tail(p) = <<"relock", "close", "downExit">>
    BY <1>4,
       Tail(<<"stop", "relock", "close", "downExit">>) = <<"relock", "close", "downExit">>
  <2>2. more \o Tail(p) = <<"stopped", "relock", "close", "downExit">>
    BY <1>4, <2>1, Joined4
  <2>3. more \o Tail(p) \in SsrTodo
    BY <2>2 DEF SsrTodo, DownTodo, StuckTodo, UpTodo
  <2>4. /\ First(<<"stopped", "relock", "close", "downExit">>) = "stopped"
        /\ Second(<<"stopped", "relock", "close", "downExit">>) = "relock"
        /\ Second(<<"stop", "relock", "close", "downExit">>) = "relock"
        /\ Tail(<<"stopped", "relock", "close", "downExit">>) = <<"relock", "close", "downExit">>
    BY DEF First, Second
  <2>5. First(more \o Tail(p)) = "stopped" /\ Second(more \o Tail(p)) = "relock"
    BY <2>2, <2>4
  <2>6. Second(p) = "relock" /\ Tail(more \o Tail(p)) = Tail(p)
    BY <1>4, <2>1, <2>2, <2>4
  <2>7. Head(p) = "stop" /\ Head(more) = "stopped" /\ more \notin {<<>>, <<"stop", "closed">>,
            <<"started">>}
    BY <1>4
  <2> QED
    BY <2>3, <2>5, <2>6, <2>7
<1>5. CASE p = <<"stop", "closed", "downExit">> /\ more = <<"stopped">>
  <2>1. Tail(p) = <<"closed", "downExit">>
    BY <1>5,
       Tail(<<"stop", "closed", "downExit">>) = <<"closed", "downExit">>
  <2>2. more \o Tail(p) = <<"stopped", "closed", "downExit">>
    BY <1>5, <2>1, Joined3
  <2>3. more \o Tail(p) \in SsrTodo
    BY <2>2 DEF SsrTodo, DownTodo, StuckTodo, UpTodo
  <2>4. /\ First(<<"stopped", "closed", "downExit">>) = "stopped"
        /\ Second(<<"stopped", "closed", "downExit">>) = "closed"
        /\ Second(<<"stop", "closed", "downExit">>) = "closed"
        /\ Tail(<<"stopped", "closed", "downExit">>) = <<"closed", "downExit">>
    BY DEF First, Second
  <2>5. First(more \o Tail(p)) = "stopped" /\ Second(more \o Tail(p)) = "closed"
    BY <2>2, <2>4
  <2>6. Second(p) = "closed" /\ Tail(more \o Tail(p)) = Tail(p)
    BY <1>5, <2>1, <2>2, <2>4
  <2>7. Head(p) = "stop" /\ Head(more) = "stopped" /\ more \notin {<<>>, <<"stop", "closed">>,
            <<"started">>}
    BY <1>5
  <2> QED
    BY <2>3, <2>5, <2>6, <2>7
<1>6. CASE p = <<"start", "relock", "upExit">> /\ more = <<"started">>
  <2>1. Tail(p) = <<"relock", "upExit">>
    BY <1>6,
       Tail(<<"start", "relock", "upExit">>) = <<"relock", "upExit">>
  <2>2. more \o Tail(p) = <<"started", "relock", "upExit">>
    BY <1>6, <2>1, Joined3
  <2>3. more \o Tail(p) \in SsrTodo
    BY <2>2 DEF SsrTodo, DownTodo, StuckTodo, UpTodo
  <2>4. /\ First(<<"started", "relock", "upExit">>) = "started"
        /\ Second(<<"started", "relock", "upExit">>) = "relock"
        /\ Second(<<"start", "relock", "upExit">>) = "relock"
        /\ Tail(<<"started", "relock", "upExit">>) = <<"relock", "upExit">>
    BY DEF First, Second
  <2>5. First(more \o Tail(p)) = "started" /\ Second(more \o Tail(p)) = "relock"
    BY <2>2, <2>4
  <2>6. Second(p) = "relock" /\ Tail(more \o Tail(p)) = Tail(p)
    BY <1>6, <2>1, <2>2, <2>4
  <2>7. Head(p) = "start" /\ Head(more) = "started" /\ more \notin {<<>>, <<"stop", "closed">>,
            <<"stopped">>}
    BY <1>6
  <2> QED
    BY <2>3, <2>5, <2>6, <2>7
<1>7. CASE p = <<"start", "relock", "repause", "upExit">> /\ more = <<"started">>
  <2>1. Tail(p) = <<"relock", "repause", "upExit">>
    BY <1>7,
       Tail(<<"start", "relock", "repause", "upExit">>) = <<"relock", "repause", "upExit">>
  <2>2. more \o Tail(p) = <<"started", "relock", "repause", "upExit">>
    BY <1>7, <2>1, Joined4
  <2>3. more \o Tail(p) \in SsrTodo
    BY <2>2 DEF SsrTodo, DownTodo, StuckTodo, UpTodo
  <2>4. /\ First(<<"started", "relock", "repause", "upExit">>) = "started"
        /\ Second(<<"started", "relock", "repause", "upExit">>) = "relock"
        /\ Second(<<"start", "relock", "repause", "upExit">>) = "relock"
        /\ Tail(<<"started", "relock", "repause", "upExit">>) = <<"relock", "repause", "upExit">>
    BY DEF First, Second
  <2>5. First(more \o Tail(p)) = "started" /\ Second(more \o Tail(p)) = "relock"
    BY <2>2, <2>4
  <2>6. Second(p) = "relock" /\ Tail(more \o Tail(p)) = Tail(p)
    BY <1>7, <2>1, <2>2, <2>4
  <2>7. Head(p) = "start" /\ Head(more) = "started" /\ more \notin {<<>>, <<"stop", "closed">>,
            <<"stopped">>}
    BY <1>7
  <2> QED
    BY <2>3, <2>5, <2>6, <2>7
<1>8. CASE p = <<"repause", "upExit">> /\ more = <<"pause">>
  <2>1. Tail(p) = <<"upExit">>
    BY <1>8, Tail(<<"repause", "upExit">>) = <<"upExit">>
  <2>2. more \o Tail(p) = <<"pause", "upExit">>
    BY <1>8, <2>1, Joined2
  <2>3. more \o Tail(p) \in SsrTodo
    BY <2>2 DEF SsrTodo, DownTodo, StuckTodo, UpTodo
  <2>4. /\ First(<<"pause", "upExit">>) = "pause"
        /\ Second(<<"pause", "upExit">>) = "upExit"
        /\ Second(<<"repause", "upExit">>) = "upExit"
        /\ Tail(<<"pause", "upExit">>) = <<"upExit">>
    BY DEF First, Second
  <2>5. First(more \o Tail(p)) = "pause" /\ Second(more \o Tail(p)) = "upExit"
    BY <2>2, <2>4
  <2>6. Second(p) = "upExit" /\ Tail(more \o Tail(p)) = Tail(p)
    BY <1>8, <2>1, <2>2, <2>4
  <2>7. Head(p) = "repause" /\ Head(more) = "pause" /\ more \notin {<<>>, <<"stop", "closed">>,
            <<"stopped">>, <<"started">>}
    BY <1>8
  <2> QED
    BY <2>3, <2>5, <2>6, <2>7
<1>9. Head(p) = "close" => p = <<"close", "downExit">>
  BY DEF SsrTodo, DownTodo, StuckTodo, UpTodo
<1>10. Head(p) = "stop" => p \in {<<"stop", "relock", "close", "downExit">>,
                                  <<"stop", "closed", "downExit">>}
  BY DEF SsrTodo, DownTodo, StuckTodo, UpTodo
<1>11. Head(p) = "start" => p \in {<<"start", "relock", "upExit">>,
                                   <<"start", "relock", "repause", "upExit">>}
  BY DEF SsrTodo, DownTodo, StuckTodo, UpTodo
<1>12. Head(p) = "repause" => p = <<"repause", "upExit">>
  BY DEF SsrTodo, DownTodo, StuckTodo, UpTodo
<1> QED
  BY <1>1, <1>2, <1>3, <1>4, <1>5, <1>6, <1>7, <1>8, <1>9, <1>10, <1>11, <1>12

------------------------------------------------------------------------------
(***************************************************************************)
(* The types of the data, of the threads' plans and of the lists of        *)
(* streams.                                                                *)
(***************************************************************************)
StreamStates == {"IDLE", "INIT", "STARTED", "PAUSED", "STOPPED"}

DataTypes ==
  /\ currentState \in [Streams -> StreamStates] /\ cachedState \in [Streams -> StreamStates]
  /\ isPaused \in [Streams -> BOOLEAN]
  /\ frontEnd \subseteq Streams /\ active_devices \subseteq Streams
  /\ graph \in [Streams -> {"none", "opened", "running", "dead"}]
  /\ deviceCount \in Nat /\ deviceStartStopCount \in Nat
  /\ cardState \in {"online", "offline"} /\ msgQ \in Seq({"online", "offline"})
  /\ activeMutex \in {Ssr, None}
  /\ told \in [Streams -> {"none", "open", "started", "paused", "closed"}]

PlanTypes ==
  /\ todo \in [Threads -> ClientTodo \cup SsrTodo]
  /\ on \in [Threads -> Streams \cup {None}]
  /\ \A t \in Clients : todo[t] \in ClientTodo
  /\ todo[Ssr] \in SsrTodo

ListTypes ==
  /\ listed \subseteq Streams /\ pending \subseteq listed /\ counted \subseteq listed
  /\ prevState \in {"online", "offline"}
  /\ overlapping \subseteq {t \in Clients : todo[t] # <<>>}
  /\ \A t \in Clients : todo[t] # <<>> => on[t] \in listed
  /\ todo[Ssr] \notin {<<>>, <<"relock">>} => on[Ssr] \in listed
  /\ \A s \in Streams : told[s] # "none" => s \in listed

TypeInv == DataTypes /\ PlanTypes /\ ListTypes

(***************************************************************************)
(* What a section may put in front of the sections that are left.          *)
(***************************************************************************)
MayPush(t, more) ==
  LET section == Head(todo[t]) IN
  \/ more = <<>>
  \/ section = "close" /\ more = <<"stop", "closed">>
  \/ section = "stop" /\ more = <<"stopped">>
  \/ section = "start" /\ more = <<"started">>
  \/ section = "write" /\ more = <<"rewrite", "written">>
  \/ section = "repause" /\ more = <<"pause">>
  \/ section \in {"down", "up"} /\ more \in WalkFor(section)

(***************************************************************************)
(* A thread goes on with a list of its own kind.                           *)
(***************************************************************************)
Moves(t, q) ==
  /\ Goes(t, q)
  /\ q \in ClientTodo \cup SsrTodo
  /\ t \in Clients => q \in ClientTodo
  /\ t = Ssr => q \in SsrTodo

(***************************************************************************)
(* A section that puts more in front of what is left,                      *)
(***************************************************************************)
LEMMA ThenMoves ==
  ASSUME PlanTypes, NEW t \in Threads, todo[t] # <<>>, NEW more, MayPush(t, more), Then(t, more)
  PROVE  Moves(t, more \o Tail(todo[t]))
<1>1. Goes(t, more \o Tail(todo[t]))
  BY DEF Then
<1>2. CASE t \in Clients
  <2>1. todo[t] \in ClientTodo /\ t # Ssr
    BY <1>2, ThreadsAssumption DEF PlanTypes
  <2>2. Head(todo[t]) \notin {"repause", "down", "up"}
    BY <2>1, ClientOrder
  <2>3. more \o Tail(todo[t]) \in ClientTodo
    BY <2>1, <2>2, ClientThen DEF MayPush
  <2> QED
    BY <1>1, <2>1, <2>3 DEF Moves
<1>3. CASE t = Ssr
  <2>1. todo[t] \in SsrTodo /\ t \notin Clients
    BY <1>3, ThreadsAssumption DEF PlanTypes
  <2>2. Head(todo[t]) # "write"
    BY <2>1, SsrOrder
  <2>3. more \o Tail(todo[t]) \in SsrTodo
    BY <2>1, <2>2, SsrThen DEF MayPush
  <2> QED
    BY <1>1, <2>1, <2>3 DEF Moves
<1> QED
  BY <1>2, <1>3 DEF Threads

(***************************************************************************)
(* and one that gives up, leave the thread a list of its own kind.         *)
(***************************************************************************)
LEMMA FailMoves ==
  ASSUME PlanTypes, NEW t \in Threads
  PROVE  /\ Abandon(t) => \E q : Moves(t, q)
         /\ StartFails(t) => \E q : Moves(t, q)
<1>1. /\ <<"delete">> \in ClientTodo /\ <<>> \in ClientTodo
      /\ <<"upExit">> \in SsrTodo /\ <<"relock", "upExit">> \in SsrTodo
  BY DEF ClientTodo, OverlapTodo, SsrTodo, UpTodo
<1>2. t \in Clients <=> t # Ssr
  BY ThreadsAssumption DEF Threads
<1>3. ASSUME Abandon(t) PROVE Moves(t, IF t = Ssr THEN <<"upExit">> ELSE <<"delete">>)
  BY <1>1, <1>2, <1>3 DEF Abandon, Moves
<1>4. ASSUME StartFails(t) PROVE Moves(t, IF t = Ssr THEN <<"relock", "upExit">> ELSE <<>>)
  BY <1>1, <1>2, <1>4 DEF StartFails, Moves
<1> QED
  BY <1>3, <1>4

(***************************************************************************)
(* So does every section, and it has something to run.                     *)
(***************************************************************************)
LEMMA SectionMoves ==
  ASSUME PlanTypes, NEW t \in Threads, Section(t)
  PROVE  todo[t] # <<>> /\ \E q : Moves(t, q)
<1>1. ASSUME todo[t] # <<>>, NEW more, MayPush(t, more), Then(t, more) PROVE \E q : Moves(t, q)
  BY <1>1, ThenMoves
<1>2. todo[t] # <<>>
  BY DEF Section, At, OpenSession, OpenSkipped, StartOffline, StartInput, StartOutput,
         StartSkipped, RegisterOutput, RegisterInput, Stop, Stopped, CloseSkipped, Close, Uncache,
         Pause, PauseFails, Resume, ResumeFails, Write, Rewrite, Written, Down, DownExit, Up,
         Repause, UpExit, Unlock, Relock
<1>3. ASSUME Then(t, <<>>) PROVE \E q : Moves(t, q)
  BY <1>1, <1>2, <1>3 DEF MayPush
<1>4. CASE OpenSession(t) \/ OpenSkipped(t)
  BY <1>2, <1>3, <1>4, FailMoves DEF OpenSession, OpenSkipped
<1>5. CASE StartOffline(t) \/ StartInput(t) \/ StartOutput(t) \/ StartSkipped(t)
  <2>1. ASSUME Then(t, <<"started">>), Head(todo[t]) = "start" PROVE \E q : Moves(t, q)
    BY <1>1, <1>2, <2>1 DEF MayPush
  <2> QED
    BY <1>2, <1>3, <1>5, <2>1, FailMoves DEF StartOffline, StartInput, StartOutput,
                                             StartSkipped, At
<1>6. CASE RegisterOutput(t) \/ RegisterInput(t)
  BY <1>2, <1>3, <1>6, FailMoves DEF RegisterOutput, RegisterInput
<1>7. CASE Stop(t)
  <2>1. ASSUME Then(t, <<"stopped">>), Head(todo[t]) = "stop" PROVE \E q : Moves(t, q)
    BY <1>1, <1>2, <2>1 DEF MayPush
  <2> QED
    BY <1>3, <1>7, <2>1 DEF Stop, At
<1>8. CASE CloseSkipped(t)
  <2>1. ASSUME Then(t, <<"stop", "closed">>), Head(todo[t]) = "close" PROVE \E q : Moves(t, q)
    BY <1>1, <1>2, <2>1 DEF MayPush
  <2> QED
    BY <1>3, <1>8, <2>1 DEF CloseSkipped, At
<1>9. CASE Write(t)
  <2>1. ASSUME Then(t, <<"rewrite", "written">>), Head(todo[t]) = "write" PROVE \E q : Moves(t, q)
    BY <1>1, <1>2, <2>1 DEF MayPush
  <2> QED
    BY <1>3, <1>9, <2>1 DEF Write, At
<1>10. CASE Repause(t)
  <2>1. ASSUME Then(t, <<"pause">>), Head(todo[t]) = "repause" PROVE \E q : Moves(t, q)
    BY <1>1, <1>2, <2>1 DEF MayPush
  <2> QED
    BY <1>3, <1>10, <2>1 DEF Repause, At
<1>11. CASE Down(t)
  <2>1. ASSUME NEW more \in WalkFor("down"), Then(t, more), Head(todo[t]) = "down"
        PROVE  \E q : Moves(t, q)
    BY <1>1, <1>2, <2>1 DEF MayPush
  <2> QED
    BY <1>11, <2>1 DEF Down, At, WalkFor
<1>12. CASE Up(t)
  <2>1. ASSUME NEW more \in WalkFor("up"), Then(t, more), Head(todo[t]) = "up"
        PROVE  \E q : Moves(t, q)
    BY <1>1, <1>2, <2>1 DEF MayPush
  <2> QED
    BY <1>12, <2>1 DEF Up, At, WalkFor
<1>13. CASE \/ Stopped(t) \/ Close(t) \/ Uncache(t) \/ Pause(t) \/ PauseFails(t) \/ Resume(t)
            \/ ResumeFails(t) \/ Rewrite(t) \/ Written(t) \/ DownExit(t) \/ UpExit(t)
            \/ Unlock(t) \/ Relock(t)
  BY <1>2, <1>3, <1>13 DEF Stopped, Close, Uncache, Pause, PauseFails, Resume, ResumeFails,
                           Rewrite,
     Written, DownExit, UpExit, Unlock, Relock
<1> QED
  BY <1>2, <1>4, <1>5, <1>6, <1>7, <1>8, <1>9, <1>10, <1>11, <1>12, <1>13 DEF Section

(***************************************************************************)
(* A thread that runs anything but the end of its walk is on a registered  *)
(* stream.                                                                 *)
(***************************************************************************)
LEMMA OnStream ==
  ASSUME TypeInv, NEW t \in Threads, todo[t] # <<>>, Head(todo[t]) # "relock"
  PROVE  on[t] \in listed /\ on[t] \in Streams
<1>1. Head(<<"relock">>) = "relock"
  OBVIOUS
<1> QED
  BY <1>1 DEF TypeInv, ListTypes, Threads

(***************************************************************************)
(* What a client is told is one of the answers.                            *)
(***************************************************************************)
LEMMA TellTypes ==
  ASSUME NEW t \in Threads, on[t] \in Streams, DataTypes,
         \E what \in {"open", "started", "paused"} : Tell(t, what)
  PROVE  told' \in [Streams -> {"none", "open", "started", "paused", "closed"}]
  BY DEF Tell, Set, DataTypes

(***************************************************************************)
(* What is reported is a message.                                          *)
(***************************************************************************)
LEMMA ReportTypes ==
  ASSUME DataTypes, Report
  PROVE  msgQ' \in Seq({"online", "offline"})
  BY DEF Report, DataTypes

(***************************************************************************)
(* A section keeps the types of the data.                                  *)
(***************************************************************************)
LEMMA SectionData ==
  ASSUME TypeInv, NEW t \in Threads, Section(t)
  PROVE  DataTypes'
<1>1. DataTypes
  BY DEF TypeInv
<1>3. CASE Relock(t) \/ Unlock(t)
  <2>1. activeMutex' \in {Ssr, None}
    <3>1. CASE Unlock(t)
      BY <3>1 DEF Unlock
    <3>2. CASE Relock(t)
      <4>1. todo[t] # <<>> /\ Head(todo[t]) = "relock"
        BY <3>2 DEF Relock, At
      <4>2. t \notin Clients
        BY <4>1, ClientOrder DEF TypeInv, PlanTypes
      <4> QED
        BY <3>2, <4>2 DEF Relock, Threads
    <3> QED
      BY <1>3, <3>1, <3>2
  <2> QED
    BY <1>1, <1>3, <2>1 DEF Relock, Unlock, DataTypes, stream, session, device, card
<1>4. ASSUME NEW section, At(t, section), section # "relock" PROVE on[t] \in Streams
  BY <1>4, OnStream DEF At
<1> USE DEF StreamStates
<1>5. CASE OpenSession(t)
  <2>1. on[t] \in Streams
    BY <1>4, <1>5 DEF OpenSession
  <2> QED
    BY <1>1, <1>5, <2>1 DEF OpenSession, DataTypes, card, Set
<1>6. CASE OpenSkipped(t) \/ CloseSkipped(t) \/ PauseFails(t) \/ ResumeFails(t) \/ Repause(t)
  BY <1>1, <1>6 DEF OpenSkipped, CloseSkipped, PauseFails, ResumeFails, Repause, DataTypes, stream,
     session, device, card
<1>7. CASE StartOffline(t)
  <2>1. on[t] \in Streams
    BY <1>4, <1>7 DEF StartOffline
  <2>2. told' \in [Streams -> {"none", "open", "started", "paused", "closed"}]
    BY <1>1, <1>7, <2>1, TellTypes DEF StartOffline
  <2> QED
    BY <1>1, <1>7, <2>1, <2>2 DEF StartOffline, DataTypes, session, device, card, Set
<1>8. CASE StartInput(t)
  BY <1>1, <1>8 DEF StartInput, DataTypes, stream, session, card
<1>9. CASE StartOutput(t)
  <2>1. on[t] \in Streams
    BY <1>4, <1>9 DEF StartOutput
  <2>2. told' \in [Streams -> {"none", "open", "started", "paused", "closed"}]
    <3>1. UNCHANGED told \/ \E what \in {"open", "started", "paused"} : Tell(t, what)
      BY <1>9 DEF StartOutput
    <3> QED
      BY <1>1, <2>1, <3>1, TellTypes DEF DataTypes
  <2>3. msgQ' \in Seq({"online", "offline"})
    <3>1. UNCHANGED msgQ \/ Report
      BY <1>9 DEF StartOutput
    <3> QED
      BY <1>1, <3>1, ReportTypes DEF DataTypes
  <2>4. /\ currentState' \in [Streams -> StreamStates]
        /\ cachedState' \in [Streams -> StreamStates]
    BY <1>1, <1>9, <2>1 DEF StartOutput, DataTypes, Set
  <2>5. graph' \in [Streams -> {"none", "opened", "running", "dead"}]
    BY <1>1, <1>9, <2>1 DEF StartOutput, DataTypes, Set
  <2>6. deviceStartStopCount' \in Nat
    BY <1>1, <1>9 DEF StartOutput, DataTypes
  <2> QED
    BY <1>1, <1>9, <2>2, <2>3, <2>4, <2>5, <2>6 DEF StartOutput, DataTypes
<1>10. CASE StartSkipped(t) \/ Stop(t)
  <2>1. on[t] \in Streams
    <3>1. CASE Stop(t)
      BY <1>4, <3>1 DEF Stop
    <3>2. CASE StartSkipped(t)
      BY <1>4, <3>2 DEF StartSkipped
    <3> QED
      BY <1>10, <3>1, <3>2
  <2>2. UNCHANGED told \/ \E what \in {"open", "started", "paused"} : Tell(t, what)
    BY <1>10 DEF StartSkipped, Stop
  <2>3. told' \in [Streams -> {"none", "open", "started", "paused", "closed"}]
    BY <1>1, <2>1, <2>2, TellTypes DEF DataTypes
  <2> QED
    BY <1>1, <1>10, <2>3 DEF StartSkipped, Stop, DataTypes, stream, session, device, card
<1>11. CASE RegisterOutput(t)
  <2>1. on[t] \in Streams
    BY <1>4, <1>11 DEF RegisterOutput
  <2> QED
    BY <1>1, <1>11, <2>1 DEF RegisterOutput, DataTypes, stream, session, card
<1>12. CASE RegisterInput(t)
  <2>1. on[t] \in Streams
    BY <1>4, <1>12 DEF RegisterInput
  <2>2. told' \in [Streams -> {"none", "open", "started", "paused", "closed"}]
    <3>1. UNCHANGED told \/ \E what \in {"open", "started", "paused"} : Tell(t, what)
      BY <1>12 DEF RegisterInput
    <3> QED
      BY <1>1, <2>1, <3>1, TellTypes DEF DataTypes
  <2>3. msgQ' \in Seq({"online", "offline"})
    <3>1. UNCHANGED msgQ \/ Report
      BY <1>12 DEF RegisterInput
    <3> QED
      BY <1>1, <3>1, ReportTypes DEF DataTypes
  <2>4. /\ currentState' \in [Streams -> StreamStates] /\ cachedState' \in
               [Streams -> StreamStates]
        /\ graph' \in [Streams -> {"none", "opened", "running", "dead"}]
        /\ deviceStartStopCount' \in Nat /\ active_devices' \subseteq Streams
    BY <1>1, <1>12, <2>1 DEF RegisterInput, DataTypes, Set, Less
  <2> QED
    BY <1>1, <1>12, <2>2, <2>3, <2>4 DEF RegisterInput, DataTypes
<1>13. CASE Stopped(t)
  <2>1. on[t] \in Streams
    BY <1>4, <1>13 DEF Stopped
  <2> QED
    BY <1>1, <1>13, <2>1 DEF Stopped, DataTypes, card, Set, Less
<1>14. CASE Close(t)
  <2>1. on[t] \in Streams
    <3>1. At(t, "closed") \/ At(t, "close")
      BY <1>14 DEF Close
    <3> QED
      BY <1>4, <3>1
  <2> QED
    BY <1>1, <1>14, <2>1 DEF Close, CloseSession, DataTypes, card, Set, Less
<1>15. CASE Uncache(t) \/ UpExit(t)
  <2>1. on[t] \in Streams
    <3>1. At(t, "uncache") \/ At(t, "upExit")
      BY <1>15 DEF Uncache, UpExit
    <3> QED
      BY <1>4, <3>1
  <2> QED
    BY <1>1, <1>15, <2>1 DEF Uncache, UpExit, DataTypes, session, device, card, Set
<1>16. CASE Pause(t)
  <2>1. on[t] \in Streams
    BY <1>4, <1>16 DEF Pause
  <2>2. told' \in [Streams -> {"none", "open", "started", "paused", "closed"}]
    BY <1>1, <1>16, <2>1, TellTypes DEF Pause
  <2> QED
    BY <1>1, <1>16, <2>1, <2>2 DEF Pause, DataTypes, session, device, card, Set
<1>17. CASE Resume(t)
  <2>1. on[t] \in Streams
    BY <1>4, <1>17 DEF Resume
  <2>2. told' \in [Streams -> {"none", "open", "started", "paused", "closed"}]
    BY <1>1, <1>17, <2>1, TellTypes DEF Resume
  <2>3. isPaused' \in [Streams -> BOOLEAN]
    <3>1. (isPaused[on[t]] /\ cardState = "offline") \in BOOLEAN
      OBVIOUS
    <3>2. isPaused' = [isPaused EXCEPT ![on[t]] = isPaused[on[t]] /\ cardState = "offline"]
      BY <1>17 DEF Resume, Set
    <3> QED
      BY <1>1, <3>1, <3>2 DEF DataTypes
  <2> QED
    BY <1>1, <1>17, <2>1, <2>2, <2>3 DEF Resume, DataTypes, session, device, card, Set
<1>18. CASE Write(t)
  <2>1. UNCHANGED msgQ \/ Report
    BY <1>18 DEF Write
  <2>2. msgQ' \in Seq({"online", "offline"})
    BY <1>1, <2>1, ReportTypes DEF DataTypes
  <2> QED
    BY <1>1, <1>18, <2>2 DEF Write, DataTypes, stream, session, device
<1>19. CASE Rewrite(t)
  <2>1. on[t] \in Streams
    BY <1>4, <1>19 DEF Rewrite
  <2> QED
    BY <1>1, <1>19, <2>1 DEF Rewrite, DataTypes, stream, session, card
<1>20. CASE Written(t) \/ DownExit(t)
  <2>1. on[t] \in Streams
    <3>1. At(t, "written") \/ At(t, "downExit")
      BY <1>20 DEF Written, DownExit
    <3> QED
      BY <1>4, <3>1
  <2> QED
    BY <1>1, <1>20, <2>1 DEF Written, DownExit, DataTypes, session, device, card, Set
<1>21. CASE Down(t)
  <2>1. on[t] \in Streams
    BY <1>4, <1>21 DEF Down
  <2> QED
    BY <1>1, <1>21, <2>1 DEF Down, DataTypes, session, device, card, Set
<1>22. CASE Up(t)
  BY <1>1, <1>22 DEF Up, DataTypes, stream, session, device, card
<1> QED
  BY <1>3, <1>5, <1>6, <1>7, <1>8, <1>9, <1>10, <1>11, <1>12, <1>13, <1>14, <1>15, <1>16, <1>17,
     <1>18, <1>19, <1>20, <1>21, <1>22 DEF Section

(***************************************************************************)
(* A thread's step changes its own plan and stream and nobody else's.      *)
(***************************************************************************)
LEMMA MovesPlan ==
  ASSUME PlanTypes, NEW t \in Threads, NEW q, Moves(t, q)
  PROVE  /\ PlanTypes'
         /\ todo' = [todo EXCEPT ![t] = q] /\ todo'[t] = q
         /\ \A u \in Threads \ {t} : todo'[u] = todo[u] /\ on'[u] = on[u]
         /\ on'[t] = IF q = <<>> THEN None ELSE on[t]
<1>1. Ssr \notin Clients /\ Ssr \in Threads /\ Clients \subseteq Threads
  BY ThreadsAssumption DEF Threads
<1>2. todo' = [todo EXCEPT ![t] = q] /\ on' = IF q = <<>> THEN [on EXCEPT ![t] = None] ELSE on
  BY DEF Moves, Goes
<1>3. todo' \in [Threads -> ClientTodo \cup SsrTodo]
  BY <1>2 DEF PlanTypes, Moves
<1>4. on' \in [Threads -> Streams \cup {None}]
  BY <1>2 DEF PlanTypes
<1>5. todo'[t] = q /\ \A u \in Threads \ {t} : todo'[u] = todo[u] /\ on'[u] = on[u]
  BY <1>2 DEF PlanTypes
<1>6. on'[t] = IF q = <<>> THEN None ELSE on[t]
  BY <1>2 DEF PlanTypes
<1>7. ASSUME NEW u \in Clients PROVE todo'[u] \in ClientTodo
  BY <1>1, <1>5 DEF PlanTypes, Moves
<1>8. todo'[Ssr] \in SsrTodo
  BY <1>1, <1>5 DEF PlanTypes, Moves
<1> QED
  BY <1>2, <1>3, <1>4, <1>5, <1>6, <1>7, <1>8 DEF PlanTypes

(***************************************************************************)
(* The section of a thread that has nothing but "relock" to do is the      *)
(* last.                                                                   *)
(***************************************************************************)
LEMMA RelockEnds ==
  ASSUME PlanTypes, NEW t \in Threads, todo[t] = <<"relock">>, Section(t)
  PROVE  todo'[t] = <<>>
<1>1. Head(<<"relock">>) = "relock" /\ Tail(<<"relock">>) = <<>> /\ <<>> \o <<>> = <<>>
  OBVIOUS
<1>2. Relock(t)
  BY <1>1 DEF Section, At, OpenSession, OpenSkipped, StartOffline, StartInput, StartOutput,
         StartSkipped, RegisterOutput, RegisterInput, Stop, Stopped, CloseSkipped, Close, Uncache,
         Pause, PauseFails, Resume, ResumeFails, Write, Rewrite, Written, Down, DownExit, Up,
         Repause, UpExit, Unlock, Relock
<1>3. todo' = [todo EXCEPT ![t] = <<>> \o Tail(todo[t])]
  BY <1>2 DEF Relock, Then, Goes
<1> QED
  BY <1>1, <1>3 DEF PlanTypes

(***************************************************************************)
(* A section tells the client of a registered stream.                      *)
(***************************************************************************)
LEMMA TellsOwn ==
  ASSUME TypeInv, NEW t \in Threads, Section(t)
  PROVE  \A s \in Streams : told'[s] # told[s] => s \in listed
<1>1. CASE UNCHANGED told
  BY <1>1
<1>2. CASE \E what \in {"open", "started", "paused"} : Tell(t, what) /\ ~At(t, "relock")
  <2>1. on[t] \in listed /\ on[t] \in Streams
    BY <1>2, SectionMoves, OnStream DEF At, TypeInv
  <2> QED
    BY <1>2, <2>1 DEF Tell, Set, TypeInv, DataTypes
<1>3. UNCHANGED told \/ \E what \in {"open", "started", "paused"} : Tell(t, what) /\
          ~At(t, "relock")
  BY DEF Section, At, OpenSession, OpenSkipped, StartOffline, StartInput, StartOutput,
         StartSkipped, RegisterOutput, RegisterInput, Stop, Stopped, CloseSkipped, Close, Uncache,
         Pause, PauseFails, Resume, ResumeFails, Write, Rewrite, Written, Down, DownExit, Up,
         Repause, UpExit, Unlock, Relock
<1> QED
  BY <1>1, <1>2, <1>3

(***************************************************************************)
(* The types survive a client's section,                                   *)
(***************************************************************************)
LEMMA ClientSectionTypes ==
  ASSUME TypeInv, NEW t \in Clients, Run(t), overlapping' = {u \in overlapping : todo'[u] # <<>>}
  PROVE  TypeInv'
<1>1. t \in Threads /\ t # Ssr /\ Ssr \in Threads /\ Clients \subseteq Threads
  BY ThreadsAssumption DEF Threads
<1>2. Section(t) /\ UNCHANGED <<listed, counted, prevState, pending>>
  BY DEF Run, walk
<1>3. DataTypes' /\ todo[t] # <<>>
  BY <1>1, <1>2, SectionData, SectionMoves DEF TypeInv
<1>4. PICK q : Moves(t, q)
  BY <1>1, <1>2, SectionMoves DEF TypeInv
<1>5. /\ PlanTypes' /\ todo'[t] = q
      /\ \A u \in Threads \ {t} : todo'[u] = todo[u] /\ on'[u] = on[u]
      /\ on'[t] = IF q = <<>> THEN None ELSE on[t]
  BY <1>1, <1>4, MovesPlan DEF TypeInv
<1>6. \A s \in Streams : told'[s] # told[s] => s \in listed
  BY <1>1, <1>2, TellsOwn
<1>7. ListTypes'
  BY <1>1, <1>2, <1>3, <1>5, <1>6 DEF TypeInv, ListTypes
<1> QED
  BY <1>3, <1>5, <1>7 DEF TypeInv

(***************************************************************************)
(* a section of the restart thread,                                        *)
(***************************************************************************)
LEMMA SsrSectionTypes ==
  ASSUME TypeInv, Run(Ssr), UNCHANGED overlapping
  PROVE  TypeInv'
<1>1. Ssr \in Threads /\ Ssr \notin Clients /\ Clients \subseteq Threads
  BY ThreadsAssumption DEF Threads
<1>2. Section(Ssr) /\ UNCHANGED <<listed, counted, prevState, pending>>
  BY DEF Run, walk
<1>3. DataTypes' /\ todo[Ssr] # <<>>
  BY <1>1, <1>2, SectionData, SectionMoves DEF TypeInv
<1>4. PICK q : Moves(Ssr, q)
  BY <1>1, <1>2, SectionMoves DEF TypeInv
<1>5. /\ PlanTypes' /\ todo'[Ssr] = q
      /\ \A u \in Threads \ {Ssr} : todo'[u] = todo[u] /\ on'[u] = on[u]
      /\ on'[Ssr] = IF q = <<>> THEN None ELSE on[Ssr]
  BY <1>1, <1>4, MovesPlan DEF TypeInv
<1>6. todo[Ssr] = <<"relock">> => q = <<>>
  BY <1>1, <1>2, <1>5, RelockEnds DEF TypeInv
<1>7. \A s \in Streams : told'[s] # told[s] => s \in listed
  BY <1>1, <1>2, TellsOwn
<1>8. ListTypes'
  BY <1>1, <1>2, <1>3, <1>5, <1>6, <1>7 DEF TypeInv, ListTypes
<1> QED
  BY <1>3, <1>5, <1>8 DEF TypeInv

(***************************************************************************)
(* the counting and the deletion of a stream's users,                      *)
(***************************************************************************)
LEMMA ClientOwnTypes ==
  ASSUME TypeInv, NEW t \in Clients, Count(t) \/ Deactivate(t) \/ Delete(t),
         overlapping' = {u \in overlapping : todo'[u] # <<>>}
  PROVE  TypeInv'
<1>1. t \in Threads /\ t # Ssr /\ Ssr \in Threads /\ Clients \subseteq Threads
  BY ThreadsAssumption DEF Threads
<1>2. todo[t] # <<>> /\ Then(t, <<>>) /\ Head(todo[t]) # "relock"
  BY DEF Count, Deactivate, Delete, At
<1>3. on[t] \in listed /\ on[t] \in Streams
  BY <1>1, <1>2, OnStream
<1>4. PICK q : Moves(t, q)
  BY <1>1, <1>2, ThenMoves DEF TypeInv, MayPush
<1>5. /\ PlanTypes' /\ todo'[t] = q
      /\ \A u \in Threads \ {t} : todo'[u] = todo[u] /\ on'[u] = on[u]
      /\ on'[t] = IF q = <<>> THEN None ELSE on[t]
  BY <1>1, <1>4, MovesPlan DEF TypeInv
<1>6. CASE Count(t)
  <2>1. DataTypes'
    <3>1. told' \in [Streams -> {"none", "open", "started", "paused", "closed"}]
      BY <1>1, <1>3, <1>6, TellTypes DEF Count, TypeInv
    <3> QED
      BY <1>6, <3>1 DEF Count, TypeInv, DataTypes, stream, session, device, card
  <2>2. \A s \in Streams : told'[s] # told[s] => s \in listed
    BY <1>3, <1>6 DEF Count, Tell, Set, TypeInv, DataTypes
  <2>3. ListTypes'
    BY <1>1, <1>2, <1>3, <1>5, <1>6, <2>2 DEF Count, TypeInv, ListTypes, walk
  <2> QED
    BY <1>5, <2>1, <2>3 DEF TypeInv
<1>7. CASE Deactivate(t)
  <2>1. DataTypes'
    BY <1>7 DEF Deactivate, TypeInv, DataTypes, stream, session, device, card
  <2>2. ListTypes'
    BY <1>1, <1>2, <1>3, <1>5, <1>7 DEF Deactivate, TypeInv, ListTypes, walk
  <2> QED
    BY <1>5, <2>1, <2>2 DEF TypeInv
<1>8. CASE Delete(t)
  <2>1. DataTypes'
    BY <1>3, <1>8 DEF Delete, TypeInv, DataTypes, session, device, card, Set, StreamStates
  <2>2. todo'[t] = <<>>
    <3>1. todo[t] = <<"delete">>
      BY <1>1, <1>8, <1>2 DEF Delete, At, TypeInv, PlanTypes, ClientTodo, OverlapTodo, CloseTodo
    <3>2. Tail(<<"delete">>) = <<>> /\ <<>> \o <<>> = <<>>
      OBVIOUS
    <3> QED
      BY <1>1, <1>2, <3>1, <3>2 DEF Then, Goes, TypeInv, PlanTypes
  <2>3. /\ \A u \in Threads \ {t} : todo[u] = <<>> \/ on[u] # on[t]
        /\ listed' = listed \ {on[t]} /\ counted' = counted \ {on[t]}
        /\ pending' = pending \ {on[t]} /\ prevState' = prevState
        /\ told' = Set(told, on[t], "none")
    BY <1>8 DEF Delete
  <2>4. /\ listed' \subseteq Streams /\ pending' \subseteq listed' /\ counted' \subseteq listed'
        /\ prevState' \in {"online", "offline"}
    BY <2>3 DEF TypeInv, ListTypes
  <2>5. \A s \in Streams : told'[s] # "none" => s \in listed'
    BY <1>3, <2>3 DEF TypeInv, ListTypes, DataTypes, Set
  <2>6. ListTypes'
    BY <1>1, <1>2, <1>3, <1>5, <2>2, <2>3, <2>4, <2>5 DEF TypeInv, ListTypes
  <2> QED
    BY <1>5, <2>1, <2>6 DEF TypeInv
<1> QED
  BY <1>6, <1>7, <1>8

(***************************************************************************)
(* a new call,                                                             *)
(***************************************************************************)
LEMMA CallTypes ==
  ASSUME TypeInv, NEW t \in Clients, NEW c \in Calls, NEW s \in Streams, Call(t, c, s)
  PROVE  TypeInv'
<1>1. t \in Threads /\ t # Ssr /\ Ssr \in Threads /\ Clients \subseteq Threads
  BY ThreadsAssumption DEF Threads
<1>2. Program(c) \in ClientTodo /\ Program(c) # <<>>
  BY DEF Program, Calls, ClientTodo, OverlapTodo, CloseTodo
<1>3. DataTypes'
  BY DEF Call, TypeInv, DataTypes, stream, session, device, card, Set
<1>4. todo' = [todo EXCEPT ![t] = Program(c)] /\ on' = [on EXCEPT ![t] = s]
  BY DEF Call
<1>5. /\ todo'[t] = Program(c) /\ on'[t] = s
      /\ \A u \in Threads \ {t} : todo'[u] = todo[u] /\ on'[u] = on[u]
  BY <1>1, <1>4 DEF TypeInv, PlanTypes
<1>6. PlanTypes'
  <2>1. todo' \in [Threads -> ClientTodo \cup SsrTodo]
    BY <1>1, <1>2, <1>4 DEF TypeInv, PlanTypes
  <2>2. on' \in [Threads -> Streams \cup {None}]
    BY <1>4 DEF TypeInv, PlanTypes
  <2>3. \A u \in Clients : todo'[u] \in ClientTodo
    BY <1>1, <1>2, <1>5 DEF TypeInv, PlanTypes
  <2>4. todo'[Ssr] \in SsrTodo
    BY <1>1, <1>5 DEF TypeInv, PlanTypes
  <2> QED
    BY <2>1, <2>2, <2>3, <2>4 DEF PlanTypes
<1>7. s \in listed'
  <2>1. CASE c = "open"
    BY <2>1 DEF Call
  <2>2. CASE c # "open"
    BY <2>2 DEF Call, Legal, Calls, TypeInv, ListTypes
  <2> QED
    BY <2>1, <2>2
<1>8. \A r \in Streams : told'[r] # "none" => r \in listed'
  BY DEF Call, Legal, Calls, TypeInv, ListTypes, DataTypes, Set
<1>9. ListTypes'
  BY <1>1, <1>2, <1>5, <1>7, <1>8 DEF Call, TypeInv, ListTypes
<1> QED
  BY <1>3, <1>6, <1>9 DEF TypeInv

(***************************************************************************)
(* the steps of the walk,                                                  *)
(***************************************************************************)
LEMMA WalkTypes ==
  ASSUME TypeInv, Take \/ EndWalk \/ \E s \in Streams : Visit(s)
  PROVE  TypeInv'
<1>1. Ssr \in Threads /\ Ssr \notin Clients /\ Clients \subseteq Threads
  BY ThreadsAssumption DEF Threads
<1>2. {<<>>, <<"relock">>, <<"down">>, <<"up">>} \subseteq SsrTodo
  BY DEF SsrTodo, DownTodo, UpTodo
<1>3. CASE Take
  <2>1. Head(msgQ) \in {"online", "offline"} /\ Tail(msgQ) \in Seq({"online", "offline"})
    BY <1>3 DEF Take, TypeInv, DataTypes
  <2>2. DataTypes'
    BY <1>3, <2>1 DEF Take, TypeInv, DataTypes, stream, session, device
  <2>3. /\ todo' \in [Threads -> ClientTodo \cup SsrTodo]
        /\ \A u \in Clients : todo'[u] = todo[u]
        /\ todo'[Ssr] \in {<<>>, <<"relock">>}
    BY <1>1, <1>2, <1>3 DEF Take, Rests, TypeInv, PlanTypes
  <2>4. PlanTypes'
    BY <1>2, <1>3, <2>3 DEF Take, TypeInv, PlanTypes
  <2>5. ListTypes'
    BY <1>1, <1>3, <2>1, <2>3 DEF Take, TypeInv, ListTypes
  <2> QED
    BY <2>2, <2>4, <2>5 DEF TypeInv
<1>4. CASE EndWalk
  BY <1>4 DEF EndWalk, TypeInv, DataTypes, PlanTypes, ListTypes, stream, session, device, card
<1>5. ASSUME NEW s \in Streams, Visit(s) PROVE TypeInv'
  <2>1. DataTypes'
    BY <1>5 DEF Visit, TypeInv, DataTypes, stream, session, device, card
  <2>2. /\ todo' \in [Threads -> ClientTodo \cup SsrTodo]
        /\ \A u \in Clients : todo'[u] = todo[u] /\ on'[u] = on[u]
        /\ todo'[Ssr] \in {<<>>, <<"down">>, <<"up">>}
        /\ todo'[Ssr] # <<>> => on'[Ssr] = s /\ s \in counted
    BY <1>1, <1>2, <1>5 DEF Visit, TypeInv, PlanTypes
  <2>3. on' \in [Threads -> Streams \cup {None}]
    BY <1>5 DEF Visit, TypeInv, PlanTypes
  <2>4. PlanTypes'
    BY <1>2, <2>2, <2>3 DEF TypeInv, PlanTypes
  <2>5. ListTypes'
    BY <1>1, <1>5, <2>2 DEF Visit, TypeInv, ListTypes
  <2> QED
    BY <2>1, <2>4, <2>5 DEF TypeInv
<1> QED
  BY <1>3, <1>4, <1>5

(***************************************************************************)
(* and what happens to the DSP.                                            *)
(***************************************************************************)
LEMMA DspTypes ==
  ASSUME TypeInv, DspDown \/ DspUp \/ Notice
  PROVE  TypeInv'
<1>1. DataTypes'
  <2>1. CASE DspDown
    BY <2>1 DEF DspDown, TypeInv, DataTypes, stream, device
  <2>2. CASE DspUp
    BY <2>2 DEF DspUp, TypeInv, DataTypes, stream, session, device
  <2>3. CASE Notice
    BY <2>3 DEF Notice, TypeInv, DataTypes, stream, session, device
  <2> QED
    BY <2>1, <2>2, <2>3
<1>2. PlanTypes' /\ ListTypes'
  BY DEF DspDown, DspUp, Notice, TypeInv, PlanTypes, ListTypes, walk, env
<1> QED
  BY <1>1, <1>2 DEF TypeInv

(***************************************************************************)
(* They hold at the start,                                                 *)
(***************************************************************************)
LEMMA InitTypes == ASSUME Init PROVE TypeInv
<1>1. <<>> \in ClientTodo /\ <<>> \in SsrTodo
  BY DEF ClientTodo, SsrTodo
<1>2. DataTypes
  BY DEF Init, InitPCM, DataTypes, StreamStates
<1>3. PlanTypes
  BY <1>1 DEF Init, InitPCM, PlanTypes, Threads
<1>4. ListTypes
  BY DEF Init, InitPCM, ListTypes, Threads
<1> QED
  BY <1>2, <1>3, <1>4 DEF TypeInv

(***************************************************************************)
(* and every step keeps them.                                              *)
(***************************************************************************)
LEMMA NextTypes == ASSUME TypeInv, [Next]_vars PROVE TypeInv'
<1>1. CASE UNCHANGED vars
  <2>1. DataTypes'
    BY <1>1 DEF vars, pcm, stream, session, device, card, TypeInv, DataTypes
  <2>2. UNCHANGED <<todo, on, told, listed, counted, prevState, pending, overlapping>>
    BY <1>1 DEF vars, pcm, walk
  <2>3. PlanTypes'
    BY <2>2 DEF TypeInv, PlanTypes
  <2>4. ListTypes'
    BY <2>2 DEF TypeInv, ListTypes
  <2> QED
    BY <2>1, <2>3, <2>4 DEF TypeInv
<1>2. ASSUME NEW t \in Clients, Client(t) PROVE TypeInv'
  <2>1. overlapping' = {u \in overlapping : todo'[u] # <<>>}
    BY <1>2 DEF Client
  <2>2. Run(t) \/ Count(t) \/ Deactivate(t) \/ Delete(t)
    BY <1>2 DEF Client
  <2> QED
    BY <2>1, <2>2, ClientSectionTypes, ClientOwnTypes
<1>3. CASE Walk
  <2>1. CASE Run(Ssr) /\ UNCHANGED overlapping
    BY <2>1, SsrSectionTypes
  <2>2. CASE Take \/ EndWalk \/ \E s \in Streams : Visit(s)
    BY <2>2, WalkTypes
  <2> QED
    BY <1>3, <2>1, <2>2 DEF Walk
<1> QED
  BY <1>1, <1>2, <1>3, CallTypes, DspTypes DEF Next

(***************************************************************************)
(* Every thread's plan is one the code can have, and all data has its      *)
(* type, whatever calls may overlap a restart.                             *)
(***************************************************************************)
THEOREM TypeInvariant == Spec => []TypeInv
<1>1. Init => TypeInv
  BY InitTypes
<1>2. TypeInv /\ [Next]_vars => TypeInv'
  BY NextTypes
<1> QED
  BY <1>1, <1>2, PTL DEF Spec

(***************************************************************************)
(* The type invariant that the runs check.                                 *)
(***************************************************************************)
THEOREM TypeCorrect == Spec => []TypeOK
<1>1. TypeInv => TypeOK
  BY DEF TypeInv, DataTypes, PlanTypes, ListTypes, StreamStates, TypeOK
<1> QED
  BY <1>1, TypeInvariant, PTL

------------------------------------------------------------------------------
(***************************************************************************)
(* What a thread runs and what it runs next, and which streams play.       *)
(***************************************************************************)
Pc(t) == First(todo[t])
Nx(t) == Second(todo[t])
Plays(s) == Is(s, {"STARTED", "PAUSED"})

(***************************************************************************)
(* The restart thread is on a stream; it is taking that stream down; a     *)
(* client is closing its stream.                                           *)
(***************************************************************************)
Visiting == Pc(Ssr) # "none" /\ ~(Pc(Ssr) = "relock" /\ Nx(Ssr) = "none")
GoingDown == \/ Pc(Ssr) \in {"down", "downExit", "close", "stop", "stopped"}
             \/ Pc(Ssr) = "relock" /\ Nx(Ssr) = "close"
Closing(t) == Pc(t) \in {"uncache", "close", "closed", "deactivate"} \/ Nx(t) = "closed"

(***************************************************************************)
(* Two clients are on different streams.                                   *)
(***************************************************************************)
Alone ==
  \A t, u \in Clients : t # u /\ Pc(t) # "none" /\ Pc(u) # "none" => on[t] # on[u]

(***************************************************************************)
(* A client meets a walk only where the calls may overlap, and a walk that *)
(* is not over has the restart thread at work.                             *)
(***************************************************************************)
Apart ==
  /\ \A t \in Clients : Pc(t) # "none" /\ t \in overlapping =>
       Pc(t) \in {"open", "count", "delete", "resume"}
  /\ \A t \in Clients : Pc(t) # "none" /\ t \notin overlapping => Rests
  /\ pending = {} \/ Pc(Ssr) # "none" \/ activeMutex = Ssr

(***************************************************************************)
(* Whoever is on a stream is counted as its user, except while the stream  *)
(* is opened and deleted; a stream that is used, or plays, has its users   *)
(* counted; one that is not registered is idle.                            *)
(***************************************************************************)
UsersKnown ==
  /\ Visiting => on[Ssr] \in counted
  /\ \A t \in Clients : Pc(t) # "none" =>
       (on[t] \in counted <=> Pc(t) \notin {"open", "count", "delete"})
  /\ \A t \in Clients : Closing(t) => told[on[t]] = "closed"
  /\ \A s \in Streams : told[s] \in {"open", "started", "paused"} => s \in counted
  /\ \A s \in Streams : Plays(s) => s \in counted
  /\ \A s \in Streams : s \notin listed => Is(s, {"IDLE"})

(***************************************************************************)
(* The state of a stream between the two sections of its start.            *)
(***************************************************************************)
IsStarting(s) == Is(s, IF s \in Input THEN {"INIT", "STOPPED"} ELSE {"STARTED"})

(***************************************************************************)
(* What a client's section relies on when it does not look at the state    *)
(* again: nobody else has touched the stream.                              *)
(***************************************************************************)
ClientState(t) ==
  /\ Pc(t) \in {"open", "delete", "deactivate"} => Is(on[t], {"IDLE"})
  /\ Pc(t) = "count" => Is(on[t], {"INIT"})
  /\ Pc(t) = "stopped" \/ Nx(t) = "closed" => Plays(on[t])
  /\ Pc(t) = "closed" => Is(on[t], {"STOPPED"})
  /\ Pc(t) = "started" => IsStarting(on[t]) /\ cardState = "online"
  /\ Pc(t) = "pause" => Is(on[t], {"STARTED"})
  /\ Pc(t) \in {"rewrite", "written"} => Is(on[t], {"PAUSED"})

(***************************************************************************)
(* The same for the restart thread.                                        *)
(***************************************************************************)
SsrState ==
  /\ Pc(Ssr) = "downExit" => Is(on[Ssr], {"IDLE"})
  /\ Pc(Ssr) \in {"stop", "stopped"} => Plays(on[Ssr]) /\ Nx(Ssr) = "relock"
  /\ Pc(Ssr) # "closed"
  /\ Pc(Ssr) = "close" => Is(on[Ssr], {"INIT", "STOPPED"})
  /\ Pc(Ssr) = "relock" /\ Nx(Ssr) = "close" => Is(on[Ssr], {"STOPPED"})
  /\ Pc(Ssr) = "started" => IsStarting(on[Ssr])
  /\ Pc(Ssr) = "pause" => Is(on[Ssr], {"STARTED"})

StatesKnown == (\A t \in Clients : ClientState(t)) /\ SsrState

(***************************************************************************)
(* At rest the thread has handled the card's state; at work it goes down   *)
(* exactly when the card is off.                                           *)
(***************************************************************************)
Phase ==
  /\ Rests => prevState = cardState
  /\ Pc(Ssr) # "none" => (GoingDown <=> cardState = "offline")

(***************************************************************************)
(* The sections that the restart thread runs with mActiveStreamMutex held; *)
(* all others that need it take it themselves.                             *)
(***************************************************************************)
Held ==
  Pc(Ssr) # "none" =>
    (activeMutex = Ssr <=> Pc(Ssr) \in {"down", "close", "downExit", "up", "open", "unlock",
                                         "repause", "pause", "upExit"})

(***************************************************************************)
(* While the card is off, a stream that plays is still to be visited or is *)
(* being stopped.                                                          *)
(***************************************************************************)
AllVisited ==
  cardState = "offline" =>
    \A s \in Streams : Plays(s) =>
      s \in pending \/ (on[Ssr] = s /\ Pc(Ssr) \in {"down", "stop", "stopped"})

(***************************************************************************)
(* A graph that died under a stream that plays is known of: to the walk,   *)
(* to the monitor, or by a message in the queue.                           *)
(***************************************************************************)
Announced == \E i \in 1..Len(msgQ) : msgQ[i] = "offline"

DeathIsHeard ==
  \A s \in Streams : Plays(s) /\ graph[s] # "running" =>
    cardState = "offline" \/ (~dsp /\ heard) \/ Announced

(***************************************************************************)
(* What the device's fields say while sections are in progress: an input's *)
(* start has started the device and not yet the stream, an output's has    *)
(* started both and not yet registered the stream.                         *)
(***************************************************************************)
Starting(s) == \E t \in Threads : Pc(t) = "started" /\ on[t] = s
Playing == {s \in Streams : Plays(s) \/ (s \in Input /\ Starting(s))}

Opened == (\A s \in Streams : s \in frontEnd <=> ~Is(s, {"IDLE"})) /\ deviceCount =
    Cardinality(frontEnd)
Registered == \A s \in Streams : s \in active_devices <=> Plays(s) /\
    ~(s \notin Input /\ Starting(s))
Running == deviceStartStopCount = Cardinality(Playing)

------------------------------------------------------------------------------
(***************************************************************************)
(* The restart thread is no client.                                        *)
(***************************************************************************)
LEMMA ThreadsApart ==
  /\ Ssr \in Threads /\ Ssr \notin Clients /\ Clients \subseteq Threads
  /\ \A t \in Threads : t \in Clients <=> t # Ssr
  /\ \A t \in Threads : t # None
  BY ThreadsAssumption DEF Threads

(***************************************************************************)
(* What a client runs next, by what it runs now,                           *)
(***************************************************************************)
LEMMA ClientPlan ==
  ASSUME NEW p \in ClientTodo
  PROVE  /\ First(p) \in {"none", "open", "count", "delete", "resume", "uncache", "close", "stop",
                          "stopped", "closed", "deactivate", "start", "started", "pause", "write",
                          "rewrite", "written"}
         /\ First(p) = "none" <=> p = <<>>
         /\ Second(p) \in {"none", "count", "close", "deactivate", "closed", "delete", "written"}
         /\ Second(p) = "closed" => First(p) \in {"stop", "stopped"}
         /\ First(p) \in {"stop", "stopped"} => Second(p) \in {"none", "closed"}
         /\ First(p) \in {"none", "count", "delete", "resume", "start", "started", "pause",
                          "write",
                          "written"} => Second(p) = "none"
         /\ First(p) = "open" => Second(p) = "count"
         /\ First(p) = "uncache" => Second(p) = "close"
         /\ First(p) \in {"close", "closed"} => Second(p) = "deactivate"
         /\ First(p) = "deactivate" => Second(p) = "delete"
         /\ First(p) = "rewrite" => Second(p) = "written"
<1>1. CASE p = <<>>
  BY <1>1 DEF First, Second
<1>2. CASE p # <<>>
  <2>1. First(p) = Head(p)
    BY <1>2 DEF First
  <2>2. /\ First(p) \in {"open", "count", "delete", "resume", "uncache", "close", "stop",
                         "stopped",
                         "closed", "deactivate", "start", "started", "pause", "write", "rewrite",
                         "written"}
        /\ Second(p) \in ClientFollows(First(p))
    BY <1>2, <2>1, ClientOrder
  <2> QED
    BY <1>2, <2>2 DEF ClientFollows
<1> QED
  BY <1>1, <1>2

(***************************************************************************)
(* and the restart thread.                                                 *)
(***************************************************************************)
LEMMA SsrPlan ==
  ASSUME NEW p \in SsrTodo
  PROVE  /\ First(p) \in {"none", "relock", "down", "downExit", "close", "stop", "stopped",
                          "closed",
                          "up", "upExit", "open", "unlock", "start", "started", "repause", "pause"}
         /\ First(p) = "none" <=> p = <<>>
         /\ First(p) \in {"none", "down", "downExit", "up", "upExit"} => Second(p) = "none"
         /\ First(p) = "relock" => Second(p) \in {"none", "close", "upExit", "repause"}
         /\ First(p) \in {"stop", "stopped"} => Second(p) \in {"relock", "closed"}
         /\ First(p) \in {"close", "closed"} => Second(p) = "downExit"
         /\ First(p) = "open" => Second(p) \in {"upExit", "unlock"}
         /\ First(p) = "unlock" => Second(p) = "start"
         /\ First(p) \in {"start", "started"} => Second(p) = "relock"
         /\ First(p) \in {"repause", "pause"} => Second(p) = "upExit"
         /\ p = <<"relock">> => First(p) = "relock" /\ Second(p) = "none"
<1>1. CASE p = <<>>
  BY <1>1 DEF First, Second
<1>2. CASE p # <<>>
  <2>1. First(p) = Head(p)
    BY <1>2 DEF First
  <2>2. /\ First(p) \in {"relock", "down", "downExit", "close", "stop", "stopped", "closed", "up",
                         "upExit", "open", "unlock", "start", "started", "repause", "pause"}
        /\ Second(p) \in SsrFollows(First(p))
    BY <1>2, <2>1, SsrOrder
  <2>3. p = <<"relock">> => First(p) = "relock" /\ Second(p) = "none"
    <3>1. <<"relock">> # <<>> /\ Head(<<"relock">>) = "relock" /\ Tail(<<"relock">>) = <<>>
      OBVIOUS
    <3> QED
      BY <3>1 DEF First, Second
  <2> QED
    BY <1>2, <2>2, <2>3 DEF SsrFollows
<1> QED
  BY <1>1, <1>2

(***************************************************************************)
(* At() says what Pc() says.                                               *)
(***************************************************************************)
LEMMA AtPc ==
  ASSUME NEW t, NEW x, x # "none"
  PROVE  /\ At(t, x) <=> Pc(t) = x
         /\ At(t, x) => todo[t] # <<>>
  BY DEF At, Pc, First

(***************************************************************************)
(* What the threads that do not run have in mind.                          *)
(***************************************************************************)
LEMMA OthersKeep ==
  ASSUME PlanTypes, NEW t \in Threads, NEW q, Moves(t, q)
  PROVE  /\ \A u \in Threads \ {t} : Pc(u)' = Pc(u) /\ Nx(u)' = Nx(u) /\ on'[u] = on[u]
         /\ Pc(t)' # "none" => on'[t] = on[t]
<1>1. /\ PlanTypes' /\ todo'[t] = q
      /\ \A u \in Threads \ {t} : todo'[u] = todo[u] /\ on'[u] = on[u]
      /\ on'[t] = IF q = <<>> THEN None ELSE on[t]
  BY MovesPlan
<1> QED
  BY <1>1 DEF Pc, Nx, First

(***************************************************************************)
(* What is next for the thread that does.                                  *)
(***************************************************************************)
LEMMA ClientNext ==
  ASSUME PlanTypes, NEW t \in Clients, todo[t] # <<>>, NEW more, MayPush(t, more), Then(t, more)
  PROVE  /\ more = <<>> => Pc(t)' = Nx(t)
         /\ more # <<>> => Pc(t)' = Head(more)
         /\ more = <<"stop", "closed">> => Nx(t)' = "closed"
         /\ more = <<"stopped">> => Nx(t)' = Nx(t)
<1>1. t \in Threads /\ todo[t] \in ClientTodo
  BY ThreadsApart DEF PlanTypes
<1>2. Moves(t, more \o Tail(todo[t]))
  BY <1>1, ThenMoves
<1>3. todo'[t] = more \o Tail(todo[t])
  BY <1>1, <1>2, MovesPlan
<1>4. Head(todo[t]) \notin {"repause", "down", "up"}
  BY <1>1, ClientOrder
<1>5. /\ more = <<>> => First(more \o Tail(todo[t])) = Second(todo[t])
      /\ more # <<>> => First(more \o Tail(todo[t])) = Head(more)
      /\ more = <<"stop", "closed">> => Second(more \o Tail(todo[t])) = "closed"
      /\ more = <<"stopped">> => Second(more \o Tail(todo[t])) = Second(todo[t])
  BY <1>1, <1>4, ClientThen DEF MayPush
<1> QED
  BY <1>3, <1>5 DEF Pc, Nx

(***************************************************************************)
(* What the restart thread runs after a section of a visit,                *)
(***************************************************************************)
LEMMA SsrNext ==
  ASSUME PlanTypes, todo[Ssr] # <<>>, NEW more, MayPush(Ssr, more), Then(Ssr, more)
  PROVE  /\ more = <<>> => Pc(Ssr)' = Nx(Ssr)
         /\ more = <<>> /\ Pc(Ssr) \in {"stop", "stopped"} /\ Nx(Ssr) = "relock" => Nx(Ssr)' =
                "close"
         /\ more = <<>> /\ Pc(Ssr) \in {"start", "started"} => Nx(Ssr)' \in {"upExit", "repause"}
         /\ more # <<>> => Pc(Ssr)' = Head(more)
         /\ more \in {<<"stopped">>, <<"started">>} => Nx(Ssr)' = Nx(Ssr)
         /\ Pc(Ssr) \in {"down", "up"} => more = <<>> \/ todo'[Ssr] = more
<1>1. Ssr \in Threads /\ todo[Ssr] \in SsrTodo /\ Pc(Ssr) = Head(todo[Ssr])
  BY ThreadsApart DEF PlanTypes, Pc, First
<1>2. Moves(Ssr, more \o Tail(todo[Ssr]))
  BY <1>1, ThenMoves
<1>3. todo'[Ssr] = more \o Tail(todo[Ssr])
  BY <1>1, <1>2, MovesPlan
<1>4. Head(todo[Ssr]) # "write"
  BY <1>1, SsrOrder
<1>5. /\ more = <<>> => First(more \o Tail(todo[Ssr])) = Second(todo[Ssr]) /\
             more \o Tail(todo[Ssr]) = Tail(todo[Ssr])
      /\ more # <<>> => First(more \o Tail(todo[Ssr])) = Head(more)
      /\ more \in {<<"stopped">>, <<"started">>} => Tail(more \o Tail(todo[Ssr])) = Tail(todo[Ssr])
      /\ Head(todo[Ssr]) \in {"down", "up"} => more = <<>> \/ more \o Tail(todo[Ssr]) = more
  BY <1>1, <1>4, SsrThen DEF MayPush
<1>6. /\ Head(todo[Ssr]) \in {"stop", "stopped"} /\ Second(todo[Ssr]) = "relock" =>
             Second(Tail(todo[Ssr])) = "close"
      /\ Head(todo[Ssr]) \in {"start", "started"} => Second(Tail(todo[Ssr])) \in
             {"upExit", "repause"}
  BY <1>1, SsrOrder
<1>7. ASSUME more \in {<<"stopped">>, <<"started">>} PROVE Nx(Ssr)' = Nx(Ssr)
  <2>1. more # <<>> /\ Head(more) # "none"
    BY <1>7
  <2>2. todo'[Ssr] # <<>>
    <3>1. First(todo'[Ssr]) # "none"
      BY <1>3, <1>5, <2>1
    <3> QED
      BY <3>1 DEF First
  <2>3. Tail(todo'[Ssr]) = Tail(todo[Ssr])
    BY <1>3, <1>5, <1>7
  <2> QED
    BY <2>2, <2>3 DEF Nx, Second
<1>8. /\ more = <<>> => Pc(Ssr)' = Nx(Ssr) /\ Nx(Ssr)' = Second(Tail(todo[Ssr]))
      /\ more # <<>> => Pc(Ssr)' = Head(more)
  BY <1>3, <1>5 DEF Pc, Nx
<1>9. Nx(Ssr) = Second(todo[Ssr])
  BY DEF Nx
<1> QED
  BY <1>1, <1>3, <1>5, <1>6, <1>7, <1>8, <1>9

(***************************************************************************)
(* A step that leaves the streams and the device alone.                    *)
(***************************************************************************)
Still == UNCHANGED <<currentState, graph, frontEnd, active_devices, deviceCount,
                     deviceStartStopCount>>

(***************************************************************************)
(* A section changes its own stream only, and puts at most a report into   *)
(* the queue.                                                              *)
(***************************************************************************)
LEMMA SectionFrame ==
  ASSUME TypeInv, NEW t \in Threads, Section(t)
  PROVE  /\ UNCHANGED <<cardState, dsp>>
         /\ UNCHANGED msgQ \/ Report
         /\ \A s \in Streams : s # on[t] =>
              /\ currentState'[s] = currentState[s] /\ graph'[s] = graph[s] /\ told'[s] = told[s]
              /\ s \in frontEnd' <=> s \in frontEnd
              /\ s \in active_devices' <=> s \in active_devices
         /\ t = Ssr => UNCHANGED told
         /\ \A s \in Streams : told[s] = "closed" => told'[s] = "closed"
<1>1. UNCHANGED told \/ \E what \in {"open", "started", "paused"} : Tell(t, what)
  BY DEF Section, OpenSession, OpenSkipped, StartOffline, StartInput, StartOutput,
         StartSkipped, RegisterOutput, RegisterInput, Stop, Stopped, CloseSkipped, Close, Uncache,
         Pause, PauseFails, Resume, ResumeFails, Write, Rewrite, Written, Down, DownExit, Up,
         Repause, UpExit, Unlock, Relock
<1>2. /\ t = Ssr => UNCHANGED told
      /\ \A s \in Streams : s # on[t] => told'[s] = told[s]
      /\ \A s \in Streams : told[s] = "closed" => told'[s] = "closed"
  BY <1>1 DEF Tell, Set, TypeInv, DataTypes
<1>3. UNCHANGED <<cardState, dsp>> /\ (UNCHANGED msgQ \/ Report)
  BY DEF Section, OpenSession, OpenSkipped, StartOffline, StartInput, StartOutput,
         StartSkipped, RegisterOutput, RegisterInput, Stop, Stopped, CloseSkipped, Close, Uncache,
         Pause, PauseFails, Resume, ResumeFails, Write, Rewrite, Written, Down, DownExit, Up,
         Repause, UpExit, Unlock, Relock, card
<1>4. \/ Still
      \/ \E x \in StreamStates : currentState' = Set(currentState, on[t], x)
      \/ UNCHANGED currentState
  BY DEF Section, OpenSession, OpenSkipped, StartOffline, StartInput, StartOutput, StreamStates,
         StartSkipped, RegisterOutput, RegisterInput, Stop, Stopped, CloseSkipped, Close, Uncache,
         Pause, PauseFails, Resume, ResumeFails, Write, Rewrite, Written, Down, DownExit, Up,
         Repause, UpExit, Unlock, Relock, stream, Still, CloseSession
<1>5. UNCHANGED graph \/ \E x \in {"none", "opened", "running"} : graph' = Set(graph, on[t], x)
  BY DEF Section, OpenSession, OpenSkipped, StartOffline, StartInput, StartOutput,
         StartSkipped, RegisterOutput, RegisterInput, Stop, Stopped, CloseSkipped, Close, Uncache,
         Pause, PauseFails, Resume, ResumeFails, Write, Rewrite, Written, Down, DownExit, Up,
         Repause, UpExit, Unlock, Relock, session, CloseSession
<1>6. UNCHANGED frontEnd \/ frontEnd' = frontEnd \cup {on[t]} \/ frontEnd' = frontEnd \ {on[t]}
  BY DEF Section, OpenSession, OpenSkipped, StartOffline, StartInput, StartOutput,
         StartSkipped, RegisterOutput, RegisterInput, Stop, Stopped, CloseSkipped, Close, Uncache,
         Pause, PauseFails, Resume, ResumeFails, Write, Rewrite, Written, Down, DownExit, Up,
         Repause, UpExit, Unlock, Relock, session, CloseSession
<1>7. \/ UNCHANGED active_devices
      \/ active_devices' = active_devices \cup {on[t]}
      \/ active_devices' = active_devices \ {on[t]}
  BY DEF Section, OpenSession, OpenSkipped, StartOffline, StartInput, StartOutput,
         StartSkipped, RegisterOutput, RegisterInput, Stop, Stopped, CloseSkipped, Close, Uncache,
         Pause, PauseFails, Resume, ResumeFails, Write, Rewrite, Written, Down, DownExit, Up,
         Repause, UpExit, Unlock, Relock, device
<1>8. \A s \in Streams : s # on[t] => currentState'[s] = currentState[s] /\ graph'[s] = graph[s]
  BY <1>4, <1>5 DEF Set, TypeInv, DataTypes, Still
<1>9. \A s \in Streams : s # on[t] =>
        /\ s \in frontEnd' <=> s \in frontEnd
        /\ s \in active_devices' <=> s \in active_devices
  BY <1>6, <1>7
<1> QED
  BY <1>2, <1>3, <1>8, <1>9

(***************************************************************************)
(* What a section of a client's call does, seen from its own stream.       *)
(***************************************************************************)
Uncounted == {"open", "count", "delete"}

ClientSteps(t) ==
  /\ Pc(t) # "none" /\ UNCHANGED activeMutex
  /\ Pc(t)' # "none" => (Pc(t)' \in Uncounted <=> Pc(t) \in Uncounted) /\ on'[t] = on[t]
  /\ Pc(t) = "resume" => Pc(t)' = "none" /\ Still
  /\ Closing(t)' => Closing(t)
  /\ ClientState(t)'
  /\ currentState'[on[t]] \in {"STARTED", "PAUSED"} =>
       Plays(on[t]) \/ Pc(t) \in {"start", "started"}
  /\ told'[on[t]] # told[on[t]] => Pc(t) \notin Uncounted

(***************************************************************************)
(* Every section of a call does that.                                      *)
(***************************************************************************)
LEMMA ClientLocal ==
  ASSUME TypeInv, NEW t \in Clients, ClientState(t), Section(t)
  PROVE  ClientSteps(t)
<1>1. /\ t \in Threads /\ t # Ssr /\ PlanTypes /\ PlanTypes' /\ DataTypes /\ DataTypes'
      /\ todo[t] # <<>> /\ todo[t] \in ClientTodo /\ todo'[t] \in ClientTodo
  <2>1. t \in Threads /\ t # Ssr /\ PlanTypes /\ DataTypes /\ todo[t] \in ClientTodo
    BY ThreadsApart DEF TypeInv, PlanTypes
  <2>2. todo[t] # <<>> /\ \E q : Moves(t, q)
    BY <2>1, SectionMoves
  <2>3. PlanTypes' /\ DataTypes'
    BY <2>1, <2>2, MovesPlan, SectionData
  <2> QED
    BY <2>1, <2>2, <2>3 DEF PlanTypes
<1>2. /\ Pc(t)' = First(todo'[t]) /\ Nx(t)' = Second(todo'[t])
      /\ Pc(t) = First(todo[t]) /\ Nx(t) = Second(todo[t])
  BY DEF Pc, Nx
<1>3. /\ Pc(t) # "none" /\ Pc(t) # "relock"
      /\ Nx(t) = "closed" => Pc(t) \in {"stop", "stopped"}
      /\ Pc(t) \in {"stop", "stopped"} => Nx(t) \in {"none", "closed"}
      /\ Pc(t) \in {"count", "delete", "resume", "start", "started", "pause", "write",
                    "written"} =>
           Nx(t) = "none"
      /\ Pc(t) = "open" => Nx(t) = "count"
      /\ Pc(t) = "uncache" => Nx(t) = "close"
      /\ Pc(t) \in {"close", "closed"} => Nx(t) = "deactivate"
      /\ Pc(t) = "rewrite" => Nx(t) = "written"
  BY <1>1, <1>2, ClientPlan
<1>4. /\ Nx(t)' = "closed" => Pc(t)' \in {"stop", "stopped"}
      /\ Pc(t)' \in {"none", "count", "delete", "start", "started"} => Nx(t)' = "none"
  BY <1>1, <1>2, ClientPlan
<1>5. /\ Pc(t)' # "none" => on'[t] = on[t]
      /\ on[t] \in Streams
  <2>1. Pc(t) = Head(todo[t])
    BY <1>1 DEF Pc, First
  <2>2. on[t] \in Streams
    BY <1>1, <1>3, <2>1, OnStream
  <2>3. PICK q : Moves(t, q)
    BY <1>1, SectionMoves
  <2> QED
    BY <1>1, <2>2, <2>3, OthersKeep
<1>6. \A x \in {"open", "start", "started", "stop", "stopped", "close", "closed", "uncache",
                "pause", "resume",
         "write", "rewrite", "written", "down", "downExit", "up", "repause", "upExit", "unlock",
             "relock"} :
         At(t, x) => Pc(t) = x
  BY AtPc
<1>7. Then(t, <<>>) => Pc(t)' = Nx(t)
  BY <1>1, ClientNext DEF MayPush
<1> DEFINE s == on[t]
<1>8. \A x : currentState' = Set(currentState, s, x) => currentState'[s] = x
  BY <1>1, <1>5 DEF DataTypes, Set
<1> USE DEF ClientSteps, ClientState, Closing, Uncounted, Plays, Is, Still, IsStarting
<1>9. CASE OpenSession(t) \/ OpenSkipped(t)
  <2>1. Pc(t) = "open" /\ Nx(t) = "count" /\ Is(s, {"IDLE"})
    BY <1>3, <1>6, <1>9 DEF OpenSession, OpenSkipped
  <2>2. ASSUME Abandon(t) PROVE Pc(t)' = "delete"
    BY <1>1, <2>2 DEF Abandon, Goes, Pc, First, PlanTypes
  <2>3. \/ Pc(t)' = "count" /\ currentState' = Set(currentState, s, "INIT")
        \/ Pc(t)' = "delete" /\ UNCHANGED currentState
    BY <1>7, <1>9, <2>1, <2>2 DEF OpenSession, OpenSkipped, stream
  <2>4. UNCHANGED <<activeMutex, told>>
    BY <1>9 DEF OpenSession, OpenSkipped
  <2> QED
    BY <1>1, <1>3, <1>4, <1>5, <1>8, <2>1, <2>3, <2>4
<1>10. CASE StartOffline(t)
  <2>1. Pc(t) = "start" /\ Pc(t)' = Nx(t)
    BY <1>6, <1>7, <1>10 DEF StartOffline
  <2> QED
    BY <1>1, <1>3, <1>4, <1>5, <1>8, <1>10, <2>1 DEF StartOffline, device, session, card
<1>11. CASE StartInput(t)
  <2>1. Pc(t) = "start" /\ Nx(t) = "none"
    BY <1>3, <1>6, <1>11 DEF StartInput
  <2>2. Then(t, <<"started">>) => Pc(t)' = "started"
    BY <1>1, <1>2, <2>1, ClientNext DEF MayPush, First
  <2>3. StartFails(t) => Pc(t)' = "none"
    BY <1>1 DEF StartFails, Goes, Pc, First, PlanTypes
  <2> QED
    BY <1>1, <1>3, <1>4, <1>5, <1>8, <1>11, <2>1, <2>2 DEF StartInput, stream, session, card,
                                                           DataTypes
<1>12. CASE StartOutput(t)
  <2>1. Pc(t) = "start" /\ Nx(t) = "none"
    BY <1>3, <1>6, <1>12 DEF StartOutput
  <2>2. Then(t, <<"started">>) => Pc(t)' = "started"
    BY <1>1, <1>2, <2>1, ClientNext DEF MayPush, First
  <2>3. StartFails(t) => Pc(t)' = "none"
    BY <1>1 DEF StartFails, Goes, Pc, First, PlanTypes
  <2>4. UNCHANGED <<activeMutex, cardState>> /\ cardState = "online" /\ s \notin Input
    BY <1>1, <1>12 DEF StartOutput, DataTypes
  <2>5. \/ currentState' = Set(currentState, s, "STARTED") /\ Pc(t)' = "started"
        \/ UNCHANGED currentState /\ Pc(t)' = "none"
    BY <1>7, <1>12, <2>1, <2>2, <2>3 DEF StartOutput
  <2> QED
    BY <1>1, <1>3, <1>4, <1>5, <1>8, <2>1, <2>4, <2>5
<1>13. CASE StartSkipped(t)
  <2>1. Pc(t) = "start" /\ Nx(t) = "none"
    BY <1>3, <1>6, <1>13 DEF StartSkipped
  <2>2. Then(t, <<"started">>) => Pc(t)' = "started"
    BY <1>1, <1>2, <2>1, ClientNext DEF MayPush, First
  <2>3. StartFails(t) => Pc(t)' = "none"
    BY <1>1 DEF StartFails, Goes, Pc, First, PlanTypes
  <2>4. Pc(t)' = "none" /\ UNCHANGED <<activeMutex, currentState>>
    BY <1>7, <1>13, <2>1, <2>3 DEF StartSkipped, stream
  <2> QED
    BY <1>1, <1>3, <1>4, <1>5, <1>8, <2>1, <2>4
<1>14. CASE RegisterOutput(t)
  <2>1. Pc(t) = "started" /\ Pc(t)' = Nx(t)
    BY <1>6, <1>7, <1>14 DEF RegisterOutput
  <2> QED
    BY <1>1, <1>3, <1>4, <1>5, <1>8, <1>14, <2>1 DEF RegisterOutput, stream, session, card
<1>15. CASE RegisterInput(t)
  <2>1. Pc(t) = "started" /\ Nx(t) = "none"
    BY <1>3, <1>6, <1>15 DEF RegisterInput
  <2>2. StartFails(t) => Pc(t)' = "none"
    BY <1>1 DEF StartFails, Goes, Pc, First, PlanTypes
  <2>3. Pc(t)' = "none" /\ UNCHANGED <<activeMutex, cardState>>
    BY <1>7, <1>15, <2>1, <2>2 DEF RegisterInput
  <2> QED
    BY <1>1, <1>3, <1>4, <1>5, <1>8, <2>1, <2>3
<1>16. CASE Stop(t)
  <2>1. Pc(t) = "stop"
    BY <1>6, <1>16 DEF Stop
  <2>2. Then(t, <<"stopped">>) => Pc(t)' = "stopped" /\ Nx(t)' = Nx(t)
    BY <1>1, <1>2, <2>1, ClientNext DEF MayPush, First
  <2>3. \/ Pc(t)' = "stopped" /\ Nx(t)' = Nx(t) /\ Plays(s)
        \/ Pc(t)' = Nx(t) /\ ~Plays(s)
    BY <1>7, <1>16, <2>2 DEF Stop
  <2>4. UNCHANGED <<activeMutex, currentState, cardState>>
    BY <1>16 DEF Stop, stream, card
  <2> QED
    BY <1>1, <1>3, <1>4, <1>5, <1>8, <2>1, <2>3, <2>4
<1>17. CASE Stopped(t)
  <2>1. Pc(t) = "stopped" /\ Pc(t)' = Nx(t)
    BY <1>6, <1>7, <1>17 DEF Stopped
  <2> QED
    BY <1>1, <1>3, <1>4, <1>5, <1>8, <1>17, <2>1 DEF Stopped, card
<1>18. CASE CloseSkipped(t)
  <2>1. Pc(t) = "close" /\ Nx(t) = "deactivate"
    BY <1>3, <1>6, <1>18 DEF CloseSkipped
  <2>2. Then(t, <<"stop", "closed">>) => Pc(t)' = "stop" /\ Nx(t)' = "closed"
    BY <1>1, <1>2, <2>1, ClientNext DEF MayPush, First
  <2>3. \/ Pc(t)' = "stop" /\ Nx(t)' = "closed" /\ Plays(s)
        \/ Pc(t)' = "deactivate" /\ Is(s, {"IDLE"})
    BY <1>7, <1>18, <2>1, <2>2 DEF CloseSkipped
  <2>4. UNCHANGED <<activeMutex, currentState, cardState, told>>
    BY <1>18 DEF CloseSkipped, stream, card
  <2> QED
    BY <1>1, <1>3, <1>4, <1>5, <1>8, <2>1, <2>3, <2>4
<1>19. CASE Close(t)
  <2>1. Pc(t) \in {"close", "closed"} /\ Nx(t) = "deactivate" /\ Pc(t)' = "deactivate"
    BY <1>3, <1>6, <1>7, <1>19 DEF Close
  <2>2. UNCHANGED <<activeMutex, told>> /\ currentState' = Set(currentState, s, "IDLE")
    BY <1>19 DEF Close, CloseSession
  <2> QED
    BY <1>1, <1>3, <1>4, <1>5, <1>8, <2>1, <2>2
<1>20. CASE Uncache(t)
  <2>1. Pc(t) = "uncache" /\ Pc(t)' = Nx(t)
    BY <1>6, <1>7, <1>20 DEF Uncache
  <2> QED
    BY <1>1, <1>3, <1>4, <1>5, <1>8, <1>20, <2>1 DEF Uncache, device, session, card
<1>21. CASE Pause(t)
  <2>1. Pc(t) = "pause" /\ Pc(t)' = Nx(t)
    BY <1>6, <1>7, <1>21 DEF Pause
  <2> QED
    BY <1>1, <1>3, <1>4, <1>5, <1>8, <1>21, <2>1 DEF Pause, device, session, card
<1>22. CASE PauseFails(t)
  <2>1. Pc(t) = "pause" /\ Pc(t)' = Nx(t)
    BY <1>6, <1>7, <1>22 DEF PauseFails
  <2> QED
    BY <1>1, <1>3, <1>4, <1>5, <1>8, <1>22, <2>1 DEF PauseFails, stream, device, session, card
<1>23. CASE Resume(t)
  <2>1. Pc(t) = "resume" /\ Pc(t)' = Nx(t)
    BY <1>6, <1>7, <1>23 DEF Resume
  <2> QED
    BY <1>1, <1>3, <1>4, <1>5, <1>8, <1>23, <2>1 DEF Resume, device, session, card
<1>24. CASE ResumeFails(t)
  <2>1. Pc(t) = "resume" /\ Pc(t)' = Nx(t)
    BY <1>6, <1>7, <1>24 DEF ResumeFails
  <2> QED
    BY <1>1, <1>3, <1>4, <1>5, <1>8, <1>24, <2>1 DEF ResumeFails, stream, device, session, card
<1>25. CASE Write(t)
  <2>1. Pc(t) = "write" /\ Nx(t) = "none"
    BY <1>3, <1>6, <1>25 DEF Write
  <2>2. Then(t, <<"rewrite", "written">>) => Pc(t)' = "rewrite"
    BY <1>1, <1>2, <2>1, ClientNext DEF MayPush, First
  <2>3. \/ Pc(t)' = "rewrite" /\ Is(s, {"PAUSED"})
        \/ Pc(t)' = "none"
    BY <1>7, <1>25, <2>1, <2>2 DEF Write
  <2>4. UNCHANGED <<activeMutex, currentState, told>>
    BY <1>25 DEF Write, stream
  <2> QED
    BY <1>1, <1>3, <1>4, <1>5, <1>8, <2>1, <2>3, <2>4
<1>26. CASE Rewrite(t)
  <2>1. Pc(t) = "rewrite" /\ Pc(t)' = Nx(t)
    BY <1>6, <1>7, <1>26 DEF Rewrite
  <2> QED
    BY <1>1, <1>3, <1>4, <1>5, <1>8, <1>26, <2>1 DEF Rewrite, stream, session, card
<1>27. CASE Written(t)
  <2>1. Pc(t) = "written" /\ Pc(t)' = Nx(t)
    BY <1>6, <1>7, <1>27 DEF Written
  <2> QED
    BY <1>1, <1>3, <1>4, <1>5, <1>8, <1>27, <2>1 DEF Written, session, device, card
<1>28. CASE \/ Down(t) \/ DownExit(t) \/ Up(t) \/ Repause(t) \/ UpExit(t) \/ Unlock(t) \/ Relock(t)
  <2>1. Pc(t) \in {"down", "downExit", "up", "repause", "upExit", "unlock", "relock"}
    BY <1>6, <1>28 DEF Down, DownExit, Up, Repause, UpExit, Unlock, Relock
  <2> QED
    BY <1>1, <1>2, <2>1, ClientPlan
<1> QED
  BY <1>9, <1>10, <1>11, <1>12, <1>13, <1>14, <1>15, <1>16, <1>17, <1>18, <1>19, <1>20, <1>21,
     <1>22, <1>23, <1>24, <1>25, <1>26, <1>27, <1>28 DEF Section

(***************************************************************************)
(* A start that fails ends the visit.                                      *)
(***************************************************************************)
LEMMA SsrStartFails ==
  ASSUME PlanTypes, StartFails(Ssr)
  PROVE  Pc(Ssr)' = "relock" /\ Nx(Ssr)' = "upExit"
<1>1. todo'[Ssr] = <<"relock", "upExit">>
  BY ThreadsApart DEF StartFails, Goes, PlanTypes
<1>2. /\ <<"relock", "upExit">> # <<>> /\ Head(<<"relock", "upExit">>) = "relock"
      /\ Tail(<<"relock", "upExit">>) = <<"upExit">> /\ <<"upExit">> # <<>>
      /\ Head(<<"upExit">>) = "upExit"
  OBVIOUS
<1>3. First(<<"relock", "upExit">>) = "relock" /\ Second(<<"relock", "upExit">>) = "upExit"
  BY <1>2 DEF First, Second
<1> QED
  BY <1>1, <1>3 DEF Pc, Nx

(***************************************************************************)
(* What a section of the restart thread does, seen from the stream that it *)
(* visits.                                                                 *)
(***************************************************************************)
SsrSteps ==
  /\ Pc(Ssr) # "none"
  /\ Pc(Ssr)' # "none" => on'[Ssr] = on[Ssr] /\ (GoingDown' <=> GoingDown)
  /\ Pc(Ssr)' = "none" => activeMutex' = Ssr
  /\ Visiting' => Visiting
  /\ Pc(Ssr) = "relock" => Still
  /\ SsrState' /\ Held'
  /\ currentState'[on[Ssr]] \in {"STARTED", "PAUSED"} =>
       Plays(on[Ssr]) \/ Pc(Ssr) \in {"start", "started"}
  /\ currentState'[on[Ssr]] \in {"STARTED", "PAUSED"} /\ Pc(Ssr) \in {"down", "stop", "stopped"} =>
       Pc(Ssr)' \in {"stop", "stopped"}

(***************************************************************************)
(* Every section of the restart thread does that.                          *)
(***************************************************************************)
LEMMA SsrLocal ==
  ASSUME TypeInv, SsrState, Held, Section(Ssr)
  PROVE  SsrSteps
<1> USE DEF SsrSteps, Still, SsrState, GoingDown, Visiting, Held, Plays, Is, IsStarting
<1>1. /\ Ssr \in Threads /\ Ssr \notin Clients /\ Ssr # None
      /\ PlanTypes /\ PlanTypes' /\ DataTypes /\ DataTypes'
      /\ todo[Ssr] # <<>> /\ todo[Ssr] \in SsrTodo /\ todo'[Ssr] \in SsrTodo
  <2>1. Ssr \in Threads /\ Ssr \notin Clients /\ PlanTypes /\ DataTypes /\ todo[Ssr] \in SsrTodo
    BY ThreadsApart DEF TypeInv, PlanTypes
  <2>2. todo[Ssr] # <<>> /\ \E q : Moves(Ssr, q)
    BY <2>1, SectionMoves
  <2>3. PlanTypes' /\ DataTypes'
    BY <2>1, <2>2, MovesPlan, SectionData
  <2> QED
    BY <2>1, <2>2, <2>3, ThreadsApart DEF PlanTypes
<1>2. /\ Pc(Ssr)' = First(todo'[Ssr]) /\ Nx(Ssr)' = Second(todo'[Ssr])
      /\ Pc(Ssr) = First(todo[Ssr]) /\ Nx(Ssr) = Second(todo[Ssr])
  BY DEF Pc, Nx
<1>3. /\ Pc(Ssr) \in {"relock", "down", "downExit", "close", "stop", "stopped", "up", "upExit",
                      "open",
                     "unlock", "start", "started", "repause", "pause"}
      /\ Pc(Ssr) \in {"down", "downExit", "up", "upExit"} => Nx(Ssr) = "none"
      /\ Pc(Ssr) = "relock" => Nx(Ssr) \in {"none", "close", "upExit", "repause"}
      /\ Pc(Ssr) \in {"stop", "stopped"} => Nx(Ssr) = "relock"
      /\ Pc(Ssr) = "close" => Nx(Ssr) = "downExit"
      /\ Pc(Ssr) = "open" => Nx(Ssr) \in {"upExit", "unlock"}
      /\ Pc(Ssr) = "unlock" => Nx(Ssr) = "start"
      /\ Pc(Ssr) \in {"start", "started"} => Nx(Ssr) = "relock"
      /\ Pc(Ssr) \in {"repause", "pause"} => Nx(Ssr) = "upExit"
  BY <1>1, <1>2, SsrPlan
<1>4. Pc(Ssr)' = "relock" => Nx(Ssr)' \in {"none", "close", "upExit", "repause"}
  BY <1>1, <1>2, SsrPlan
<1>5. /\ Pc(Ssr)' # "none" => on'[Ssr] = on[Ssr]
      /\ Pc(Ssr) # "relock" => on[Ssr] \in Streams
  <2>1. Pc(Ssr) = Head(todo[Ssr])
    BY <1>1 DEF Pc, First
  <2>2. Pc(Ssr) # "relock" => on[Ssr] \in Streams
    BY <1>1, <2>1, OnStream
  <2>3. PICK q : Moves(Ssr, q)
    BY <1>1, SectionMoves
  <2> QED
    BY <1>1, <2>2, <2>3, OthersKeep
<1>6. \A x \in {"open", "start", "started", "stop", "stopped", "close", "closed", "uncache",
                "pause",
              "resume", "write", "rewrite", "written", "down", "downExit", "up", "repause",
                  "upExit",
              "unlock", "relock"} : At(Ssr, x) => Pc(Ssr) = x
  BY AtPc
<1>7. Then(Ssr, <<>>) => /\ Pc(Ssr)' = Nx(Ssr)
                         /\ Pc(Ssr) = "stopped" => Nx(Ssr)' = "close"
                         /\ Pc(Ssr) \in {"start", "started"} => Nx(Ssr)' \in {"upExit", "repause"}
  BY <1>1, <1>3, SsrNext DEF MayPush
<1> DEFINE s == on[Ssr]
<1>8. \A x : Pc(Ssr) # "relock" /\ currentState' = Set(currentState, s, x) => currentState'[s] = x
  BY <1>1, <1>5 DEF DataTypes, Set
<1>9. CASE OpenSession(Ssr) \/ OpenSkipped(Ssr)
  <2>1. Pc(Ssr) = "open" /\ UNCHANGED activeMutex
    BY <1>6, <1>9 DEF OpenSession, OpenSkipped
  <2>2. ASSUME Abandon(Ssr) PROVE Pc(Ssr)' = "upExit"
    <3>1. todo'[Ssr] = <<"upExit">>
      BY <1>1, <2>2 DEF Abandon, Goes, PlanTypes
    <3> QED
      BY <1>2, <3>1 DEF First
  <2>3. \/ Pc(Ssr)' = Nx(Ssr) /\ currentState' = Set(currentState, s, "INIT")
        \/ Pc(Ssr)' \in {Nx(Ssr), "upExit"} /\ UNCHANGED currentState
    BY <1>7, <1>9, <2>1, <2>2 DEF OpenSession, OpenSkipped, stream
  <2> QED
    BY <1>1, <1>3, <1>4, <1>5, <1>8, <2>1, <2>3
<1>10. CASE StartOffline(Ssr)
  <2>1. /\ Pc(Ssr) = "start" /\ Pc(Ssr)' = "relock" /\ Nx(Ssr)' \in {"upExit", "repause"}
        /\ UNCHANGED <<currentState, activeMutex>>
    BY <1>3, <1>6, <1>7, <1>10 DEF StartOffline
  <2> QED
    BY <1>1, <1>3, <1>4, <1>5, <1>8, <2>1
<1>11. CASE StartInput(Ssr)
  <2>1. Pc(Ssr) = "start" /\ UNCHANGED activeMutex
    BY <1>3, <1>6, <1>11 DEF StartInput
  <2>2. Then(Ssr, <<"started">>) => Pc(Ssr)' = "started"
    BY <1>1, <1>2, <2>1, SsrNext DEF MayPush, First
  <2>3. UNCHANGED currentState /\ s \in Input /\ Is(s, {"INIT", "STOPPED"}) /\ Pc(Ssr)' = "started"
    BY <1>11, <2>2 DEF StartInput, stream
  <2> QED
    BY <1>1, <1>3, <1>4, <1>5, <1>8, <2>1, <2>3
<1>12. CASE StartOutput(Ssr)
  <2>1. Pc(Ssr) = "start" /\ UNCHANGED activeMutex
    BY <1>3, <1>6, <1>12 DEF StartOutput
  <2>2. Then(Ssr, <<"started">>) => Pc(Ssr)' = "started"
    BY <1>1, <1>2, <2>1, SsrNext DEF MayPush, First
  <2>3. \/ currentState' = Set(currentState, s, "STARTED") /\ Pc(Ssr)' = "started"
        \/ UNCHANGED currentState /\ Pc(Ssr)' = "relock" /\ Nx(Ssr)' \in {"upExit", "repause"}
    BY <1>1, <1>3, <1>7, <1>12, <2>1, <2>2, SsrStartFails DEF StartOutput
  <2>4. s \notin Input
    BY <1>12 DEF StartOutput
  <2> QED
    BY <1>1, <1>3, <1>4, <1>5, <1>8, <2>1, <2>3, <2>4
<1>13. CASE StartSkipped(Ssr)
  <2>1. Pc(Ssr) = "start" /\ UNCHANGED activeMutex
    BY <1>3, <1>6, <1>13 DEF StartSkipped
  <2>2. Then(Ssr, <<"started">>) => Pc(Ssr)' = "started"
    BY <1>1, <1>2, <2>1, SsrNext DEF MayPush, First
  <2>3. UNCHANGED currentState /\ Pc(Ssr)' = "relock" /\ Nx(Ssr)' \in {"upExit", "repause"}
    BY <1>1, <1>3, <1>7, <1>13, <2>1, SsrStartFails DEF StartSkipped, stream
  <2> QED
    BY <1>1, <1>3, <1>4, <1>5, <1>8, <2>1, <2>3
<1>14. CASE RegisterOutput(Ssr) \/ RegisterInput(Ssr)
  <2>1. Pc(Ssr) = "started" /\ UNCHANGED activeMutex /\ activeMutex = None
    BY <1>6, <1>14 DEF RegisterOutput, RegisterInput
  <2>2. Pc(Ssr)' = "relock" /\ Nx(Ssr)' \in {"upExit", "repause"}
    BY <1>1, <1>3, <1>7, <1>14, <2>1, SsrStartFails DEF RegisterOutput, RegisterInput
  <2> QED
    BY <1>1, <1>3, <1>4, <1>5, <1>8, <2>1, <2>2
<1>15. CASE Stop(Ssr)
  <2>1. Pc(Ssr) = "stop" /\ UNCHANGED <<activeMutex, currentState>>
    BY <1>6, <1>15 DEF Stop, stream
  <2>2. Then(Ssr, <<"stopped">>) => Pc(Ssr)' = "stopped" /\ Nx(Ssr)' = Nx(Ssr)
    BY <1>1, <1>2, <2>1, SsrNext DEF MayPush, First
  <2>3. Pc(Ssr)' = "stopped" /\ Nx(Ssr)' = Nx(Ssr)
    BY <2>1, <2>2, <1>15 DEF Stop
  <2> QED
    BY <1>1, <1>3, <1>4, <1>5, <1>8, <2>1, <2>3
<1>16. CASE Stopped(Ssr)
  <2>1. Pc(Ssr) = "stopped" /\ Pc(Ssr)' = "relock" /\ Nx(Ssr)' = "close"
    BY <1>3, <1>6, <1>7, <1>16 DEF Stopped
  <2>2. UNCHANGED activeMutex /\ activeMutex = None /\ currentState' =
            Set(currentState, s, "STOPPED")
    BY <1>16 DEF Stopped
  <2> QED
    BY <1>1, <1>3, <1>4, <1>5, <1>8, <2>1, <2>2
<1>17. CASE CloseSkipped(Ssr)
  <2>1. Pc(Ssr) = "close"
    BY <1>6, <1>17 DEF CloseSkipped
  <2> QED
    BY <1>17, <2>1 DEF CloseSkipped
<1>18. CASE Close(Ssr)
  <2>1. Pc(Ssr) = "close" /\ Pc(Ssr)' = "downExit"
    BY <1>3, <1>6, <1>7, <1>18 DEF Close
  <2>2. UNCHANGED activeMutex /\ currentState' = Set(currentState, s, "IDLE")
    BY <1>18 DEF Close, CloseSession
  <2> QED
    BY <1>1, <1>3, <1>4, <1>5, <1>8, <2>1, <2>2
<1>19. CASE Pause(Ssr)
  <2>1. Pc(Ssr) = "pause" /\ Pc(Ssr)' = Nx(Ssr)
    BY <1>6, <1>7, <1>19 DEF Pause
  <2> QED
    BY <1>1, <1>3, <1>4, <1>5, <1>8, <1>19, <2>1 DEF Pause, device, session, card
<1>20. CASE PauseFails(Ssr)
  <2>1. Pc(Ssr) = "pause" /\ Pc(Ssr)' = Nx(Ssr)
    BY <1>6, <1>7, <1>20 DEF PauseFails
  <2> QED
    BY <1>1, <1>3, <1>4, <1>5, <1>8, <1>20, <2>1 DEF PauseFails, stream, device, session, card
<1>21. CASE Down(Ssr)
  <2>1. Pc(Ssr) = "down" /\ UNCHANGED currentState
    BY <1>6, <1>21 DEF Down
  <2>2. ASSUME NEW more \in WalkFor("down"), Then(Ssr, more)
        PROVE  Pc(Ssr)' = Head(more) /\ todo'[Ssr] = more
    <3>1. MayPush(Ssr, more) /\ more # <<>>
      BY <1>1, <2>1, <2>2 DEF MayPush, WalkFor, Pc, First
    <3> QED
      BY <1>1, <2>1, <2>2, <3>1, SsrNext
  <2>3. Is(s, {"INIT", "STOPPED"}) => Pc(Ssr)' = "close" /\ UNCHANGED activeMutex
    BY <1>21, <2>2 DEF Down, WalkFor
  <2>4. Is(s, {"IDLE"}) => Pc(Ssr)' = "downExit" /\ UNCHANGED activeMutex
    BY <1>21, <2>2 DEF Down, WalkFor
  <2>5. Plays(s) => Pc(Ssr)' = "stop" /\ Nx(Ssr)' = "relock" /\ activeMutex' = None
    <3>1. SUFFICES ASSUME Plays(s)
                   PROVE Pc(Ssr)' = "stop" /\ Nx(Ssr)' = "relock" /\ activeMutex' = None
      OBVIOUS
    <3>2. /\ activeMutex' = None
          /\ Pc(Ssr)' = "stop" /\ todo'[Ssr] = <<"stop", "relock", "close", "downExit">>
      BY <1>21, <2>2, <3>1 DEF Down, WalkFor
    <3>3. /\ <<"stop", "relock", "close", "downExit">> # <<>>
          /\ Tail(<<"stop", "relock", "close", "downExit">>) = <<"relock", "close", "downExit">>
          /\ <<"relock", "close", "downExit">> # <<>>
          /\ Head(<<"relock", "close", "downExit">>) = "relock"
      OBVIOUS
    <3>4. Second(<<"stop", "relock", "close", "downExit">>) = "relock"
      BY <3>3 DEF First, Second
    <3> QED
      BY <1>2, <3>2, <3>4
  <2>6. Is(s, StreamStates)
    BY <1>1, <1>5, <2>1 DEF DataTypes
  <2> QED
    BY <1>1, <1>3, <1>4, <1>5, <1>8, <2>1, <2>3, <2>4, <2>5, <2>6 DEF StreamStates
<1>22. CASE DownExit(Ssr)
  <2>1. Pc(Ssr) = "downExit" /\ Pc(Ssr)' = Nx(Ssr)
    BY <1>6, <1>7, <1>22 DEF DownExit
  <2> QED
    BY <1>1, <1>3, <1>4, <1>5, <1>8, <1>22, <2>1 DEF DownExit, session, device, card
<1>23. CASE Up(Ssr)
  <2>1. Pc(Ssr) = "up" /\ UNCHANGED <<currentState, activeMutex>>
    BY <1>6, <1>23 DEF Up, stream
  <2>2. ASSUME NEW more \in WalkFor("up"), Then(Ssr, more)
        PROVE  Pc(Ssr)' = Head(more)
    <3>1. more # <<>>
      BY <2>2 DEF WalkFor
    <3>2. Head(todo[Ssr]) = "up"
      BY <1>1, <2>1 DEF Pc, First
    <3>3. MayPush(Ssr, more)
      BY <2>2, <3>2 DEF MayPush
    <3> QED
      BY <1>1, <2>1, <2>2, <3>1, <3>3, SsrNext
  <2>3. Pc(Ssr)' \in {"upExit", "open"}
    BY <1>23, <2>2 DEF Up, WalkFor
  <2> QED
    BY <1>1, <1>3, <1>4, <1>5, <1>8, <2>1, <2>3
<1>24. CASE Repause(Ssr)
  <2>1. Pc(Ssr) = "repause" /\ UNCHANGED <<currentState, activeMutex>>
    BY <1>6, <1>24 DEF Repause, stream
  <2>2. Then(Ssr, <<"pause">>) => Pc(Ssr)' = "pause"
    BY <1>1, <1>2, <2>1, SsrNext DEF MayPush, First
  <2>3. \/ Pc(Ssr)' = "pause" /\ Is(s, {"STARTED"})
        \/ Pc(Ssr)' = "upExit"
    BY <1>3, <1>7, <1>24, <2>1, <2>2 DEF Repause
  <2> QED
    BY <1>1, <1>3, <1>4, <1>5, <1>8, <2>1, <2>3
<1>25. CASE UpExit(Ssr)
  <2>1. Pc(Ssr) = "upExit" /\ Pc(Ssr)' = Nx(Ssr)
    BY <1>6, <1>7, <1>25 DEF UpExit
  <2> QED
    BY <1>1, <1>3, <1>4, <1>5, <1>8, <1>25, <2>1 DEF UpExit, session, device, card
<1>26. CASE Unlock(Ssr)
  <2>1. Pc(Ssr) = "unlock" /\ Pc(Ssr)' = Nx(Ssr)
    BY <1>6, <1>7, <1>26 DEF Unlock
  <2> QED
    BY <1>1, <1>3, <1>4, <1>5, <1>8, <1>26, <2>1 DEF Unlock, stream, session, device, card
<1>27. CASE Relock(Ssr)
  <2>1. Pc(Ssr) = "relock" /\ Pc(Ssr)' = Nx(Ssr) /\ activeMutex' = Ssr /\ Still
    BY <1>6, <1>7, <1>27 DEF Relock, stream, session, device
  <2> QED
    BY <1>1, <1>3, <1>4, <1>5, <1>8, <2>1
<1>28. CASE \/ Uncache(Ssr) \/ Resume(Ssr) \/ ResumeFails(Ssr) \/ Write(Ssr) \/ Rewrite(Ssr) \/
                   Written(Ssr)
  <2>1. Pc(Ssr) \in {"uncache", "resume", "write", "rewrite", "written"}
    BY <1>6, <1>28 DEF Uncache, Resume, ResumeFails, Write, Rewrite, Written
  <2> QED
    BY <1>3, <2>1
<1> QED
  BY <1>9, <1>10, <1>11, <1>12, <1>13, <1>14, <1>15, <1>16, <1>17, <1>18, <1>19, <1>20, <1>21,
     <1>22, <1>23, <1>24, <1>25, <1>26, <1>27, <1>28 DEF Section

------------------------------------------------------------------------------
(***************************************************************************)
(* Who is where, and what they know.                                       *)
(***************************************************************************)
CoreInv ==
  TypeInv /\ Alone /\ Apart /\ UsersKnown /\ StatesKnown /\ Phase /\ Held

(***************************************************************************)
(* What the invariant says of a client and of the restart thread.          *)
(***************************************************************************)
LEMMA WhereTheyAre ==
  ASSUME CoreInv
  PROVE  /\ \A t \in Clients : Pc(t) # "none" => on[t] \in listed /\ on[t] \in Streams
         /\ Visiting => on[Ssr] \in counted /\ on[Ssr] \in Streams
         /\ \A t \in Clients : Pc(t) # "none" <=> todo[t] # <<>>
         /\ Pc(Ssr) # "none" <=> todo[Ssr] # <<>>
         /\ \A t \in Clients : Pc(t) # "none" /\ Pc(Ssr) # "none" =>
              Pc(t) \in {"open", "count", "delete", "resume"}
         /\ \A t \in Clients : Pc(t) # "none" /\ Visiting /\ on[t] = on[Ssr] => Pc(t) = "resume"
         /\ \A t \in Clients : Closing(t) => Pc(t) # "none"
<1>1. \A t \in Clients : /\ Pc(t) # "none" <=> todo[t] # <<>>
                         /\ Nx(t) = "closed" => Pc(t) # "none"
  BY ClientPlan DEF Pc, Nx, CoreInv, TypeInv, PlanTypes
<1>2. Pc(Ssr) # "none" <=> todo[Ssr] # <<>>
  BY SsrPlan DEF Pc, CoreInv, TypeInv, PlanTypes
<1>3. \A t \in Clients : Pc(t) # "none" => on[t] \in listed /\ on[t] \in Streams
  BY <1>1 DEF CoreInv, TypeInv, ListTypes
<1>4. Visiting => on[Ssr] \in counted /\ on[Ssr] \in Streams
  BY DEF CoreInv, UsersKnown, TypeInv, ListTypes
<1>5. \A t \in Clients : Pc(t) # "none" /\ Pc(Ssr) # "none" =>
              Pc(t) \in {"open", "count", "delete", "resume"}
  BY <1>2 DEF CoreInv, Apart, Rests
<1>6. Visiting => Pc(Ssr) # "none"
  BY DEF Visiting
<1>7. \A t \in Clients : Pc(t) # "none" /\ Visiting /\ on[t] = on[Ssr] => Pc(t) = "resume"
  BY <1>4, <1>5, <1>6 DEF CoreInv, UsersKnown
<1> QED
  BY <1>1, <1>2, <1>3, <1>4, <1>5, <1>7 DEF Closing

(***************************************************************************)
(* It survives a client's section,                                         *)
(***************************************************************************)
LEMMA ClientSectionCore ==
  ASSUME CoreInv, NEW t \in Clients, Run(t), overlapping' = {u \in overlapping : todo'[u] # <<>>}
  PROVE  CoreInv'
<1>1. /\ t \in Threads /\ t # Ssr /\ Ssr \in Threads /\ Ssr \notin Clients /\
             Clients \subseteq Threads
      /\ Section(t) /\ UNCHANGED <<listed, counted, prevState, pending>>
  BY ThreadsApart DEF Run, walk
<1>2. TypeInv /\ TypeInv'
  BY ClientSectionTypes DEF CoreInv
<1>3. ClientSteps(t)
  BY <1>1, <1>2, ClientLocal DEF CoreInv, StatesKnown
<1>4. \A u \in Threads \ {t} : Pc(u)' = Pc(u) /\ Nx(u)' = Nx(u) /\ on'[u] = on[u] /\ todo'[u] =
          todo[u]
  <2>1. PICK q : Moves(t, q)
    BY <1>1, <1>2, SectionMoves DEF TypeInv
  <2> QED
    BY <1>1, <1>2, <2>1, OthersKeep, MovesPlan DEF TypeInv
<1>5. /\ UNCHANGED <<cardState, activeMutex>>
      /\ \A s \in Streams : s # on[t] => currentState'[s] = currentState[s] /\ told'[s] = told[s]
      /\ \A s \in Streams : told[s] = "closed" => told'[s] = "closed"
  BY <1>1, <1>2, <1>3, SectionFrame DEF ClientSteps
<1>6. \A u \in Clients : Pc(u)' # "none" <=> todo'[u] # <<>>
  BY <1>2, ClientPlan DEF Pc, TypeInv, PlanTypes
<1>7. Alone'
  BY <1>1, <1>3, <1>4 DEF CoreInv, Alone, ClientSteps
<1>8. Rests' <=> Rests
  BY <1>1, <1>4, <1>5 DEF Rests
<1>9. Apart'
  <2>1. ASSUME NEW u \in Clients, Pc(u)' # "none", u \in overlapping'
        PROVE  Pc(u)' \in {"open", "count", "delete", "resume"}
    BY <1>1, <1>3, <1>4, <2>1 DEF CoreInv, Apart, ClientSteps, Uncounted
  <2>2. ASSUME NEW u \in Clients, Pc(u)' # "none", u \notin overlapping' PROVE Rests'
    BY <1>1, <1>3, <1>4, <1>6, <1>8, <2>2 DEF CoreInv, Apart, ClientSteps
  <2>3. pending' = {} \/ Pc(Ssr)' # "none" \/ activeMutex' = Ssr
    BY <1>1, <1>4, <1>5 DEF CoreInv, Apart
  <2> QED
    BY <2>1, <2>2, <2>3 DEF Apart
<1>10. UsersKnown'
  <2>1. Visiting' => on'[Ssr] \in counted'
    BY <1>1, <1>4 DEF CoreInv, UsersKnown, Visiting
  <2>2. ASSUME NEW u \in Clients, Pc(u)' # "none"
        PROVE  on'[u] \in counted' <=> Pc(u)' \notin {"open", "count", "delete"}
    BY <1>1, <1>3, <1>4, <2>2 DEF CoreInv, UsersKnown, ClientSteps, Uncounted
  <2>3. ASSUME NEW u \in Clients, Closing(u)' PROVE told'[on'[u]] = "closed"
    <3>1. Closing(u) /\ on'[u] = on[u]
      <4>1. CASE u = t
        <5>1. Pc(t)' # "none"
          BY <1>2, <2>3, <4>1, ClientPlan DEF Closing, Pc, Nx, TypeInv, PlanTypes
        <5> QED
          BY <1>3, <2>3, <4>1, <5>1 DEF ClientSteps
      <4>2. CASE u # t
        BY <1>1, <1>4, <2>3, <4>2 DEF Closing
      <4> QED
        BY <4>1, <4>2
    <3>2. on[u] \in Streams /\ told[on[u]] = "closed"
      BY <3>1, WhereTheyAre DEF CoreInv, UsersKnown
    <3> QED
      BY <1>5, <3>1, <3>2
  <2>4. ASSUME NEW s \in Streams, told'[s] \in {"open", "started", "paused"} PROVE s \in counted'
    <3>1. CASE s = on[t]
      BY <1>1, <1>3, <2>4, <3>1 DEF CoreInv, UsersKnown, ClientSteps, Uncounted
    <3>2. CASE s # on[t]
      BY <1>1, <1>5, <2>4, <3>2 DEF CoreInv, UsersKnown
    <3> QED
      BY <3>1, <3>2
  <2>5. ASSUME NEW s \in Streams, Plays(s)' PROVE s \in counted'
    <3>1. CASE s = on[t]
      BY <1>1, <1>3, <2>5, <3>1 DEF CoreInv, UsersKnown, ClientSteps, Plays, Is
    <3>2. CASE s # on[t]
      BY <1>1, <1>5, <2>5, <3>2 DEF CoreInv, UsersKnown, Plays, Is
    <3> QED
      BY <3>1, <3>2
  <2>6. ASSUME NEW s \in Streams, s \notin listed' PROVE Is(s, {"IDLE"})'
    <3>1. s # on[t]
      BY <1>1, <1>3, <2>6, WhereTheyAre DEF ClientSteps
    <3> QED
      BY <1>1, <1>5, <2>6, <3>1 DEF CoreInv, UsersKnown, Is
  <2> QED
    BY <2>1, <2>2, <2>3, <2>4, <2>5, <2>6 DEF UsersKnown
<1>11. StatesKnown'
  <2>1. ASSUME NEW u \in Clients, u # t PROVE ClientState(u)'
    <3>1. Pc(u)' = Pc(u) /\ Nx(u)' = Nx(u) /\ on'[u] = on[u] /\ ClientState(u)
      BY <1>1, <1>4, <2>1 DEF CoreInv, StatesKnown
    <3>2. CASE Pc(u) = "none"
      <4>1. Nx(u) # "closed"
        BY <3>2, WhereTheyAre DEF Closing
      <4> QED
        BY <3>1, <3>2, <4>1 DEF ClientState
    <3>3. CASE Pc(u) # "none"
      <4>1. on[u] \in Streams /\ on[u] # on[t]
        BY <1>3, <2>1, <3>3, WhereTheyAre DEF CoreInv, Alone, ClientSteps
      <4> QED
        BY <1>5, <3>1, <4>1 DEF ClientState, Plays, Is, IsStarting
    <3> QED
      BY <3>2, <3>3
  <2>2. SsrState'
    <3>1. Pc(Ssr)' = Pc(Ssr) /\ Nx(Ssr)' = Nx(Ssr) /\ on'[Ssr] = on[Ssr] /\ SsrState
      BY <1>1, <1>4 DEF CoreInv, StatesKnown
    <3>2. CASE ~Visiting
      BY <3>1, <3>2 DEF SsrState, Visiting
    <3>3. CASE Visiting
      <4>1. on[Ssr] \in Streams /\ currentState'[on[Ssr]] = currentState[on[Ssr]]
        BY <1>3, <1>5, <3>3, WhereTheyAre DEF ClientSteps, Still
      <4> QED
        BY <3>1, <4>1 DEF SsrState, Plays, Is, IsStarting
    <3> QED
      BY <3>2, <3>3
  <2>3. ClientState(t)'
    BY <1>3 DEF ClientSteps
  <2> QED
    BY <2>1, <2>2, <2>3 DEF StatesKnown
<1>12. Phase' /\ Held'
  BY <1>1, <1>4, <1>5, <1>8 DEF CoreInv, Phase, Held, GoingDown
<1> QED
  BY <1>2, <1>7, <1>9, <1>10, <1>11, <1>12 DEF CoreInv

(***************************************************************************)
(* a section of the restart thread,                                        *)
(***************************************************************************)
LEMMA SsrSectionCore ==
  ASSUME CoreInv, Run(Ssr), UNCHANGED overlapping
  PROVE  CoreInv'
<1>1. /\ Ssr \in Threads /\ Ssr \notin Clients /\ Clients \subseteq Threads
      /\ Section(Ssr) /\ UNCHANGED <<listed, counted, prevState, pending>>
  BY ThreadsApart DEF Run, walk
<1>2. TypeInv /\ TypeInv'
  BY SsrSectionTypes DEF CoreInv
<1>3. SsrSteps
  BY <1>1, <1>2, SsrLocal DEF CoreInv, StatesKnown
<1>4. \A u \in Clients : Pc(u)' = Pc(u) /\ Nx(u)' = Nx(u) /\ on'[u] = on[u]
  <2>1. PICK q : Moves(Ssr, q)
    BY <1>1, <1>2, SectionMoves DEF TypeInv
  <2> QED
    BY <1>1, <1>2, <2>1, OthersKeep DEF TypeInv
<1>5. /\ UNCHANGED <<cardState, told>>
      /\ \A s \in Streams : s # on[Ssr] => currentState'[s] = currentState[s]
  BY <1>1, <1>2, SectionFrame
<1>6. \A u \in Clients : Pc(u) # "none" => u \in overlapping /\ Pc(u) \in
          {"open", "count", "delete", "resume"}
  <2>1. ~Rests
    BY <1>3, WhereTheyAre DEF SsrSteps, Rests
  <2> QED
    BY <2>1 DEF CoreInv, Apart
<1>7. Alone'
  BY <1>4 DEF CoreInv, Alone
<1>8. Apart'
  <2>1. pending' = {} \/ Pc(Ssr)' # "none" \/ activeMutex' = Ssr
    BY <1>3 DEF SsrSteps
  <2> QED
    BY <1>4, <1>6, <2>1 DEF Apart
<1>9. ~Visiting => UNCHANGED currentState
  BY <1>3 DEF Visiting, SsrSteps, Still
<1>10. UsersKnown'
  <2>1. Visiting' => on'[Ssr] \in counted'
    BY <1>1, <1>3 DEF CoreInv, UsersKnown, Visiting, SsrSteps
  <2>2. ASSUME NEW s \in Streams, Plays(s)' PROVE s \in counted'
    <3>1. CASE ~Visiting
      BY <1>1, <1>9, <2>2, <3>1 DEF CoreInv, UsersKnown, Plays, Is
    <3>2. CASE Visiting
      <4>1. on[Ssr] \in counted'
        BY <1>1, <3>2, WhereTheyAre
      <4> QED
        BY <1>1, <1>5, <2>2, <4>1 DEF CoreInv, UsersKnown, Plays, Is
    <3> QED
      BY <3>1, <3>2
  <2>3. ASSUME NEW s \in Streams, s \notin listed' PROVE Is(s, {"IDLE"})'
    <3>1. CASE ~Visiting
      BY <1>1, <1>9, <2>3, <3>1 DEF CoreInv, UsersKnown, Is
    <3>2. CASE Visiting
      <4>1. on[Ssr] \in listed
        BY <3>2, WhereTheyAre, <1>2 DEF TypeInv, ListTypes
      <4> QED
        BY <1>1, <1>5, <2>3, <4>1 DEF CoreInv, UsersKnown, Is
    <3> QED
      BY <3>1, <3>2
  <2>4. \A u \in Clients : Closing(u)' => told'[on'[u]] = "closed"
    BY <1>4, <1>5 DEF CoreInv, UsersKnown, Closing
  <2> QED
    BY <1>1, <1>4, <1>5, <2>1, <2>2, <2>3, <2>4 DEF CoreInv, UsersKnown
<1>11. StatesKnown'
  <2>1. ASSUME NEW u \in Clients PROVE ClientState(u)'
    <3>1. Pc(u)' = Pc(u) /\ Nx(u)' = Nx(u) /\ on'[u] = on[u] /\ ClientState(u)
      BY <1>4 DEF CoreInv, StatesKnown
    <3>2. Nx(u) # "closed"
      BY <1>2, <1>6, ClientPlan DEF Pc, Nx, TypeInv, PlanTypes
    <3>3. CASE Pc(u) \in {"none", "resume"}
      BY <3>1, <3>2, <3>3 DEF ClientState
    <3>4. CASE Pc(u) \notin {"none", "resume"}
      <4>1. currentState'[on[u]] = currentState[on[u]]
        <5>1. CASE ~Visiting
          BY <1>9, <5>1
        <5>2. CASE Visiting
          BY <1>5, <3>4, <5>2, WhereTheyAre
        <5> QED
          BY <5>1, <5>2
      <4> QED
        BY <1>5, <3>1, <3>2, <4>1 DEF ClientState, Plays, Is, IsStarting
    <3> QED
      BY <3>3, <3>4
  <2> QED
    BY <1>3, <2>1 DEF StatesKnown, SsrSteps
<1>12. Phase' /\ Held'
  <2>1. Rests' => FALSE
    <3>1. Pc(Ssr)' = "none" <=> todo'[Ssr] = <<>>
      BY <1>2, SsrPlan DEF Pc, TypeInv, PlanTypes
    <3> QED
      BY <1>3, <3>1 DEF SsrSteps, Rests
  <2> QED
    BY <1>3, <1>5, <2>1 DEF CoreInv, Phase, SsrSteps
<1> QED
  BY <1>2, <1>7, <1>8, <1>10, <1>11, <1>12 DEF CoreInv

(***************************************************************************)
(* the counting, the end of the counting and the deletion of a stream,     *)
(***************************************************************************)
LEMMA ClientOwnCore ==
  ASSUME CoreInv, NEW t \in Clients, Count(t) \/ Deactivate(t) \/ Delete(t),
         overlapping' = {u \in overlapping : todo'[u] # <<>>}
  PROVE  CoreInv'
<1>1. /\ t \in Threads /\ t # Ssr /\ Ssr \in Threads /\ Ssr \notin Clients /\
             Clients \subseteq Threads
      /\ \A u \in Threads : u # Ssr => u \in Clients
  BY ThreadsApart
<1>2. TypeInv /\ TypeInv' /\ todo[t] # <<>> /\ Then(t, <<>>)
  BY ClientOwnTypes DEF CoreInv, Count, Deactivate, Delete, At
<1>3. \A u \in Threads \ {t} : Pc(u)' = Pc(u) /\ Nx(u)' = Nx(u) /\ on'[u] = on[u] /\ todo'[u] =
          todo[u]
  <2>1. PICK q : Moves(t, q)
    BY <1>1, <1>2, ThenMoves DEF TypeInv, MayPush
  <2> QED
    BY <1>1, <1>2, <2>1, OthersKeep, MovesPlan DEF TypeInv
<1>4. Pc(t)' = Nx(t) /\ (Pc(t)' # "none" => on'[t] = on[t])
  <2>1. PICK q : Moves(t, q)
    BY <1>1, <1>2, ThenMoves DEF TypeInv, MayPush
  <2> QED
    BY <1>1, <1>2, <2>1, OthersKeep, ClientNext DEF TypeInv, MayPush
<1>5. /\ Count(t) => Pc(t) = "count" /\ Pc(t)' = "none"
      /\ Deactivate(t) => Pc(t) = "deactivate" /\ Pc(t)' = "delete"
      /\ Delete(t) => Pc(t) = "delete" /\ Pc(t)' = "none"
  <2>1. /\ Pc(t) \in {"count", "delete"} => Nx(t) = "none"
        /\ Pc(t) = "deactivate" => Nx(t) = "delete"
    BY <1>2, ClientPlan DEF Pc, Nx, TypeInv, PlanTypes
  <2>2. /\ Count(t) => Pc(t) = "count"
        /\ Deactivate(t) => Pc(t) = "deactivate"
        /\ Delete(t) => Pc(t) = "delete"
    BY AtPc DEF Count, Deactivate, Delete
  <2> QED
    BY <1>4, <2>1, <2>2
<1>6. /\ Nx(t)' = "none"
      /\ \A u \in Clients : Pc(u)' # "none" <=> todo'[u] # <<>>
  BY <1>2, <1>5, ClientPlan DEF Pc, Nx, TypeInv, PlanTypes
<1>7. /\ on[t] \in Streams /\ on[t] \in listed
      /\ \A u \in Clients \ {t} : Pc(u) # "none" => on[u] # on[t] /\ on[u] \in Streams
      /\ Visiting => on[Ssr] # on[t] /\ on[Ssr] \in Streams
  BY <1>5, WhereTheyAre DEF CoreInv, Alone
<1>8. /\ UNCHANGED <<cardState, activeMutex, prevState>>
      /\ \A s \in Streams : s # on[t] =>
           /\ currentState'[s] = currentState[s] /\ told'[s] = told[s]
           /\ s \in counted' <=> s \in counted
           /\ s \in listed' <=> s \in listed
      /\ pending' = pending \/ (Pc(t) = "delete" /\ activeMutex = None /\
                                pending' \subseteq pending)
  <2>1. CASE Count(t)
    BY <1>1, <1>2, <1>7, <2>1 DEF Count, Tell, Set, card, stream, walk, TypeInv, DataTypes
  <2>2. CASE Deactivate(t)
    BY <1>7, <2>2 DEF Deactivate, card, stream, walk
  <2>3. CASE Delete(t)
    BY <1>2, <1>5, <1>7, <2>3 DEF Delete, Set, card, TypeInv, DataTypes
  <2> QED
    BY <2>1, <2>2, <2>3
<1>9. Alone'
  BY <1>1, <1>2, <1>3, <1>4, <1>5 DEF CoreInv, Alone
<1>10. Rests' <=> Rests
  <2>1. Rests => Rests'
    BY <1>1, <1>3, <1>8 DEF Rests
  <2>2. Rests' => Rests
    <3>1. CASE pending' = pending
      BY <1>1, <1>3, <1>8, <3>1 DEF Rests
    <3>2. CASE activeMutex = None
      BY <1>1, <1>3, <1>8, <3>2, WhereTheyAre, ThreadsApart DEF Rests, CoreInv, Apart
    <3> QED
      BY <1>8, <3>1, <3>2
  <2> QED
    BY <2>1, <2>2
<1>11. Apart'
  <2>1. ASSUME NEW u \in Clients, Pc(u)' # "none", u \in overlapping'
        PROVE  Pc(u)' \in {"open", "count", "delete", "resume"}
    BY <1>1, <1>3, <1>5, <2>1 DEF CoreInv, Apart
  <2>2. ASSUME NEW u \in Clients, Pc(u)' # "none", u \notin overlapping' PROVE Rests'
    BY <1>1, <1>3, <1>5, <1>6, <1>10, <2>2 DEF CoreInv, Apart
  <2>3. pending' = {} \/ Pc(Ssr)' # "none" \/ activeMutex' = Ssr
    BY <1>1, <1>3, <1>8 DEF CoreInv, Apart
  <2> QED
    BY <2>1, <2>2, <2>3 DEF Apart
<1>12. UsersKnown'
  <2>1. Visiting' => on'[Ssr] \in counted'
    <3>1. Visiting' <=> Visiting
      BY <1>1, <1>3 DEF Visiting
    <3> QED
      BY <1>1, <1>3, <1>7, <1>8, <3>1 DEF CoreInv, UsersKnown
  <2>2. ASSUME NEW u \in Clients, Pc(u)' # "none"
        PROVE  on'[u] \in counted' <=> Pc(u)' \notin {"open", "count", "delete"}
    <3>1. CASE u = t
      <4>1. Deactivate(t)
        BY <1>5, <2>2, <3>1
      <4> QED
        BY <1>4, <1>5, <2>2, <3>1, <4>1 DEF Deactivate
    <3>2. CASE u # t
      BY <1>1, <1>3, <1>7, <1>8, <2>2, <3>2 DEF CoreInv, UsersKnown
    <3> QED
      BY <3>1, <3>2
  <2>3. ASSUME NEW u \in Clients, Closing(u)' PROVE told'[on'[u]] = "closed"
    <3>1. u # t
      BY <1>5, <1>6, <2>3 DEF Closing
    <3>2. Closing(u) /\ on'[u] = on[u]
      BY <1>1, <1>3, <2>3, <3>1 DEF Closing
    <3> QED
      BY <1>7, <1>8, <3>1, <3>2, WhereTheyAre DEF CoreInv, UsersKnown
  <2>4. ASSUME NEW s \in Streams, told'[s] \in {"open", "started", "paused"} PROVE s \in counted'
    <3>1. CASE s # on[t]
      BY <1>8, <2>4, <3>1 DEF CoreInv, UsersKnown
    <3>2. CASE s = on[t] /\ Count(t)
      BY <3>2 DEF Count
    <3>3. CASE s = on[t] /\ Deactivate(t)
      <4>1. Closing(t) /\ told[s] = "closed" /\ told'[s] = told[s]
        BY <1>5, <3>3 DEF CoreInv, UsersKnown, Closing, Deactivate
      <4> QED
        BY <2>4, <4>1
    <3>4. CASE s = on[t] /\ Delete(t)
      BY <1>2, <2>4, <3>4 DEF Delete, Set, TypeInv, DataTypes
    <3> QED
      BY <3>1, <3>2, <3>3, <3>4
  <2>5. ASSUME NEW s \in Streams, Plays(s)' PROVE s \in counted'
    <3>1. CASE s # on[t]
      BY <1>8, <2>5, <3>1 DEF CoreInv, UsersKnown, Plays, Is
    <3>2. CASE s = on[t] /\ Count(t)
      BY <3>2 DEF Count
    <3>3. CASE s = on[t] /\ Deactivate(t)
      BY <1>5, <2>5, <3>3 DEF Deactivate, CoreInv, StatesKnown, ClientState, Plays, Is, stream
    <3>4. CASE s = on[t] /\ Delete(t)
      BY <1>2, <2>5, <3>4 DEF Delete, Set, TypeInv, DataTypes, Plays, Is
    <3> QED
      BY <3>1, <3>2, <3>3, <3>4
  <2>6. ASSUME NEW s \in Streams, s \notin listed' PROVE Is(s, {"IDLE"})'
    <3>1. CASE s # on[t]
      BY <1>8, <2>6, <3>1 DEF CoreInv, UsersKnown, Is
    <3>2. CASE s = on[t] /\ Delete(t)
      BY <1>2, <3>2 DEF Delete, Set, TypeInv, DataTypes, Is
    <3>3. CASE s = on[t] /\ ~Delete(t)
      BY <1>7, <2>6, <3>3 DEF Count, Deactivate
    <3> QED
      BY <3>1, <3>2, <3>3
  <2> QED
    BY <2>1, <2>2, <2>3, <2>4, <2>5, <2>6 DEF UsersKnown
<1>13. StatesKnown'
  <2>1. ASSUME NEW u \in Clients, u # t PROVE ClientState(u)'
    <3>1. Pc(u)' = Pc(u) /\ Nx(u)' = Nx(u) /\ on'[u] = on[u] /\ ClientState(u)
      BY <1>1, <1>3, <2>1 DEF CoreInv, StatesKnown
    <3>2. CASE Pc(u) = "none"
      <4>1. Nx(u) # "closed"
        BY <3>2, WhereTheyAre DEF Closing
      <4> QED
        BY <3>1, <3>2, <4>1 DEF ClientState
    <3>3. CASE Pc(u) # "none"
      BY <1>7, <1>8, <2>1, <3>1, <3>3 DEF ClientState, Plays, Is, IsStarting
    <3> QED
      BY <3>2, <3>3
  <2>2. SsrState'
    <3>1. Pc(Ssr)' = Pc(Ssr) /\ Nx(Ssr)' = Nx(Ssr) /\ on'[Ssr] = on[Ssr] /\ SsrState
      BY <1>1, <1>3 DEF CoreInv, StatesKnown
    <3>2. CASE ~Visiting
      BY <3>1, <3>2 DEF SsrState, Visiting
    <3>3. CASE Visiting
      BY <1>7, <1>8, <3>1, <3>3 DEF SsrState, Plays, Is, IsStarting
    <3> QED
      BY <3>2, <3>3
  <2>3. ClientState(t)'
    <3>1. CASE Deactivate(t)
      BY <1>4, <1>5, <1>6, <3>1 DEF Deactivate, CoreInv, StatesKnown, ClientState, Is, stream
    <3>2. CASE ~Deactivate(t)
      BY <1>5, <1>6, <3>2 DEF ClientState
    <3> QED
      BY <3>1, <3>2
  <2> QED
    BY <2>1, <2>2, <2>3 DEF StatesKnown
<1>14. Phase' /\ Held'
  BY <1>1, <1>3, <1>8, <1>10 DEF CoreInv, Phase, Held, GoingDown
<1> QED
  BY <1>2, <1>9, <1>11, <1>12, <1>13, <1>14 DEF CoreInv

(***************************************************************************)
(* Where the calls begin.                                                  *)
(***************************************************************************)
LEMMA Programs ==
  ASSUME NEW c \in Calls
  PROVE  /\ First(Program(c)) = IF c = "close" THEN "uncache" ELSE c
         /\ Second(Program(c)) # "closed"
<1>1. /\ Head(<<"open", "count">>) = "open" /\ Tail(<<"open", "count">>) = <<"count">>
      /\ <<"open", "count">> # <<>> /\ <<"count">> # <<>> /\ Head(<<"count">>) = "count"
  OBVIOUS
<1>2. /\ Head(<<"uncache", "close", "deactivate", "delete">>) = "uncache"
      /\ Tail(<<"uncache", "close", "deactivate", "delete">>) = <<"close", "deactivate", "delete">>
      /\ <<"uncache", "close", "deactivate", "delete">> # <<>>
      /\ <<"close", "deactivate", "delete">> # <<>> /\ Head(<<"close", "deactivate",
             "delete">>) = "close"
  OBVIOUS
<1>3. <<c>> # <<>> /\ Head(<<c>>) = c /\ Tail(<<c>>) = <<>>
  OBVIOUS
<1>4. CASE c = "open"
  BY <1>1, <1>4 DEF Program, First, Second
<1>5. CASE c = "close"
  BY <1>2, <1>5 DEF Program, First, Second
<1>6. CASE c \notin {"open", "close"}
  BY <1>3, <1>6 DEF Program, First, Second
<1> QED
  BY <1>4, <1>5, <1>6

(***************************************************************************)
(* The calls that the theorems let overlap a walk.                         *)
(***************************************************************************)
CallsKeptApart == Overlap \subseteq {"open", "resume", "dsp"} /\ ~Reentrant /\ ~PauseIdle

(***************************************************************************)
(* A new call finds its stream free.                                       *)
(***************************************************************************)
LEMMA CallCore ==
  ASSUME CallsKeptApart, CoreInv,
         NEW t \in Clients, NEW c \in Calls, NEW s \in Streams, Call(t, c, s)
  PROVE  CoreInv'
<1>1. /\ t \in Threads /\ t # Ssr /\ Ssr \in Threads /\ Ssr \notin Clients /\
             Clients \subseteq Threads
  BY ThreadsApart
<1>2. TypeInv /\ TypeInv'
  BY CallTypes DEF CoreInv
<1>3. /\ \A u \in Threads \ {t} : Pc(u)' = Pc(u) /\ Nx(u)' = Nx(u) /\ on'[u] = on[u] /\
             todo'[u] = todo[u]
      /\ todo'[t] = Program(c) /\ on'[t] = s
  BY <1>1, <1>2 DEF Call, Pc, Nx, TypeInv, PlanTypes
<1>4. Pc(t)' = (IF c = "close" THEN "uncache" ELSE c) /\ Nx(t)' # "closed"
  BY <1>3, Programs DEF Pc, Nx
<1>5. Pc(t) = "none" /\ t \notin overlapping
  BY <1>2 DEF Call, Pc, First, TypeInv, ListTypes
<1>6. /\ UNCHANGED <<currentState, cardState, activeMutex, prevState, counted>>
      /\ \A r \in Streams : told'[r] = IF c = "close" /\ r = s THEN "closed" ELSE told[r]
      /\ listed \subseteq listed'
      /\ pending' = {} <=> pending = {}
  BY <1>2 DEF Call, card, stream, Set, TypeInv, DataTypes
<1>7. \A u \in Clients \ {t} : Pc(u) # "none" => on[u] # s /\ on[u] \in Streams
  <2>1. Inside(s) = {}
    BY DEF Call, CallsKeptApart
  <2> QED
    BY <2>1, WhereTheyAre DEF Inside
<1>8. Rests' <=> Rests
  BY <1>1, <1>3, <1>6 DEF Rests
<1>9. IF c \in Overlap THEN Pc(t)' \in {"open", "resume"} /\ overlapping' = overlapping \cup {t}
      ELSE Rests /\ overlapping' = overlapping
  BY <1>4 DEF Call, CallsKeptApart, Settled, Calls
<1>10. Alone'
  BY <1>1, <1>3, <1>7 DEF CoreInv, Alone
<1>11. Apart'
  <2>1. pending' = {} \/ Pc(Ssr)' # "none" \/ activeMutex' = Ssr
    BY <1>1, <1>3, <1>6 DEF CoreInv, Apart
  <2> QED
    BY <1>1, <1>3, <1>5, <1>8, <1>9, <2>1 DEF CoreInv, Apart
<1>12. IF c = "open" THEN s \notin listed ELSE told[s] \in {"open", "started", "paused"}
  BY DEF Call, Legal, Calls
<1>13. c = "open" => s \notin counted /\ Is(s, {"IDLE"})
  BY <1>2, <1>12 DEF CoreInv, UsersKnown, TypeInv, ListTypes
<1>14. UsersKnown'
  <2>1. Visiting' => on'[Ssr] \in counted'
    BY <1>1, <1>3, <1>6 DEF CoreInv, UsersKnown, Visiting
  <2>2. ASSUME NEW u \in Clients, Pc(u)' # "none"
        PROVE  on'[u] \in counted' <=> Pc(u)' \notin {"open", "count", "delete"}
    BY <1>1, <1>3, <1>4, <1>6, <1>12, <1>13, <2>2 DEF CoreInv, UsersKnown, Calls
  <2>3. ASSUME NEW u \in Clients, Closing(u)' PROVE told'[on'[u]] = "closed"
    <3>1. CASE u = t
      BY <1>3, <1>4, <1>6, <2>3, <3>1 DEF Closing, Calls
    <3>2. CASE u # t
      <4>1. Closing(u) /\ on'[u] = on[u]
        BY <1>1, <1>3, <2>3, <3>2 DEF Closing
      <4> QED
        BY <1>6, <1>7, <3>2, <4>1, WhereTheyAre DEF CoreInv, UsersKnown
    <3> QED
      BY <3>1, <3>2
  <2>4. /\ \A r \in Streams : told'[r] \in {"open", "started", "paused"} => r \in counted'
        /\ \A r \in Streams : Plays(r)' => r \in counted'
        /\ \A r \in Streams : r \notin listed' => Is(r, {"IDLE"})'
    BY <1>6 DEF CoreInv, UsersKnown, Plays, Is
  <2> QED
    BY <2>1, <2>2, <2>3, <2>4 DEF UsersKnown
<1>15. StatesKnown'
  <2>1. ASSUME NEW u \in Clients, u # t PROVE ClientState(u)'
    BY <1>1, <1>3, <1>6, <2>1 DEF CoreInv, StatesKnown, ClientState, Plays, Is, IsStarting
  <2>2. SsrState'
    BY <1>1, <1>3, <1>6 DEF CoreInv, StatesKnown, SsrState, Plays, Is, IsStarting
  <2>3. ClientState(t)'
    <3>1. c = "pause" => Is(s, {"STARTED"})
      BY DEF Call, Legal, CallsKeptApart
    <3> QED
      BY <1>3, <1>4, <1>6, <1>13, <3>1 DEF ClientState, Plays, Is, Calls
  <2> QED
    BY <2>1, <2>2, <2>3 DEF StatesKnown
<1>16. Phase' /\ Held'
  BY <1>1, <1>3, <1>6, <1>8 DEF CoreInv, Phase, Held, GoingDown
<1> QED
  BY <1>2, <1>10, <1>11, <1>14, <1>15, <1>16 DEF CoreInv

(***************************************************************************)
(* Where the walk begins.                                                  *)
(***************************************************************************)
LEMMA WalkPlans ==
  /\ First(<<>>) = "none" /\ Second(<<>>) = "none"
  /\ \A x \in {"relock", "down", "up"} : First(<<x>>) = x /\ Second(<<x>>) = "none"
<1>1. ASSUME NEW x \in {"relock", "down", "up"}
      PROVE  First(<<x>>) = x /\ Second(<<x>>) = "none"
  <2>1. <<x>> # <<>> /\ Head(<<x>>) = x /\ Tail(<<x>>) = <<>>
    OBVIOUS
  <2> QED
    BY <2>1 DEF First, Second
<1> QED
  BY <1>1 DEF First, Second

(***************************************************************************)
(* The invariant survives the message that begins a walk,                  *)
(***************************************************************************)
LEMMA TakeCore == ASSUME CoreInv, Take PROVE CoreInv'
<1>1. Ssr \in Threads /\ Ssr \notin Clients /\ Clients \subseteq Threads /\ Ssr # None
  BY ThreadsApart
<1>2. TypeInv /\ TypeInv'
  BY WalkTypes DEF CoreInv
<1>3. /\ \A u \in Clients : Pc(u)' = Pc(u) /\ Nx(u)' = Nx(u)
      /\ todo'[Ssr] \in {<<>>, <<"relock">>}
  BY <1>1, <1>2 DEF Take, Rests, Pc, Nx, TypeInv, PlanTypes
<1>4. /\ UNCHANGED <<currentState, on, told, listed, counted, overlapping>>
      /\ activeMutex = None /\ Rests /\ Head(msgQ) \in {"online", "offline"}
  BY <1>2 DEF Take, stream, TypeInv, DataTypes
<1>5. Pc(Ssr)' \in {"none", "relock"} /\ Nx(Ssr)' = "none" /\
          (Pc(Ssr)' = "none" <=> todo'[Ssr] = <<>>)
  BY <1>3, WalkPlans DEF Pc, Nx
<1>6. \A u \in Clients : Pc(u) # "none" => u \in overlapping /\ Pc(u) \in
          {"open", "count", "delete", "resume"}
  BY WhereTheyAre DEF Take, Undisturbed, CoreInv, Apart
<1>7. Alone'
  BY <1>3, <1>4 DEF CoreInv, Alone
<1>8. pending = {} /\ todo[Ssr] = <<>>
  BY <1>4 DEF Rests
<1>9. \/ pending' = {} /\ todo'[Ssr] = <<>> /\ activeMutex' = None /\ prevState' = cardState'
      \/ pending' # {} /\ todo'[Ssr] = <<>> /\ activeMutex' = Ssr
      \/ pending' # {} /\ todo'[Ssr] = <<"relock">> /\ activeMutex' = None /\ cardState' = "online"
  BY <1>1, <1>2, <1>4, <1>8 DEF Take, TypeInv, PlanTypes
<1>10. <<"relock">> # <<>>
  OBVIOUS
<1>11. Apart'
  BY <1>3, <1>4, <1>5, <1>6, <1>9, <1>10 DEF Apart
<1>12. UsersKnown'
  BY <1>3, <1>4, <1>5 DEF CoreInv, UsersKnown, Visiting, Closing, Plays, Is
<1>13. StatesKnown'
  <2>1. SsrState'
    BY <1>5 DEF SsrState
  <2>2. ASSUME NEW u \in Clients PROVE ClientState(u)'
    <3>1. Pc(u) # "started"
      BY <1>6
    <3> QED
      BY <1>3, <1>4, <3>1 DEF CoreInv, StatesKnown, ClientState, Plays, Is
  <2> QED
    BY <2>1, <2>2 DEF StatesKnown
<1>14. Phase' /\ Held'
  BY <1>1, <1>5, <1>9, <1>10 DEF Phase, Held, GoingDown, Rests
<1> QED
  BY <1>2, <1>7, <1>11, <1>12, <1>13, <1>14 DEF CoreInv

(***************************************************************************)
(* a visit,                                                                *)
(***************************************************************************)
LEMMA VisitCore == ASSUME CoreInv, NEW s \in Streams, Visit(s) PROVE CoreInv'
<1>1. Ssr \in Threads /\ Ssr \notin Clients /\ Clients \subseteq Threads /\ Ssr # None
  BY ThreadsApart
<1>2. TypeInv /\ TypeInv'
  BY WalkTypes DEF CoreInv
<1>3. /\ \A u \in Clients : Pc(u)' = Pc(u) /\ Nx(u)' = Nx(u) /\ on'[u] = on[u]
      /\ UNCHANGED <<currentState, told, listed, counted, overlapping, activeMutex, cardState,
                     prevState>>
      /\ activeMutex = Ssr /\ todo[Ssr] = <<>>
  BY <1>1, <1>2 DEF Visit, Pc, Nx, stream, card, TypeInv, PlanTypes
<1>4. \/ s \notin counted /\ todo'[Ssr] = <<>>
      \/ s \in counted /\ on'[Ssr] = s
         /\ todo'[Ssr] = <<IF cardState = "offline" THEN "down" ELSE "up">>
  BY <1>1, <1>2 DEF Visit, TypeInv, PlanTypes
<1>5. \/ Pc(Ssr)' = "none" /\ Nx(Ssr)' = "none"
      \/ /\ s \in counted /\ on'[Ssr] = s /\ Nx(Ssr)' = "none"
         /\ Pc(Ssr)' = IF cardState = "offline" THEN "down" ELSE "up"
  BY <1>4, WalkPlans DEF Pc, Nx
<1>6. \A u \in Clients : Pc(u) # "none" => u \in overlapping
  BY <1>3 DEF CoreInv, Apart, Rests
<1>7. Alone' /\ Apart'
  BY <1>3, <1>6 DEF CoreInv, Alone, Apart
<1>8. UsersKnown'
  BY <1>3, <1>5 DEF CoreInv, UsersKnown, Visiting, Closing, Plays, Is
<1>9. StatesKnown'
  <2>1. SsrState'
    BY <1>5 DEF SsrState
  <2>2. ASSUME NEW u \in Clients PROVE ClientState(u)'
    BY <1>3 DEF CoreInv, StatesKnown, ClientState, Plays, Is, IsStarting
  <2> QED
    BY <2>1, <2>2 DEF StatesKnown
<1>10. Phase' /\ Held'
  BY <1>1, <1>3, <1>5 DEF Phase, Held, GoingDown, Rests
<1> QED
  BY <1>2, <1>7, <1>8, <1>9, <1>10 DEF CoreInv

(***************************************************************************)
(* and the end of the walk.                                                *)
(***************************************************************************)
LEMMA EndWalkCore == ASSUME CoreInv, EndWalk PROVE CoreInv'
<1>1. Ssr # None
  BY ThreadsApart
<1>2. TypeInv /\ TypeInv'
  BY WalkTypes DEF CoreInv
<1>3. /\ UNCHANGED <<todo, on, currentState, told, listed, counted, overlapping, cardState,
                     pending>>
      /\ activeMutex = Ssr /\ todo[Ssr] = <<>> /\ pending = {}
      /\ activeMutex' = None /\ prevState' = cardState
  BY DEF EndWalk, stream, card
<1>4. \A u \in Clients : Pc(u) # "none" => u \in overlapping
  BY <1>3 DEF CoreInv, Apart, Rests
<1>5. \A u \in Threads : Pc(u)' = Pc(u) /\ Nx(u)' = Nx(u)
  BY <1>3 DEF Pc, Nx
<1>6. Pc(Ssr) = "none" /\ Nx(Ssr) = "none" /\ Clients \subseteq Threads /\ Ssr \in Threads
  BY <1>3, ThreadsApart DEF Pc, Nx, First, Second
<1>7. Alone' /\ Apart'
  BY <1>3, <1>4, <1>5, <1>6 DEF CoreInv, Alone, Apart
<1>8. UsersKnown'
  BY <1>3, <1>5, <1>6 DEF CoreInv, UsersKnown, Visiting, Closing, Plays, Is
<1>9. StatesKnown'
  <2>1. SsrState'
    BY <1>5, <1>6 DEF SsrState
  <2>2. ASSUME NEW u \in Clients PROVE ClientState(u)'
    BY <1>3, <1>5, <1>6 DEF CoreInv, StatesKnown, ClientState, Plays, Is, IsStarting
  <2> QED
    BY <2>1, <2>2 DEF StatesKnown
<1>10. Phase' /\ Held'
  BY <1>3, <1>5, <1>6 DEF Phase, Held
<1> QED
  BY <1>2, <1>7, <1>8, <1>9, <1>10 DEF CoreInv

(***************************************************************************)
(* Whatever leaves the threads and the streams alone keeps the invariant.  *)
(***************************************************************************)
CoreVars == <<todo, on, currentState, told, listed, counted, overlapping, cardState, pending,
              activeMutex, prevState>>

(***************************************************************************)
(* A step that changes nothing keeps the core.                             *)
(***************************************************************************)
LEMMA CoreStutters == ASSUME CoreInv, TypeInv', UNCHANGED CoreVars PROVE CoreInv'
<1>1. /\ \A u \in Threads : Pc(u)' = Pc(u) /\ Nx(u)' = Nx(u)
      /\ Clients \subseteq Threads /\ Ssr \in Threads
      /\ UNCHANGED <<on, currentState, told, listed, counted, overlapping, cardState, pending,
                     activeMutex, prevState>>
      /\ Rests' <=> Rests
  BY ThreadsApart DEF Pc, Nx, CoreVars, Rests
<1>2. Alone' /\ Apart'
  BY <1>1 DEF CoreInv, Alone, Apart
<1>3. UsersKnown'
  BY <1>1 DEF CoreInv, UsersKnown, Visiting, Closing, Plays, Is
<1>4. StatesKnown'
  BY <1>1 DEF CoreInv, StatesKnown, SsrState, ClientState, Plays, Is, IsStarting
<1>5. Phase' /\ Held'
  BY <1>1 DEF CoreInv, Phase, Held, GoingDown
<1> QED
  BY <1>2, <1>3, <1>4, <1>5 DEF CoreInv

(***************************************************************************)
(* It holds at the start,                                                  *)
(***************************************************************************)
LEMMA InitCore == ASSUME Init PROVE CoreInv
<1>1. TypeInv
  BY InitTypes
<1>2. /\ \A u \in Threads : Pc(u) = "none" /\ Nx(u) = "none"
      /\ Ssr \in Threads /\ Clients \subseteq Threads
  BY ThreadsApart DEF Init, InitPCM, Pc, Nx, First, Second
<1>3. Alone /\ Apart /\ UsersKnown
  BY <1>2 DEF Init, InitPCM, Alone, Apart, UsersKnown, Visiting, Closing, Plays, Is
<1>4. StatesKnown /\ Phase /\ Held
  BY <1>2 DEF Init, InitPCM, StatesKnown, SsrState, ClientState, Phase, Held
<1> QED
  BY <1>1, <1>3, <1>4 DEF CoreInv

(***************************************************************************)
(* and every step keeps it.                                                *)
(***************************************************************************)
LEMMA NextCore == ASSUME CallsKeptApart, CoreInv, [Next]_vars PROVE CoreInv'
<1>1. TypeInv'
  BY NextTypes DEF CoreInv
<1>2. CASE UNCHANGED vars \/ DspDown \/ DspUp \/ Notice
  <2>1. UNCHANGED CoreVars
    BY <1>2 DEF vars, pcm, stream, device, card, walk, env, CoreVars, DspDown, DspUp, Notice
  <2> QED
    BY <1>1, <2>1, CoreStutters
<1>3. ASSUME NEW t \in Clients, NEW c \in Calls, NEW s \in Streams, Call(t, c, s) PROVE CoreInv'
  BY <1>3, CallCore
<1>4. ASSUME NEW t \in Clients, Client(t) PROVE CoreInv'
  <2>1. overlapping' = {u \in overlapping : todo'[u] # <<>>}
    BY <1>4 DEF Client
  <2>2. Run(t) \/ Count(t) \/ Deactivate(t) \/ Delete(t)
    BY <1>4 DEF Client
  <2> QED
    BY <2>1, <2>2, ClientSectionCore, ClientOwnCore
<1>5. CASE Walk
  BY <1>5, SsrSectionCore, TakeCore, VisitCore, EndWalkCore DEF Walk
<1> QED
  BY <1>2, <1>3, <1>4, <1>5 DEF Next

(***************************************************************************)
(* Who is where: no section acts on a stream state that somebody else has  *)
(* changed since it looked.                                                *)
(***************************************************************************)
THEOREM CoreInvariant == ASSUME CallsKeptApart PROVE Spec => []CoreInv
<1>1. Init => CoreInv
  BY InitCore
<1>2. CoreInv /\ [Next]_vars => CoreInv'
  BY NextCore
<1> QED
  BY <1>1, <1>2, PTL DEF Spec

(***************************************************************************)
(* The restart thread never waits for mActiveStreamMutex while it holds    *)
(* it: its handlers give the mutex up around stop() and start() and        *)
(* nowhere else take it again.                                             *)
(***************************************************************************)
THEOREM WalkNeverBlocksItself == ASSUME CallsKeptApart PROVE Spec => []NeverWaitsForItself
<1>1. CoreInv => NeverWaitsForItself
  <2>1. SUFFICES ASSUME CoreInv, activeMutex = Ssr, todo[Ssr] # <<>>
                 PROVE Head(todo[Ssr]) \notin {"relock", "started", "stopped"}
    BY DEF NeverWaitsForItself
  <2>2. Pc(Ssr) # "none" /\ Pc(Ssr) = Head(todo[Ssr])
    BY <2>1, WhereTheyAre DEF Pc, First
  <2> QED
    BY <2>1, <2>2 DEF CoreInv, Held
<1> QED
  BY <1>1, CoreInvariant, PTL

------------------------------------------------------------------------------
(***************************************************************************)
(* What the device's fields say of the streams.                            *)
(***************************************************************************)
DeviceInv == Opened /\ Registered /\ Running

Steady == UNCHANGED <<currentState, frontEnd, active_devices, deviceCount, deviceStartStopCount>>

(***************************************************************************)
(* What a section of thread t does to its stream and to the device.        *)
(***************************************************************************)
Idles(t) == Pc(t) # "started" /\ Pc(t)' # "started"

OpensIt(t) ==
  /\ Idles(t) /\ Is(on[t], {"IDLE"})
  /\ frontEnd' = frontEnd \cup {on[t]} /\ deviceCount' = deviceCount + 1
  /\ currentState' = Set(currentState, on[t], "INIT")
  /\ UNCHANGED <<active_devices, deviceStartStopCount>>

StartsIt(t) ==
  /\ Pc(t) # "started" /\ Pc(t)' = "started" /\ Is(on[t], {"INIT", "STOPPED"})
  /\ deviceStartStopCount' = deviceStartStopCount + 1
  /\ currentState' = IF on[t] \in Input THEN currentState ELSE Set(currentState, on[t], "STARTED")
  /\ UNCHANGED <<frontEnd, deviceCount, active_devices>>

RegistersIt(t) ==
  /\ Pc(t) = "started" /\ Pc(t)' # "started"
  /\ active_devices' = active_devices \cup {on[t]}
  /\ currentState' = IF on[t] \in Input THEN Set(currentState, on[t], "STARTED") ELSE currentState
  /\ UNCHANGED <<frontEnd, deviceCount, deviceStartStopCount>>

GivesItUp(t) ==
  /\ Pc(t) = "started" /\ Pc(t)' # "started" /\ on[t] \in Input
  /\ deviceStartStopCount' = Less(deviceStartStopCount)
  /\ UNCHANGED <<currentState, frontEnd, deviceCount, active_devices>>

StopsIt(t) ==
  /\ Idles(t) /\ Plays(on[t])
  /\ currentState' = Set(currentState, on[t], "STOPPED")
  /\ active_devices' = active_devices \ {on[t]}
  /\ deviceStartStopCount' = Less(deviceStartStopCount)
  /\ UNCHANGED <<frontEnd, deviceCount>>

ClosesIt(t) ==
  /\ Idles(t) /\ Is(on[t], {"INIT", "STOPPED"})
  /\ CloseSession(on[t]) /\ UNCHANGED active_devices

KeepsItPlaying(t) ==
  /\ Idles(t) /\ Plays(on[t])
  /\ \E x \in {"STARTED", "PAUSED"} : currentState' \in {currentState, Set(currentState, on[t], x)}
  /\ active_devices' \in {active_devices, active_devices \cup {on[t]}}
  /\ UNCHANGED <<frontEnd, deviceCount, deviceStartStopCount>>

DeviceSteps(t) ==
  \/ Idles(t) /\ Steady
  \/ /\ Pc(t) \notin {"none", "resume", "relock"}
     /\ \/ OpensIt(t) \/ StartsIt(t) \/ RegistersIt(t) \/ GivesItUp(t)
        \/ StopsIt(t) \/ ClosesIt(t) \/ KeepsItPlaying(t)

(***************************************************************************)
(* What a thread runs after a section.                                     *)
(***************************************************************************)
LEMMA PcNext ==
  ASSUME TypeInv, NEW t \in Threads, todo[t] # <<>>
  PROVE  /\ Then(t, <<>>) => Pc(t)' = Nx(t)
         /\ Nx(t) # "started"
         /\ \A more : more # <<>> /\ MayPush(t, more) /\ Then(t, more) => Pc(t)' = Head(more)
         /\ StartFails(t) => Pc(t)' \in {"none", "relock"}
         /\ Abandon(t) => Pc(t)' \in {"upExit", "delete"}
<1>1. PlanTypes /\ (t \in Clients \/ t = Ssr) /\ Ssr \in Threads
  BY ThreadsApart DEF TypeInv, Threads
<1>2. MayPush(t, <<>>)
  BY DEF MayPush
<1>3. ASSUME NEW more, MayPush(t, more), Then(t, more)
      PROVE  Pc(t)' = IF more = <<>> THEN Nx(t) ELSE Head(more)
  BY <1>1, <1>3, ClientNext, SsrNext
<1>4. Nx(t) # "started"
  BY <1>1, ClientPlan, SsrPlan DEF Nx, PlanTypes
<1>5. /\ Head(<<"delete">>) = "delete" /\ <<"delete">> # <<>>
      /\ Head(<<"upExit">>) = "upExit" /\ <<"upExit">> # <<>>
      /\ Head(<<"relock", "upExit">>) = "relock" /\ <<"relock", "upExit">> # <<>>
  OBVIOUS
<1>6. /\ First(<<"delete">>) = "delete" /\ First(<<"upExit">>) = "upExit"
      /\ First(<<"relock", "upExit">>) = "relock" /\ First(<<>>) = "none"
  BY <1>5 DEF First
<1>7. \A q : Goes(t, q) => Pc(t)' = First(q)
  BY <1>1 DEF Goes, Pc, PlanTypes
<1>8. StartFails(t) => Pc(t)' \in {"none", "relock"}
  BY <1>6, <1>7 DEF StartFails
<1>9. Abandon(t) => Pc(t)' \in {"upExit", "delete"}
  BY <1>6, <1>7 DEF Abandon
<1> QED
  BY <1>2, <1>3, <1>4, <1>8, <1>9

(***************************************************************************)
(* Only a start that succeeds is followed by the registration.             *)
(***************************************************************************)
LEMMA OnlyStarts ==
  ASSUME TypeInv, NEW t \in Threads, Section(t), Pc(t)' = "started"
  PROVE  StartInput(t) \/ StartOutput(t)
<1>1. todo[t] # <<>>
  BY SectionMoves DEF TypeInv
<1>2. ~Then(t, <<>>) /\ ~StartFails(t) /\ ~Abandon(t)
  BY <1>1, PcNext
<1>3. ASSUME NEW more, more # <<>>, Head(more) # "started", MayPush(t, more) PROVE ~Then(t, more)
  BY <1>1, <1>3, PcNext
<1>4. ~OpenSession(t) /\ ~OpenSkipped(t) /\ ~StartOffline(t) /\ ~RegisterOutput(t) /\
          ~RegisterInput(t)
  BY <1>2 DEF OpenSession, OpenSkipped, StartOffline, RegisterOutput, RegisterInput
<1>5. ~StartSkipped(t) /\ ~Stopped(t) /\ ~Close(t) /\ ~Uncache(t) /\ ~Pause(t) /\ ~PauseFails(t)
  BY <1>2 DEF StartSkipped, Stopped, Close, Uncache, Pause, PauseFails
<1>6. ~Resume(t) /\ ~ResumeFails(t) /\ ~Rewrite(t) /\ ~Written(t) /\ ~DownExit(t) /\ ~UpExit(t)
  BY <1>2 DEF Resume, ResumeFails, Rewrite, Written, DownExit, UpExit
<1>7. ~Unlock(t) /\ ~Relock(t)
  BY <1>2 DEF Unlock, Relock
<1>8. ~Stop(t)
  BY <1>2, <1>3 DEF Stop, At, MayPush
<1>9. ~CloseSkipped(t)
  BY <1>2, <1>3 DEF CloseSkipped, At, MayPush
<1>10. ~Write(t)
  BY <1>2, <1>3 DEF Write, At, MayPush
<1>11. ~Repause(t)
  BY <1>2, <1>3 DEF Repause, At, MayPush
<1>12. ~Down(t)
  <2>1. ASSUME NEW more \in WalkFor("down"), Head(todo[t]) = "down" PROVE ~Then(t, more)
    <3>1. more # <<>> /\ Head(more) # "started"
      BY <2>1 DEF WalkFor
    <3> QED
      BY <1>3, <2>1, <3>1 DEF MayPush
  <2> QED
    BY <2>1 DEF Down, At, WalkFor
<1>13. ~Up(t)
  <2>1. ASSUME NEW more \in WalkFor("up"), Head(todo[t]) = "up" PROVE ~Then(t, more)
    <3>1. more # <<>> /\ Head(more) # "started"
      BY <2>1 DEF WalkFor
    <3> QED
      BY <1>3, <2>1, <3>1 DEF MayPush
  <2> QED
    BY <2>1 DEF Up, At, WalkFor
<1> QED
  BY <1>4, <1>5, <1>6, <1>7, <1>8, <1>9, <1>10, <1>11, <1>12, <1>13 DEF Section

(***************************************************************************)
(* Every section does one of these things, or nothing, to the device.      *)
(***************************************************************************)
LEMMA DeviceLocal ==
  ASSUME TypeInv, NEW t \in Threads, Section(t),
         t \in Clients => ClientState(t), t = Ssr => SsrState
  PROVE  DeviceSteps(t)
<1>1. /\ t \in Clients \/ t = Ssr
      /\ DataTypes /\ todo[t] # <<>>
  BY SectionMoves, ThreadsApart DEF TypeInv, Threads
<1>2. \A x \in {"open", "start", "started", "stop", "stopped", "close", "closed", "uncache",
                "pause", "resume",
         "write", "rewrite", "written", "down", "downExit", "up", "repause", "upExit", "unlock",
             "relock"} :
         At(t, x) => Pc(t) = x
  BY AtPc
<1>3. Pc(t) # "relock" => on[t] \in Streams
  BY <1>1, OnStream DEF Pc, First
<1>4. /\ Pc(t) = "started" => IsStarting(on[t])
      /\ Pc(t) = "stopped" => Plays(on[t])
      /\ Pc(t) = "closed" => Is(on[t], {"STOPPED"})
      /\ Pc(t) \in {"pause", "rewrite", "written"} => Plays(on[t])
      /\ Pc(t) = "downExit" => Is(on[t], {"IDLE"})
  <2>1. CASE t \in Clients
    <3>1. Pc(t) # "downExit"
      BY <2>1, ClientPlan DEF Pc, TypeInv, PlanTypes
    <3> QED
      BY <2>1, <3>1 DEF ClientState, Plays, Is
  <2>2. CASE t = Ssr
    <3>1. Pc(t) \notin {"rewrite", "written"}
      BY <2>2, SsrPlan DEF Pc, TypeInv, PlanTypes
    <3> QED
      BY <2>2, <3>1 DEF SsrState, Plays, Is
  <2> QED
    BY <1>1, <2>1, <2>2
<1>5. StartInput(t) \/ StartOutput(t) \/ Pc(t)' # "started"
  BY OnlyStarts
<1> USE DEF DeviceSteps
<1>6. CASE OpenSession(t) \/ OpenSkipped(t)
  <2>1. Pc(t) = "open" /\ Pc(t)' # "started"
    BY <1>2, <1>5, <1>6, AtPc DEF OpenSession, OpenSkipped, StartInput, StartOutput
  <2> QED
    BY <1>6, <2>1 DEF OpenSession, OpenSkipped, Idles, Steady, OpensIt, stream, session, device
<1>7. CASE StartOffline(t) \/ StartSkipped(t)
  <2>1. Pc(t) = "start" /\ Pc(t)' # "started"
    <3>1. Pc(t) = "start"
      BY <1>2, <1>7 DEF StartOffline, StartSkipped
    <3>2. ~StartInput(t) /\ ~StartOutput(t)
      BY <1>1, <1>7, <3>1 DEF StartOffline, StartSkipped, StartInput, StartOutput, Is
    <3> QED
      BY <1>5, <3>1, <3>2
  <2> QED
    BY <1>7, <2>1 DEF StartOffline, StartSkipped, Idles, Steady, stream, session, device
<1>8. CASE StartInput(t)
  <2>1. Pc(t) = "start" /\ Head(<<"started">>) = "started" /\ <<"started">> # <<>>
    BY <1>2, <1>8 DEF StartInput
  <2>2. Pc(t)' = "started"
    <3>1. MayPush(t, <<"started">>) /\ Then(t, <<"started">>)
      BY <1>8 DEF StartInput, MayPush, At
    <3> QED
      BY <1>1, <2>1, <3>1, PcNext
  <2> QED
    BY <1>8, <2>1, <2>2 DEF StartInput, StartsIt, stream, session
<1>9. CASE StartOutput(t)
  <2>1. Pc(t) = "start" /\ Head(<<"started">>) = "started" /\ <<"started">> # <<>>
    BY <1>2, <1>9 DEF StartOutput
  <2>2. Then(t, <<"started">>) => Pc(t)' = "started"
    <3>1. MayPush(t, <<"started">>)
      BY <1>9 DEF StartOutput, MayPush, At
    <3> QED
      BY <1>1, <2>1, <3>1, PcNext
  <2>3. Then(t, <<>>) \/ StartFails(t) => Pc(t)' # "started"
    BY <1>1, PcNext
  <2> QED
    BY <1>9, <2>1, <2>2, <2>3 DEF StartOutput, StartsIt, Idles, Steady
<1>10. CASE RegisterOutput(t) \/ RegisterInput(t)
  <2>1. Pc(t) = "started" /\ Pc(t)' # "started"
    <3>1. Pc(t) = "started"
      BY <1>2, <1>10 DEF RegisterOutput, RegisterInput
    <3>2. ~StartInput(t) /\ ~StartOutput(t)
      BY <1>2, <3>1 DEF StartInput, StartOutput
    <3> QED
      BY <1>5, <3>1, <3>2
  <2> QED
    BY <1>10, <2>1 DEF RegisterOutput, RegisterInput, RegistersIt, GivesItUp, stream, session
<1>11. CASE Stop(t) \/ CloseSkipped(t) \/ Uncache(t) \/ PauseFails(t) \/ Resume(t) \/
                ResumeFails(t) \/ Write(t)
  <2>1. Pc(t) \in {"stop", "close", "uncache", "pause", "resume", "write"}
    BY <1>2, <1>11 DEF Stop, CloseSkipped, Uncache, PauseFails, Resume, ResumeFails, Write
  <2>2. Pc(t)' # "started"
    BY <1>2, <1>5, <2>1 DEF StartInput, StartOutput
  <2> QED
    BY <1>11, <2>1, <2>2 DEF Stop, CloseSkipped, Uncache, PauseFails, Resume, ResumeFails,
                             Write, Idles,
       Steady, stream, session, device
<1>12. CASE Down(t) \/ Up(t) \/ Repause(t) \/ UpExit(t) \/ Unlock(t) \/ Relock(t)
  <2>1. Pc(t) \in {"down", "up", "repause", "upExit", "unlock", "relock"}
    BY <1>2, <1>12 DEF Down, Up, Repause, UpExit, Unlock, Relock
  <2>2. Pc(t)' # "started"
    BY <1>2, <1>5, <2>1 DEF StartInput, StartOutput
  <2> QED
    BY <1>12, <2>1, <2>2 DEF Down, Up, Repause, UpExit, Unlock, Relock, Idles,
       Steady, stream, session, device
<1>13. CASE DownExit(t)
  <2>1. Pc(t) = "downExit" /\ Pc(t)' # "started"
    BY <1>2, <1>5, <1>13 DEF DownExit, StartInput, StartOutput
  <2>2. currentState' = currentState
    BY <1>1, <1>3, <1>4, <1>13, <2>1 DEF DownExit, Set, Is, DataTypes
  <2> QED
    BY <1>13, <2>1, <2>2 DEF DownExit, Idles, Steady, session, device
<1>14. CASE Stopped(t)
  <2>1. Pc(t) = "stopped" /\ Pc(t)' # "started"
    BY <1>2, <1>5, <1>14 DEF Stopped, StartInput, StartOutput
  <2> QED
    BY <1>4, <1>14, <2>1 DEF Stopped, StopsIt, Idles
<1>15. CASE Close(t)
  <2>1. Pc(t) \in {"close", "closed"} /\ Pc(t)' # "started"
    BY <1>2, <1>5, <1>15 DEF Close, StartInput, StartOutput
  <2>2. Is(on[t], {"INIT", "STOPPED"})
    BY <1>2, <1>4, <1>15 DEF Close, Is
  <2> QED
    BY <1>15, <2>1, <2>2 DEF Close, ClosesIt, Idles
<1>16. CASE Pause(t)
  <2>1. Pc(t) = "pause" /\ Pc(t)' # "started"
    BY <1>2, <1>5, <1>16 DEF Pause, StartInput, StartOutput
  <2> QED
    BY <1>4, <1>16, <2>1 DEF Pause, KeepsItPlaying, Idles, session, device
<1>17. CASE Rewrite(t) \/ Written(t)
  <2>1. Pc(t) \in {"rewrite", "written"} /\ Pc(t)' # "started"
    BY <1>2, <1>5, <1>17 DEF Rewrite, Written, StartInput, StartOutput
  <2> QED
    BY <1>4, <1>17, <2>1 DEF Rewrite, Written, KeepsItPlaying, Idles, stream, session, device
<1> QED
  BY <1>6, <1>7, <1>8, <1>9, <1>10, <1>11, <1>12, <1>13, <1>14, <1>15, <1>16, <1>17 DEF Section

(***************************************************************************)
(* Nobody else is about to register the stream that a thread is changing.  *)
(***************************************************************************)
LEMMA OneStarts ==
  ASSUME CoreInv, NEW t \in Threads, Pc(t) \notin {"none", "resume", "relock"}
  PROVE  /\ \A u \in Threads \ {t} : Pc(u) = "started" => on[u] # on[t]
         /\ on[t] \in Streams
<1>1. t \in Clients \/ t = Ssr
  BY ThreadsApart
<1>2. CASE t \in Clients
  <2>1. on[t] \in Streams /\ \A u \in Clients \ {t} : Pc(u) = "started" => on[u] # on[t]
    BY <1>2, WhereTheyAre DEF CoreInv, Alone
  <2>2. Pc(Ssr) = "started" => on[Ssr] # on[t]
    BY <1>2, WhereTheyAre DEF Visiting
  <2> QED
    BY <2>1, <2>2, ThreadsApart
<1>3. CASE t = Ssr
  <2>1. on[t] \in Streams /\ Pc(Ssr) # "none"
    BY <1>3, WhereTheyAre DEF Visiting
  <2>2. \A u \in Clients : Pc(u) # "started"
    BY <2>1, WhereTheyAre
  <2> QED
    BY <1>3, <2>1, <2>2, ThreadsApart
<1> QED
  BY <1>1, <1>2, <1>3

(***************************************************************************)
(* The streams that play, and those with a front end, can be counted.      *)
(***************************************************************************)
LEMMA PlayingFinite ==
  ASSUME DataTypes
  PROVE  IsFiniteSet(Playing) /\ IsFiniteSet(frontEnd) /\ Cardinality(Playing) \in Nat
<1>1. Playing \in SUBSET Streams /\ frontEnd \in SUBSET Streams /\ IsFiniteSet(Streams)
  BY StreamsAssumption DEF Playing, DataTypes
<1> QED
  BY <1>1, FS_Subset, FS_CardinalityType

(***************************************************************************)
(* A device that nobody but one stream uses is not started.                *)
(***************************************************************************)
LEMMA LastOfAll ==
  ASSUME CoreInv, DeviceInv, NEW s \in Streams, ~Plays(s), ~Starting(s), ~Is(s, {"IDLE"}),
         deviceCount = 1
  PROVE  deviceStartStopCount = 0
<1>1. DataTypes
  BY DEF CoreInv, TypeInv
<1>2. PICK r : frontEnd = {r}
  BY <1>1, PlayingFinite, FS_Singleton DEF DeviceInv, Opened
<1>3. s = r
  BY <1>2 DEF DeviceInv, Opened
<1>4. ASSUME NEW p \in Streams, Starting(p), p \in Input PROVE p \in frontEnd
  <2>1. PICK u \in Threads : Pc(u) = "started" /\ on[u] = p
    BY <1>4 DEF Starting
  <2>2. IsStarting(p)
    BY <2>1, ThreadsApart DEF CoreInv, StatesKnown, ClientState, SsrState
  <2> QED
    BY <1>4, <2>2 DEF DeviceInv, Opened, IsStarting, Is
<1>5. ASSUME NEW p \in Streams, Plays(p) PROVE p \in frontEnd
  BY <1>5 DEF DeviceInv, Opened, Plays, Is
<1>6. Playing = {}
  BY <1>2, <1>3, <1>4, <1>5 DEF Playing
<1> QED
  BY <1>6, FS_EmptySet DEF DeviceInv, Running

(***************************************************************************)
(* Steps that touch neither streams nor device keep the invariant,         *)
(***************************************************************************)
LEMMA DeviceKept ==
  ASSUME CoreInv, DeviceInv, Steady, \A s \in Streams : Starting(s)' <=> Starting(s)
  PROVE  DeviceInv'
<1>1. /\ \A s \in Streams : Plays(s)' <=> Plays(s)
      /\ \A s \in Streams : Is(s, {"IDLE"})' <=> Is(s, {"IDLE"})
  BY DEF Steady, Plays, Is
<1>2. Playing' = Playing
  BY <1>1 DEF Playing
<1>3. Opened'
  BY <1>1 DEF DeviceInv, Opened, Steady
<1>4. Registered'
  BY <1>1 DEF DeviceInv, Registered, Steady
<1>5. Running'
  BY <1>2 DEF DeviceInv, Running, Steady
<1> QED
  BY <1>3, <1>4, <1>5 DEF DeviceInv

(***************************************************************************)
(* and so do the sections, one by one.                                     *)
(***************************************************************************)
LEMMA SectionDevice ==
  ASSUME CoreInv, DeviceInv, NEW t \in Threads, DeviceSteps(t),
         \A u \in Threads \ {t} : Pc(u)' = Pc(u) /\ on'[u] = on[u],
         Pc(t)' # "none" => on'[t] = on[t]
  PROVE  DeviceInv'
<1>1. CASE Idles(t) /\ Steady
  <2>1. \A s \in Streams : Starting(s)' <=> Starting(s)
    BY <1>1 DEF Idles, Starting
  <2> QED
    BY <1>1, <2>1, DeviceKept
<1>2. CASE Pc(t) \notin {"none", "resume", "relock"}
  <2> DEFINE s == on[t]
  <2>1. /\ s \in Streams /\ \A u \in Threads \ {t} : Pc(u) = "started" => on[u] # s
        /\ DataTypes /\ Opened /\ Registered /\ Running
        /\ IsFiniteSet(Playing) /\ IsFiniteSet(frontEnd) /\ Cardinality(Playing) \in Nat
        /\ IsFiniteSet(Streams) /\ deviceCount \in Nat /\ deviceStartStopCount \in Nat
    BY <1>2, OneStarts, PlayingFinite, StreamsAssumption DEF CoreInv, TypeInv, DeviceInv, DataTypes
  <2>2. /\ Starting(s) <=> Pc(t) = "started"
        /\ \A r \in Streams \ {s} : Starting(r)' <=> Starting(r)
    BY <2>1 DEF Starting
  <2>3. (\E u \in Threads : Pc(u)' = "started" /\ on'[u] = s) <=> Pc(t)' = "started"
    BY <2>1
  <2>4. Pc(t) = "started" => IsStarting(s)
    BY ThreadsApart DEF CoreInv, StatesKnown, ClientState, SsrState
  <2>5. ASSUME NEW x, currentState' = Set(currentState, s, x)
        PROVE  currentState'[s] = x /\ \A r \in Streams \ {s} : currentState'[r] = currentState[r]
    BY <2>1, <2>5 DEF Set, DataTypes
  <2>6. Playing' = {r \in Streams : currentState'[r] \in {"STARTED", "PAUSED"}
                       \/ (r \in Input /\ \E u \in Threads : Pc(u)' = "started" /\ on'[u] = r)}
    BY DEF Playing, Plays, Is, Starting
  <2>7. Playing = {r \in Streams : currentState[r] \in {"STARTED", "PAUSED"} \/
                   (r \in Input /\ Starting(r))}
    BY DEF Playing, Plays, Is
  <2>8. \A r \in Streams \ {s} :
          (\E u \in Threads : Pc(u)' = "started" /\ on'[u] = r) <=> Starting(r)
    BY <2>2 DEF Starting
  <2>9. /\ Opened' <=> /\ \A r \in Streams : r \in frontEnd' <=> currentState'[r] # "IDLE"
                       /\ deviceCount' = Cardinality(frontEnd')
        /\ Running' <=> deviceStartStopCount' = Cardinality(Playing')
        /\ Registered' <=> \A r \in Streams : r \in active_devices' <=>
             /\ currentState'[r] \in {"STARTED", "PAUSED"}
             /\ ~(r \notin Input /\ \E u \in Threads : Pc(u)' = "started" /\ on'[u] = r)
    BY DEF Opened, Running, Registered, Plays, Is, Starting
  <2>10. /\ \A r \in Streams : r \in frontEnd <=> currentState[r] # "IDLE"
         /\ deviceCount = Cardinality(frontEnd)
         /\ deviceStartStopCount = Cardinality(Playing)
         /\ \A r \in Streams : r \in active_devices <=>
              currentState[r] \in {"STARTED", "PAUSED"} /\ ~(r \notin Input /\ Starting(r))
    BY <2>1 DEF Opened, Running, Registered, Plays, Is
  <2>11. CASE OpensIt(t)
    <3>1. /\ Pc(t) # "started" /\ Pc(t)' # "started" /\ currentState[s] = "IDLE"
          /\ currentState'[s] = "INIT" /\ \A r \in Streams \ {s} : currentState'[r] =
                 currentState[r]
      BY <2>5, <2>11 DEF OpensIt, Idles, Is
    <3>2. Playing' = Playing
      BY <2>2, <2>3, <2>6, <2>7, <2>8, <3>1
    <3>3. deviceCount' = Cardinality(frontEnd')
      BY <2>1, <2>10, <2>11, <3>1, FS_AddElement DEF OpensIt
    <3> QED
      BY <2>1, <2>2, <2>3, <2>8, <2>9, <2>10, <2>11, <3>1, <3>2, <3>3 DEF OpensIt, DeviceInv
  <2>12. CASE StartsIt(t)
    <3>1. /\ Pc(t) # "started" /\ Pc(t)' = "started" /\ currentState[s] \in {"INIT", "STOPPED"}
          /\ currentState'[s] = IF s \in Input THEN currentState[s] ELSE "STARTED"
          /\ \A r \in Streams \ {s} : currentState'[r] = currentState[r]
      BY <2>5, <2>12 DEF StartsIt, Is
    <3>2. Playing' = Playing \cup {s} /\ s \notin Playing
      BY <2>1, <2>2, <2>3, <2>6, <2>7, <2>8, <3>1
    <3>3. deviceStartStopCount' = Cardinality(Playing')
      BY <2>1, <2>10, <2>12, <3>2, FS_AddElement DEF StartsIt
    <3> QED
      BY <2>1, <2>2, <2>3, <2>8, <2>9, <2>10, <2>12, <3>1, <3>3 DEF StartsIt, DeviceInv
  <2>13. CASE RegistersIt(t)
    <3>1. /\ Pc(t) = "started" /\ Pc(t)' # "started"
          /\ currentState[s] \in (IF s \in Input THEN {"INIT", "STOPPED"} ELSE {"STARTED"})
          /\ currentState'[s] = "STARTED"
          /\ \A r \in Streams \ {s} : currentState'[r] = currentState[r]
      BY <2>4, <2>5, <2>13 DEF RegistersIt, IsStarting, Is
    <3>2. Playing' = Playing
      BY <2>1, <2>2, <2>3, <2>6, <2>7, <2>8, <3>1
    <3> QED
      BY <2>1, <2>2, <2>3, <2>8, <2>9, <2>10, <2>13, <3>1, <3>2 DEF RegistersIt, DeviceInv
  <2>14. CASE GivesItUp(t)
    <3>1. /\ Pc(t) = "started" /\ Pc(t)' # "started" /\ s \in Input
          /\ currentState[s] \in {"INIT", "STOPPED"} /\ currentState' = currentState
      BY <2>4, <2>14 DEF GivesItUp, IsStarting, Is
    <3>2. Playing' = Playing \ {s} /\ s \in Playing
      BY <2>1, <2>2, <2>3, <2>6, <2>7, <2>8, <3>1
    <3>3. Cardinality(Playing') = Cardinality(Playing) - 1 /\ Cardinality(Playing') \in Nat
      BY <2>1, <3>2, FS_RemoveElement, FS_CardinalityType
    <3>4. deviceStartStopCount' = Cardinality(Playing')
      BY <2>1, <2>10, <2>14, <3>3 DEF GivesItUp, Less
    <3> QED
      BY <2>1, <2>2, <2>3, <2>8, <2>9, <2>10, <2>14, <3>1, <3>4 DEF GivesItUp, DeviceInv
  <2>15. CASE StopsIt(t)
    <3>1. /\ Pc(t) # "started" /\ Pc(t)' # "started"
          /\ currentState[s] \in {"STARTED", "PAUSED"}
          /\ currentState'[s] = "STOPPED" /\ \A r \in Streams \ {s} : currentState'[r] =
                 currentState[r]
      BY <2>5, <2>15 DEF StopsIt, Idles, Plays, Is
    <3>2. Playing' = Playing \ {s} /\ s \in Playing
      BY <2>1, <2>2, <2>3, <2>6, <2>7, <2>8, <3>1
    <3>3. Cardinality(Playing') = Cardinality(Playing) - 1 /\ Cardinality(Playing') \in Nat
      BY <2>1, <3>2, FS_RemoveElement, FS_CardinalityType
    <3>4. deviceStartStopCount' = Cardinality(Playing')
      BY <2>1, <2>10, <2>15, <3>3 DEF StopsIt, Less
    <3> QED
      BY <2>1, <2>2, <2>3, <2>8, <2>9, <2>10, <2>15, <3>1, <3>4 DEF StopsIt, DeviceInv
  <2>16. CASE ClosesIt(t)
    <3>1. /\ Pc(t) # "started" /\ Pc(t)' # "started"
          /\ currentState[s] \in {"INIT", "STOPPED"}
          /\ currentState'[s] = "IDLE" /\ \A r \in Streams \ {s} : currentState'[r] =
                 currentState[r]
      BY <2>5, <2>16 DEF ClosesIt, CloseSession, Idles, Is
    <3>2. Playing' = Playing
      BY <2>1, <2>2, <2>3, <2>6, <2>7, <2>8, <3>1
    <3>3. deviceCount = 1 => deviceStartStopCount = 0
      BY <2>1, <2>2, <3>1, LastOfAll DEF Plays, Is
    <3>4. deviceStartStopCount' = Cardinality(Playing')
      BY <2>10, <2>16, <3>2, <3>3 DEF ClosesIt, CloseSession
    <3>5. Cardinality(frontEnd') = Cardinality(frontEnd) - 1 /\ Cardinality(frontEnd') \in Nat
      BY <2>1, <2>10, <2>16, <3>1, FS_RemoveElement, FS_CardinalityType DEF ClosesIt, CloseSession
    <3>6. deviceCount' = Cardinality(frontEnd')
      BY <2>1, <2>10, <2>16, <3>5 DEF ClosesIt, CloseSession, Less
    <3> QED
      BY <2>1, <2>2, <2>3, <2>8, <2>9, <2>10, <2>16, <3>1, <3>4, <3>6 DEF ClosesIt,
         CloseSession, DeviceInv
  <2>17. CASE KeepsItPlaying(t)
    <3>1. /\ Pc(t) # "started" /\ Pc(t)' # "started"
          /\ currentState[s] \in {"STARTED", "PAUSED"}
          /\ currentState'[s] \in {"STARTED", "PAUSED"}
          /\ \A r \in Streams \ {s} : currentState'[r] = currentState[r]
      BY <2>5, <2>17 DEF KeepsItPlaying, Idles, Plays, Is
    <3>2. Playing' = Playing
      BY <2>1, <2>2, <2>3, <2>6, <2>7, <2>8, <3>1
    <3>3. s \in active_devices
      BY <2>1, <2>2, <2>10, <3>1
    <3> QED
      BY <2>1, <2>2, <2>3, <2>8, <2>9, <2>10, <2>17, <3>1, <3>2, <3>3 DEF KeepsItPlaying, DeviceInv
  <2> QED
    BY <1>1, <1>2, <2>11, <2>12, <2>13, <2>14, <2>15, <2>16, <2>17 DEF DeviceSteps
<1> QED
  BY <1>1, <1>2 DEF DeviceSteps

(***************************************************************************)
(* The two threads' sections, with what has been found out about them.     *)
(***************************************************************************)
LEMMA SectionFacts ==
  ASSUME CoreInv, NEW t \in Threads, Section(t)
  PROVE  /\ DeviceSteps(t)
         /\ \A u \in Threads \ {t} : Pc(u)' = Pc(u) /\ on'[u] = on[u]
         /\ Pc(t)' # "none" => on'[t] = on[t]
<1>1. TypeInv /\ (t \in Clients => ClientState(t)) /\ (t = Ssr => SsrState)
  BY DEF CoreInv, StatesKnown
<1>2. DeviceSteps(t)
  BY <1>1, DeviceLocal
<1>3. PICK q : Moves(t, q)
  BY <1>1, SectionMoves DEF TypeInv
<1> QED
  BY <1>1, <1>2, <1>3, OthersKeep DEF TypeInv

(***************************************************************************)
(* A stream is idle when it is deleted, so that changes nothing for the    *)
(* device.                                                                 *)
(***************************************************************************)
LEMMA OwnDevice ==
  ASSUME CoreInv, DeviceInv, NEW t \in Clients, Count(t) \/ Deactivate(t) \/ Delete(t)
  PROVE  Steady /\ Still /\ \A u \in Threads : Pc(u)' = "started" <=> Pc(u) = "started"
<1>1. /\ t \in Threads /\ TypeInv /\ todo[t] # <<>> /\ Then(t, <<>>)
      /\ DataTypes /\ PlanTypes
  BY ThreadsApart DEF CoreInv, TypeInv, Count, Deactivate, Delete, At
<1>2. Pc(t) \in {"count", "deactivate", "delete"} /\ (Delete(t) => Pc(t) = "delete")
  BY AtPc DEF Count, Deactivate, Delete
<1>3. Pc(t)' # "started"
  BY <1>1, PcNext
<1>4. \A u \in Threads \ {t} : Pc(u)' = Pc(u)
  BY <1>1, ThenMoves, OthersKeep DEF MayPush
<1>5. Still
  <2>1. CASE Count(t) \/ Deactivate(t)
    BY <2>1 DEF Count, Deactivate, Still, stream, session, device
  <2>2. CASE Delete(t)
    <3>1. on[t] \in Streams /\ currentState[on[t]] = "IDLE"
      BY <1>2, <2>2, WhereTheyAre DEF CoreInv, StatesKnown, ClientState, Is
    <3>2. currentState' = currentState
      BY <1>1, <2>2, <3>1 DEF Delete, Set, DataTypes
    <3> QED
      BY <2>2, <3>2 DEF Delete, Still, session, device
  <2> QED
    BY <2>1, <2>2
<1> QED
  BY <1>2, <1>3, <1>4, <1>5 DEF Still, Steady

(***************************************************************************)
(* The device is closed at the start.                                      *)
(***************************************************************************)
LEMMA InitDevice == ASSUME Init PROVE DeviceInv
<1>1. /\ \A t \in Threads : Pc(t) = "none"
      /\ \A s \in Streams : currentState[s] = "IDLE"
      /\ frontEnd = {} /\ active_devices = {} /\ deviceCount = 0 /\ deviceStartStopCount = 0
  BY DEF Init, InitPCM, Pc, First
<1>2. Playing = {}
  BY <1>1 DEF Playing, Plays, Is, Starting
<1> QED
  BY <1>1, <1>2, FS_EmptySet DEF DeviceInv, Opened, Registered, Running, Plays, Is

(***************************************************************************)
(* Every step keeps what the device's fields say.                          *)
(***************************************************************************)
LEMMA NextDevice ==
  ASSUME CallsKeptApart, CoreInv, DeviceInv, [Next]_vars
  PROVE  DeviceInv'
<1>1. CASE UNCHANGED vars \/ DspDown \/ DspUp \/ Notice
  <2>1. Steady /\ UNCHANGED <<todo, on>>
    BY <1>1 DEF vars, pcm, stream, session, device, Steady, DspDown, DspUp, Notice
  <2>2. \A s \in Streams : Starting(s)' <=> Starting(s)
    BY <2>1 DEF Starting, Pc
  <2> QED
    BY <2>1, <2>2, DeviceKept
<1>2. ASSUME NEW t \in Clients, NEW c \in Calls, NEW s \in Streams, Call(t, c, s) PROVE DeviceInv'
  <2>1. /\ t \in Threads /\ todo[t] = <<>> /\ todo' = [todo EXCEPT ![t] = Program(c)]
        /\ on' = [on EXCEPT ![t] = s] /\ Steady /\ PlanTypes
    BY <1>2, ThreadsApart DEF Call, stream, session, device, Steady, CoreInv, TypeInv
  <2>2. Pc(t) # "started" /\ Pc(t)' # "started"
    BY <2>1, Programs DEF Pc, First, Calls, PlanTypes
  <2>3. \A u \in Threads \ {t} : Pc(u)' = Pc(u) /\ on'[u] = on[u]
    BY <2>1 DEF Pc, PlanTypes
  <2>4. \A r \in Streams : Starting(r)' <=> Starting(r)
    BY <2>2, <2>3 DEF Starting
  <2> QED
    BY <2>1, <2>4, DeviceKept
<1>3. ASSUME NEW t \in Threads, Section(t) PROVE DeviceInv'
  BY <1>3, SectionFacts, SectionDevice
<1>4. ASSUME NEW t \in Clients, Count(t) \/ Deactivate(t) \/ Delete(t) PROVE DeviceInv'
  <2>1. Steady /\ \A u \in Threads : Pc(u)' = "started" <=> Pc(u) = "started"
    BY <1>4, OwnDevice
  <2>2. t \in Threads /\ PlanTypes /\ Pc(t)' # "started"
    BY <1>4, <2>1, AtPc, ThreadsApart DEF Count, Deactivate, Delete, CoreInv, TypeInv
  <2>3. \A u \in Threads \ {t} : on'[u] = on[u]
    BY <1>4, <2>2 DEF Count, Deactivate, Delete, Then, Goes, PlanTypes
  <2>4. \A r \in Streams : Starting(r)' <=> Starting(r)
    BY <2>1, <2>2, <2>3 DEF Starting
  <2> QED
    BY <2>1, <2>4, DeviceKept
<1>5. CASE Take \/ EndWalk \/ \E s \in Streams : Visit(s)
  <2>1. /\ Steady /\ Ssr \in Threads /\ todo[Ssr] = <<>>
        /\ todo' = todo \/ (\E x \in {"relock", "down", "up"} : todo' =
                            [todo EXCEPT ![Ssr] = <<x>>])
        /\ on' = on \/ (\E s \in Streams : on' = [on EXCEPT ![Ssr] = s])
        /\ PlanTypes
    BY <1>5, ThreadsApart DEF Take, EndWalk, Visit, Rests, stream, session, device, Steady,
                              CoreInv, TypeInv
  <2>2. Pc(Ssr) # "started" /\ Pc(Ssr)' # "started"
    BY <2>1, WalkPlans DEF Pc, First, PlanTypes
  <2>3. \A u \in Threads \ {Ssr} : Pc(u)' = Pc(u) /\ on'[u] = on[u]
    BY <2>1 DEF Pc, PlanTypes
  <2>4. \A r \in Streams : Starting(r)' <=> Starting(r)
    BY <2>2, <2>3 DEF Starting
  <2> QED
    BY <2>1, <2>4, DeviceKept
<1>6. ASSUME NEW t \in Clients, Client(t) PROVE DeviceInv'
  BY <1>3, <1>4, <1>6, ThreadsApart DEF Client, Run
<1>7. CASE Walk
  BY <1>3, <1>5, <1>7, ThreadsApart DEF Walk, Run
<1> QED
  BY <1>1, <1>2, <1>6, <1>7 DEF Next

------------------------------------------------------------------------------
(***************************************************************************)
(* Where the news of a DSP that went down is.                              *)
(***************************************************************************)
DeathInv == AllVisited /\ DeathIsHeard

(***************************************************************************)
(* What a section does to the graph of its stream.                         *)
(***************************************************************************)
LEMMA GraphLocal ==
  ASSUME TypeInv, NEW t \in Threads, Section(t), on[t] \in Streams, Pc(t) # "relock"
  PROVE  /\ graph'[on[t]] \in {graph[on[t]], "running"} \/ currentState'[on[t]] \in
                {"IDLE", "STOPPED"}
         /\ StartsIt(t) /\ on[t] \notin Input => graph'[on[t]] = "running"
         /\ RegistersIt(t) /\ on[t] \in Input => graph'[on[t]] = "running" \/ currentState' =
                currentState
<1>1. DataTypes
  BY DEF TypeInv
<1>2. \/ UNCHANGED graph
      \/ Stopped(t) \/ Close(t)
      \/ graph' = Set(graph, on[t], "running")
  BY DEF Section, OpenSession, OpenSkipped, StartOffline, StartInput, StartOutput,
         StartSkipped, RegisterOutput, RegisterInput, Stop, CloseSkipped, Uncache,
         Pause, PauseFails, Resume, ResumeFails, Write, Rewrite, Written, Down, DownExit, Up,
         Repause, UpExit, Unlock, Relock, session
<1>3. Stopped(t) \/ Close(t) => currentState'[on[t]] \in {"IDLE", "STOPPED"}
  BY <1>1 DEF Stopped, Close, CloseSession, Set, DataTypes
<1>4. graph' = Set(graph, on[t], "running") => graph'[on[t]] = "running"
  BY <1>1 DEF Set, DataTypes
<1>5. StartsIt(t) /\ on[t] \notin Input => graph'[on[t]] = "running"
  <2>1. SUFFICES ASSUME StartsIt(t), on[t] \notin Input PROVE graph'[on[t]] = "running"
    OBVIOUS
  <2>2. StartOutput(t) /\ deviceStartStopCount' = deviceStartStopCount + 1
    BY <2>1, OnlyStarts DEF StartsIt, StartInput
  <2> QED
    BY <1>1, <1>4, <2>2 DEF StartOutput, DataTypes
<1>6. RegistersIt(t) /\ on[t] \in Input => graph'[on[t]] = "running" \/ currentState' =
          currentState
  <2>1. SUFFICES ASSUME RegistersIt(t), on[t] \in Input, currentState' # currentState
                 PROVE  graph'[on[t]] = "running"
    OBVIOUS
  <2>2. RegisterInput(t)
    <3>1. /\ Pc(t) = "started"
          /\ \A x \in {"open", "start", "stop", "stopped", "close", "closed", "uncache",
                       "pause", "resume",
                       "write", "rewrite", "written", "down", "downExit", "up", "repause",
                           "upExit",
                       "unlock", "relock"} : ~At(t, x)
      BY <2>1, AtPc DEF RegistersIt
    <3> QED
      BY <2>1, <3>1 DEF Section, OpenSession, OpenSkipped, StartOffline, StartInput, StartOutput,
         StartSkipped, RegisterOutput, RegisterInput, Stop, Stopped, CloseSkipped, Close, Uncache,
         Pause, PauseFails, Resume, ResumeFails, Write, Rewrite, Written, Down, DownExit, Up,
         Repause, UpExit, Unlock, Relock
  <2> QED
    BY <1>4, <2>1, <2>2 DEF RegisterInput
<1> QED
  BY <1>2, <1>3, <1>4, <1>5, <1>6

(***************************************************************************)
(* A stream that begins to play has a graph that runs, and does not begin  *)
(* while the card is off.                                                  *)
(***************************************************************************)
LEMMA BeginsToPlay ==
  ASSUME CoreInv, NEW t \in Threads, Section(t), on[t] \in Streams, ~Plays(on[t]),
         currentState'[on[t]] \in {"STARTED", "PAUSED"}
  PROVE  cardState = "online" /\ graph'[on[t]] = "running"
<1>1. DeviceSteps(t) /\ TypeInv /\ DataTypes
  BY SectionFacts DEF CoreInv, TypeInv
<1>2. currentState' # currentState
  BY DEF Plays, Is
<1>3. \/ StartsIt(t) /\ on[t] \notin Input
      \/ RegistersIt(t) /\ on[t] \in Input
  BY <1>1, <1>2 DEF DeviceSteps, Steady, OpensIt, StartsIt, RegistersIt, GivesItUp, StopsIt,
                    ClosesIt,
     KeepsItPlaying, CloseSession, Set, DataTypes, Plays, Is
<1>4. Pc(t) # "relock"
  BY <1>1, <1>2 DEF DeviceSteps, Steady
<1>5. graph'[on[t]] = "running"
  BY <1>1, <1>2, <1>3, <1>4, GraphLocal
<1>6. CASE StartsIt(t)
  <2>1. cardState # "offline"
    BY <1>1, <1>6, OnlyStarts DEF StartsIt, StartInput, StartOutput
  <2> QED
    BY <1>1, <1>5, <2>1 DEF DataTypes
<1>7. CASE RegistersIt(t)
  <2>1. Pc(t) = "started"
    BY <1>7 DEF RegistersIt
  <2>2. t \in Clients => cardState = "online"
    BY <2>1 DEF CoreInv, StatesKnown, ClientState
  <2>3. t = Ssr => cardState # "offline"
    BY <2>1 DEF CoreInv, Phase, GoingDown
  <2> QED
    BY <1>1, <1>5, <2>2, <2>3, ThreadsApart DEF DataTypes
<1> QED
  BY <1>3, <1>6, <1>7

(***************************************************************************)
(* A message in the queue stays there when others are added.               *)
(***************************************************************************)
LEMMA AppendKeeps ==
  ASSUME DataTypes, Announced, msgQ' = msgQ \/ \E m \in {"online", "offline"} : msgQ' =
             Append(msgQ, m)
  PROVE  Announced'
<1>1. PICK i \in 1..Len(msgQ) : msgQ[i] = "offline"
  BY DEF Announced
<1>2. msgQ \in Seq({"online", "offline"}) /\ Len(msgQ) \in Nat
  BY DEF DataTypes
<1>3. i \in 1..Len(msgQ') /\ msgQ'[i] = msgQ[i]
  <2>1. CASE msgQ' = msgQ
    BY <2>1
  <2>2. ASSUME NEW m \in {"online", "offline"}, msgQ' = Append(msgQ, m)
        PROVE i \in 1..Len(msgQ') /\ msgQ'[i] = msgQ[i]
    BY <1>2, <2>2
  <2> QED
    BY <2>1, <2>2
<1> QED
  BY <1>1, <1>3 DEF Announced

(***************************************************************************)
(* A section neither forgets a stream nor overlooks a dead graph.          *)
(***************************************************************************)
LEMMA SectionDeath ==
  ASSUME CoreInv, DeathInv, NEW t \in Threads, Section(t), UNCHANGED <<pending, heard>>
  PROVE  DeathInv'
<1>1. TypeInv /\ DataTypes /\ (t \in Clients \/ t = Ssr)
  BY ThreadsApart DEF CoreInv, TypeInv, Threads
<1>2. /\ UNCHANGED <<cardState, dsp>>
      /\ \A s \in Streams : s # on[t] => currentState'[s] = currentState[s] /\ graph'[s] = graph[s]
  BY <1>1, SectionFrame
<1>3. Announced => Announced'
  <2>1. msgQ' = msgQ \/ \E m \in {"online", "offline"} : msgQ' = Append(msgQ, m)
    BY <1>1, SectionFrame DEF Report
  <2> QED
    BY <1>1, <2>1, AppendKeeps
<1>4. Pc(t) = "relock" => UNCHANGED <<currentState, graph>>
  <2>1. Pc(t) = "relock" => t = Ssr
    BY <1>1, ClientPlan DEF Pc, TypeInv, PlanTypes
  <2>2. t = Ssr => SsrSteps
    BY <1>1, SsrLocal DEF CoreInv, StatesKnown
  <2> QED
    BY <2>1, <2>2 DEF SsrSteps, Still
<1>5. AllVisited'
  <2>1. SUFFICES ASSUME cardState = "offline", NEW s \in Streams, currentState'[s] \in
                            {"STARTED", "PAUSED"}
                 PROVE  s \in pending \/ (on'[Ssr] = s /\ Pc(Ssr)' \in {"down", "stop", "stopped"})
    BY <1>2 DEF AllVisited, Plays, Is
  <2>2. Plays(s)
    BY <1>2, <2>1, BeginsToPlay DEF Plays, Is
  <2>3. s \in pending \/ (on[Ssr] = s /\ Pc(Ssr) \in {"down", "stop", "stopped"})
    BY <2>1, <2>2 DEF DeathInv, AllVisited
  <2>4. CASE t = Ssr
    <3>1. SsrSteps
      BY <1>1, <2>4, SsrLocal DEF CoreInv, StatesKnown
    <3> QED
      BY <2>1, <2>3, <3>1 DEF SsrSteps
  <2>5. CASE t \in Clients
    <3>1. Pc(Ssr)' = Pc(Ssr) /\ on'[Ssr] = on[Ssr]
      BY <2>5, SectionFacts, ThreadsApart
    <3> QED
      BY <2>3, <3>1
  <2> QED
    BY <1>1, <2>4, <2>5
<1>6. DeathIsHeard'
  <2>1. SUFFICES ASSUME NEW s \in Streams, currentState'[s] \in {"STARTED", "PAUSED"},
                            graph'[s] # "running"
                 PROVE  cardState = "offline" \/ (~dsp /\ heard) \/ Announced'
    BY <1>2 DEF DeathIsHeard, Plays, Is
  <2>2. Plays(s) /\ graph[s] # "running"
    <3>1. CASE s # on[t]
      BY <1>2, <2>1, <3>1 DEF Plays, Is
    <3>2. CASE s = on[t] /\ Pc(t) = "relock"
      BY <1>4, <2>1, <3>2 DEF Plays, Is
    <3>3. CASE s = on[t] /\ Pc(t) # "relock"
      BY <1>1, <2>1, <3>3, BeginsToPlay, GraphLocal
    <3> QED
      BY <3>1, <3>2, <3>3
  <2> QED
    BY <1>3, <2>2 DEF DeathInv, DeathIsHeard
<1> QED
  BY <1>5, <1>6 DEF DeathInv

(***************************************************************************)
(* What leaves the streams that play, their graphs and the messages alone. *)
(***************************************************************************)
LEMMA DeathKept ==
  ASSUME DeathInv,
         \A s \in Streams : Plays(s)' => Plays(s) /\ graph'[s] = graph[s] /\
             (s \in pending => s \in pending'),
         UNCHANGED <<cardState, dsp, heard, msgQ>>,
         \A s \in Streams : on[Ssr] = s /\ Pc(Ssr) \in {"down", "stop", "stopped"} =>
           on'[Ssr] = s /\ Pc(Ssr)' \in {"down", "stop", "stopped"}
  PROVE  DeathInv'
<1>1. AllVisited'
  <2>1. SUFFICES ASSUME cardState = "offline", NEW s \in Streams, Plays(s)'
                 PROVE  s \in pending' \/ (on'[Ssr] = s /\ Pc(Ssr)' \in {"down", "stop",
                            "stopped"})
    BY DEF AllVisited
  <2>2. Plays(s) /\ (s \in pending => s \in pending')
    BY <2>1
  <2> QED
    BY <2>1, <2>2 DEF DeathInv, AllVisited
<1>2. DeathIsHeard'
  <2>1. SUFFICES ASSUME NEW s \in Streams, Plays(s)', graph'[s] # "running"
                 PROVE  cardState' = "offline" \/ (~dsp' /\ heard') \/ Announced'
    BY DEF DeathIsHeard
  <2>2. Plays(s) /\ graph[s] # "running" /\ (Announced <=> Announced')
    BY <2>1 DEF Announced
  <2> QED
    BY <2>2 DEF DeathInv, DeathIsHeard
<1> QED
  BY <1>1, <1>2 DEF DeathInv

(***************************************************************************)
(* The message that is taken from the queue becomes the card's state; the  *)
(* walk it begins has all streams to visit.                                *)
(***************************************************************************)
LEMMA TakeDeath == ASSUME CoreInv, DeathInv, Take PROVE DeathInv'
<1>1. /\ DataTypes /\ Ssr \in Threads /\ PlanTypes /\ pending = {} /\ todo[Ssr] = <<>> /\
             Pc(Ssr) = "none"
      /\ UNCHANGED <<currentState, graph, dsp, heard>>
      /\ msgQ # <<>> /\ msgQ' = Tail(msgQ) /\ cardState' = Head(msgQ)
      /\ prevState = cardState
  BY ThreadsApart DEF CoreInv, TypeInv, Take, Rests, Phase, stream, session, env, Pc, First
<1>2. \A s \in Streams : Plays(s)' <=> Plays(s)
  BY <1>1 DEF Plays, Is
<1>3. \A s \in Streams : Plays(s) => cardState # "offline" /\ s \in listed
  <2>1. \A s \in Streams : Plays(s) => s \in counted /\ counted \subseteq listed
    BY DEF CoreInv, UsersKnown, TypeInv, ListTypes
  <2> QED
    BY <1>1, <2>1 DEF DeathInv, AllVisited
<1>4. AllVisited'
  <2>1. SUFFICES ASSUME cardState' = "offline", NEW s \in Streams, Plays(s) PROVE s \in pending'
    BY <1>2 DEF AllVisited
  <2>2. listed # {} /\ Head(msgQ) # prevState
    BY <1>1, <1>3, <2>1
  <2> QED
    BY <1>3, <2>1, <2>2 DEF Take
<1>5. ASSUME Announced PROVE cardState' = "offline" \/ Announced'
  <2>1. PICK i \in 1..Len(msgQ) : msgQ[i] = "offline"
    BY <1>5 DEF Announced
  <2>2. msgQ \in Seq({"online", "offline"}) /\ Len(msgQ) \in Nat
    BY <1>1 DEF DataTypes
  <2>3. CASE i = 1
    BY <1>1, <2>1, <2>2, <2>3
  <2>4. CASE i # 1
    <3>1. i - 1 \in 1..Len(Tail(msgQ)) /\ Tail(msgQ)[i - 1] = msgQ[i]
      BY <1>1, <2>1, <2>2, <2>4
    <3> QED
      BY <1>1, <2>1, <3>1 DEF Announced
  <2> QED
    BY <2>3, <2>4
<1>6. DeathIsHeard'
  <2>1. SUFFICES ASSUME NEW s \in Streams, Plays(s), graph[s] # "running"
                 PROVE  cardState' = "offline" \/ (~dsp /\ heard) \/ Announced'
    BY <1>1, <1>2 DEF DeathIsHeard
  <2>2. (~dsp /\ heard) \/ Announced
    BY <1>3, <2>1 DEF DeathInv, DeathIsHeard
  <2> QED
    BY <1>5, <2>2
<1> QED
  BY <1>4, <1>6 DEF DeathInv

(***************************************************************************)
(* A stream that is visited is being stopped, if it plays.                 *)
(***************************************************************************)
LEMMA VisitDeath == ASSUME CoreInv, DeathInv, NEW s \in Streams, Visit(s) PROVE DeathInv'
<1>1. /\ Ssr \in Threads /\ PlanTypes /\ todo[Ssr] = <<>> /\ Pc(Ssr) = "none"
      /\ UNCHANGED <<currentState, graph, dsp, heard, msgQ, cardState>>
      /\ pending' = pending \ {s}
  BY ThreadsApart DEF CoreInv, TypeInv, Visit, stream, session, env, card, Pc, First
<1>2. \A r \in Streams : Plays(r)' <=> Plays(r)
  BY <1>1 DEF Plays, Is
<1>3. cardState = "offline" /\ s \in counted => on'[Ssr] = s /\ Pc(Ssr)' = "down"
  <2>1. SUFFICES ASSUME cardState = "offline", s \in counted PROVE on'[Ssr] = s /\ Pc(Ssr)' =
                            "down"
    OBVIOUS
  <2>2. on'[Ssr] = s /\ todo'[Ssr] = <<"down">>
    BY <1>1, <2>1 DEF Visit, PlanTypes
  <2> QED
    BY <2>2, WalkPlans DEF Pc
<1>4. AllVisited'
  <2>1. SUFFICES ASSUME cardState = "offline", NEW r \in Streams, Plays(r)
                 PROVE  r \in pending' \/ (on'[Ssr] = r /\ Pc(Ssr)' \in {"down", "stop",
                            "stopped"})
    BY <1>1, <1>2 DEF AllVisited
  <2>2. r \in pending /\ r \in counted
    BY <1>1, <2>1 DEF DeathInv, AllVisited, CoreInv, UsersKnown
  <2> QED
    BY <1>1, <1>3, <2>1, <2>2
<1>5. DeathIsHeard'
  BY <1>1, <1>2 DEF DeathInv, DeathIsHeard, Announced
<1> QED
  BY <1>4, <1>5 DEF DeathInv

(***************************************************************************)
(* The DSP goes down with all graphs, and the monitor still to say so.     *)
(***************************************************************************)
LEMMA DspDeath == ASSUME CoreInv, DeathInv, DspDown \/ DspUp \/ Notice PROVE DeathInv'
<1>1. DataTypes /\ UNCHANGED <<currentState, cardState, pending, todo, on>>
  BY DEF CoreInv, TypeInv, DspDown, DspUp, Notice, stream, walk
<1>2. \A r \in Streams : Plays(r)' <=> Plays(r)
  BY <1>1 DEF Plays, Is
<1>3. AllVisited'
  BY <1>1, <1>2 DEF DeathInv, AllVisited, Pc
<1>4. DeathIsHeard'
  <2>1. CASE DspDown
    BY <2>1 DEF DspDown, DeathIsHeard
  <2>2. CASE DspUp
    <3>1. UNCHANGED <<graph, msgQ>> /\ ~heard
      BY <2>2 DEF DspUp, session
    <3> QED
      BY <1>1, <1>2, <3>1 DEF DeathInv, DeathIsHeard, Announced
  <2>3. CASE Notice
    <3>1. UNCHANGED <<graph, dsp>> /\ heard # dsp
          /\ msgQ' = Append(msgQ, IF dsp THEN "online" ELSE "offline")
      BY <2>3 DEF Notice, session
    <3>2. Announced => Announced'
      BY <1>1, <3>1, AppendKeeps
    <3>3. ~dsp => Announced'
      <4>1. SUFFICES ASSUME ~dsp PROVE Announced'
        OBVIOUS
      <4>2. msgQ' = Append(msgQ, "offline") /\ msgQ \in Seq({"online", "offline"})
        BY <1>1, <3>1, <4>1 DEF DataTypes
      <4>3. Len(msgQ) + 1 \in 1..Len(msgQ') /\ msgQ'[Len(msgQ) + 1] = "offline"
        BY <4>2
      <4> QED
        BY <4>3 DEF Announced
    <3> QED
      BY <1>1, <1>2, <3>1, <3>2, <3>3 DEF DeathInv, DeathIsHeard
  <2> QED
    BY <2>1, <2>2, <2>3
<1> QED
  BY <1>3, <1>4 DEF DeathInv

(***************************************************************************)
(* Every step keeps that.                                                  *)
(***************************************************************************)
LEMMA NextDeath ==
  ASSUME CallsKeptApart, CoreInv, DeviceInv, DeathInv, [Next]_vars
  PROVE  DeathInv'
<1>1. CASE UNCHANGED vars
  BY <1>1, DeathKept DEF vars, pcm, stream, session, card, walk, env, Plays, Is, Pc
<1>2. ASSUME NEW t \in Clients, NEW c \in Calls, NEW s \in Streams, Call(t, c, s) PROVE DeathInv'
  <2>1. /\ UNCHANGED <<currentState, graph, cardState, dsp, heard, msgQ>> /\
               pending \subseteq pending'
        /\ todo'[Ssr] = todo[Ssr] /\ on'[Ssr] = on[Ssr]
    BY <1>2, ThreadsApart DEF Call, stream, session, card, env, CoreInv, TypeInv, PlanTypes
  <2> QED
    BY <2>1, DeathKept DEF Plays, Is, Pc
<1>3. ASSUME NEW t \in Threads, Run(t) PROVE DeathInv'
  <2>1. Section(t) /\ UNCHANGED <<pending, heard>>
    BY <1>3 DEF Run, walk, env
  <2> QED
    BY <2>1, SectionDeath
<1>4. ASSUME NEW t \in Clients, Count(t) \/ Deactivate(t) \/ Delete(t) PROVE DeathInv'
  <2>1. /\ UNCHANGED <<currentState, graph, cardState, dsp, heard, msgQ>>
    BY <1>4, OwnDevice DEF Still, Count, Deactivate, Delete, card, env
  <2>2. \A s \in Streams : Plays(s) /\ s \in pending => s \in pending'
    <3>1. CASE Count(t) \/ Deactivate(t)
      BY <3>1 DEF Count, Deactivate, walk
    <3>2. CASE Delete(t)
      <4>1. ~Plays(on[t])
        BY <3>2, AtPc DEF Delete, CoreInv, StatesKnown, ClientState, Plays, Is
      <4> QED
        BY <3>2, <4>1 DEF Delete
    <3> QED
      BY <1>4, <3>1, <3>2
  <2>3. todo'[Ssr] = todo[Ssr] /\ on'[Ssr] = on[Ssr]
    BY <1>4, ThreadsApart DEF Count, Deactivate, Delete, Then, Goes, CoreInv, TypeInv, PlanTypes
  <2> QED
    BY <2>1, <2>2, <2>3, DeathKept DEF Plays, Is, Pc
<1>5. CASE EndWalk
  BY <1>5, DeathKept DEF EndWalk, stream, session, card, env, Plays, Is, Pc
<1>6. ASSUME NEW t \in Clients, Client(t) PROVE DeathInv'
  BY <1>3, <1>4, <1>6, ThreadsApart DEF Client
<1>7. CASE Walk
  BY <1>3, <1>5, <1>7, TakeDeath, VisitDeath, ThreadsApart DEF Walk
<1> QED
  BY <1>1, <1>2, <1>6, <1>7, DspDeath DEF Next

------------------------------------------------------------------------------
(***************************************************************************)
(* The inductive invariant.                                                *)
(***************************************************************************)
IInv == CoreInv /\ DeviceInv /\ DeathInv

(***************************************************************************)
(* The inductive invariant holds in every reachable state.                 *)
(***************************************************************************)
THEOREM Invariant == ASSUME CallsKeptApart PROVE Spec => []IInv
<1>1. Init => IInv
  <2>1. Init => DeathInv
    BY DEF Init, InitPCM, DeathInv, AllVisited, DeathIsHeard, Plays, Is
  <2> QED
    BY <2>1, InitCore, InitDevice DEF IInv
<1>2. IInv /\ [Next]_vars => IInv'
  BY NextCore, NextDevice, NextDeath DEF IInv
<1> QED
  BY <1>1, <1>2, PTL DEF Spec

(***************************************************************************)
(* The device is open once for every open stream and started once for      *)
(* every one that plays, after any number of restarts: no restart, failed  *)
(* start or deletion loses or keeps a count.                               *)
(***************************************************************************)
THEOREM DeviceCountsExact == ASSUME CallsKeptApart PROVE Spec => []CountsExact
<1>1. IInv => CountsExact
  <2>1. SUFFICES ASSUME IInv, Quiet
                 PROVE  /\ deviceCount = Cardinality({s \in Streams : ~Is(s, {"IDLE"})})
                        /\ deviceStartStopCount = Cardinality({s \in Streams : Plays(s)})
    BY DEF CountsExact, Plays
  <2>2. \A s \in Streams : ~Starting(s)
    BY <2>1 DEF Quiet, Rests, Starting, Pc, First, Threads
  <2>3. Playing = {s \in Streams : Plays(s)}
    BY <2>2 DEF Playing
  <2>4. frontEnd = {s \in Streams : ~Is(s, {"IDLE"})}
    BY <2>1 DEF IInv, CoreInv, TypeInv, DataTypes, DeviceInv, Opened
  <2> QED
    BY <2>1, <2>3, <2>4 DEF IInv, DeviceInv, Opened, Running
<1> QED
  BY <1>1, Invariant, PTL

(***************************************************************************)
(* Device switches act on the streams that play and on no stream that was  *)
(* deleted.                                                                *)
(***************************************************************************)
THEOREM RegisteredAreThosePlaying == ASSUME CallsKeptApart PROVE Spec => []RegisteredExact
<1>1. IInv => RegisteredExact
  <2>1. SUFFICES ASSUME IInv, Quiet PROVE active_devices = {s \in listed : Plays(s)}
    BY DEF RegisteredExact, Plays
  <2>2. \A s \in Streams : ~Starting(s)
    BY <2>1 DEF Quiet, Rests, Starting, Pc, First, Threads
  <2>3. \A s \in Streams : Plays(s) => s \in listed
    BY <2>1 DEF IInv, CoreInv, UsersKnown, TypeInv, ListTypes
  <2>4. active_devices \subseteq Streams /\ listed \subseteq Streams
    BY <2>1 DEF IInv, CoreInv, TypeInv, DataTypes, ListTypes
  <2> QED
    BY <2>1, <2>2, <2>3, <2>4 DEF IInv, DeviceInv, Registered
<1> QED
  BY <1>1, Invariant, PTL

(***************************************************************************)
(* A stream that is deleted, also in the middle of a restart, keeps        *)
(* neither its front end nor its place among the device's streams.         *)
(***************************************************************************)
THEOREM NothingIsLeft == ASSUME CallsKeptApart PROVE Spec => []NothingLeft
<1>1. IInv => NothingLeft
  BY DEF IInv, CoreInv, UsersKnown, DeviceInv, Opened, Registered, NothingLeft, Plays, Is
<1> QED
  BY <1>1, Invariant, PTL

(***************************************************************************)
(* When a restart is over and no message is left, every stream in          *)
(* STREAM_STARTED has a graph that runs: a DSP that goes down during a     *)
(* walk is not overlooked.                                                 *)
(***************************************************************************)
THEOREM RestartsAreComplete == ASSUME CallsKeptApart PROVE Spec => []StartedRuns
<1>1. IInv => StartedRuns
  <2>1. SUFFICES ASSUME IInv, Quiet, Settled, dsp, NEW s \in Streams, Is(s, {"STARTED"}),
                            graph[s] # "running"
                 PROVE  FALSE
    BY DEF StartedRuns
  <2>2. Plays(s) /\ ~Announced
    BY <2>1 DEF Plays, Is, Settled, Announced
  <2>3. cardState = "offline"
    BY <2>1, <2>2 DEF IInv, DeathInv, DeathIsHeard
  <2>4. pending = {} /\ Pc(Ssr) = "none"
    BY <2>1 DEF Settled, Rests, Pc, First
  <2> QED
    BY <2>1, <2>2, <2>3, <2>4 DEF IInv, DeathInv, AllVisited
<1> QED
  BY <1>1, Invariant, PTL
==============================================================================
