-------------------------- MODULE StreamHandlesProofs --------------------------
(***************************************************************************)
(* Proofs about stream handles, for any number of threads, streams and     *)
(* addresses.  Unless a theorem says otherwise they hold also when a       *)
(* handle is closed twice and when an address is reused early.             *)
(***************************************************************************)
EXTENDS StreamHandles, FiniteSetTheorems, TLAPS

(***************************************************************************)
(* Opening: the object is not yet, or no longer, open to users.  Closing:  *)
(* the thread has deactivated the entry and will erase it.  Owns: it may   *)
(* delete the object.                                                      *)
(***************************************************************************)
Opening(t) == pc[t] \in {"opening", "failed", "undoing"}
Closing(t) == pc[t] \in {"draining", "deleting", "destroying", "erasing"}
Owns(t)    == Opening(t) \/ pc[t] \in {"deleting", "destroying"}

Unused(a)  == \A t \in Threads : pc[t] \in Counted => at[t] # a

(* An address has one object at most, and an active entry has one behind it. *)
OnePerAddress ==
  /\ \A s \in live : place[s] \in Addresses
  /\ \A r, s \in live : place[r] = place[s] => r = s
  /\ \A a \in active : \E s \in live : place[s] = a

(* An object about to be deleted is closed to new users and has none. *)
OwnersAlone ==
  \A t \in Threads : Owns(t) =>
    /\ obj[t] \in live /\ place[obj[t]] = at[t]
    /\ at[t] \notin active
    /\ Unused(at[t])
    /\ pc[t] \in {"destroying", "undoing"} => obj[t] \notin listed

OwnersApart ==
  \A t, u \in Threads : Owns(t) /\ (Owns(u) \/ pc[u] = "draining") /\ at[t] = at[u] => t = u

(* One closing thread per address: it deactivated the entry it will erase. *)
ClosersApart ==
  \A t \in Threads : Closing(t) =>
    /\ at[t] \in keyed \ active
    /\ pc[t] = "draining" => \E s \in live : place[s] = at[t]
    /\ pc[t] = "erasing" => Unused(at[t])
    /\ \A u \in Threads : Closing(u) /\ at[u] = at[t] => u = t

(***************************************************************************)
(* The semaphore is 1 only while nobody uses the object, and then whenever *)
(* the object is open to users.                                            *)
(***************************************************************************)
SemaphoreFree ==
  \A s \in live : /\ smph[s] = 1 => Unused(place[s])
                  /\ place[s] \in active /\ Unused(place[s]) => smph[s] = 1

(***************************************************************************)
(* The restart thread only walks; it stands on a listed stream, and holds  *)
(* the list but while a handler has given it up.                           *)
(***************************************************************************)
WalkerHolds ==
  /\ pc[Ssr] \in {"idle", "walking"} \cup Counted
  /\ pc[Ssr] \in {"walking", "using", "back"} => activeMutex = Ssr
  /\ pc[Ssr] # "idle" => obj[Ssr] \in listed

IInv ==
  /\ TypeOK /\ OnePerAddress /\ OwnersAlone /\ OwnersApart /\ ClosersApart
  /\ SemaphoreFree /\ WalkerHolds /\ PinnedLive /\ CountExact /\ NeverBlocksLocked

(***************************************************************************)
(* A handle has one bearer: the client it was returned to, or the thread   *)
(* that opens or closes it.  So it is while no handle is closed twice.     *)
(***************************************************************************)
Bears(t) == Owns(t) \/ pc[t] \in {"closing", "draining"}

OneBearer ==
  /\ \A s \in owned : s \in listed /\ \A t \in Threads : Bears(t) => at[t] # place[s]
  /\ \A t \in Threads : pc[t] \in {"opening", "closing"} =>
                        obj[t] \in listed /\ place[obj[t]] = at[t]
  /\ \A t, u \in Threads : pc[t] = "closing" /\ Bears(u) /\ at[u] = at[t] => u = t

(* An opening thread makes the entry of its address, unless the address is *)
(* reused early.                                                           *)
EntryIsNew == \A t \in Threads : pc[t] = "opening" => at[t] \notin keyed

USE NoneAssumption, BoundAssumption

(* An address has finitely many users.                                     *)
LEMMA UsersFinite == \A a : IsFiniteSet(Users(a))
<1>1. IsFiniteSet(Threads)
  BY ThreadsAssumption, FS_AddElement DEF Threads
<1> QED
  BY <1>1, FS_Subset DEF Users

(***************************************************************************)
(* A thread that enters an operation adds one user to its address and none *)
(* elsewhere.                                                              *)
(***************************************************************************)
LEMMA UsersPlus ==
  ASSUME TypeOK, NEW t \in Threads, NEW q \in Counted, NEW x,
         pc' = [pc EXCEPT ![t] = q],
         at' = [at EXCEPT ![t] = x],
         pc[t] \notin Counted
  PROVE  /\ Users(x)' = Users(x) \cup {t}
         /\ \A a : a # x => Users(a)' = Users(a)
         /\ Cardinality(Users(x)') = Cardinality(Users(x)) + 1
<1>1. /\ Users(x)' = Users(x) \cup {t}
      /\ \A a : a # x => Users(a)' = Users(a)
      /\ t \notin Users(x)
  BY DEF Users, TypeOK
<1> QED
  BY <1>1, UsersFinite, FS_AddElement

(* A thread that leaves takes one user from its address.                   *)
LEMMA UsersMinus ==
  ASSUME TypeOK, NEW t \in Threads, NEW q, NEW x,
         pc' = [pc EXCEPT ![t] = q],
         at' = at,
         pc[t] \in Counted, q \notin Counted, at[t] = x
  PROVE  /\ \A a : a # x => Users(a)' = Users(a)
         /\ Cardinality(Users(x)') = Cardinality(Users(x)) - 1
         /\ Cardinality(Users(x)) >= 1
<1>1. /\ Users(x)' = Users(x) \ {t}
      /\ \A a : a # x => Users(a)' = Users(a)
      /\ t \in Users(x)
  BY DEF Users, TypeOK
<1>2. /\ Cardinality(Users(x)') = Cardinality(Users(x)) - 1
      /\ Cardinality(Users(x)) \in Nat /\ Cardinality(Users(x)) # 0
  BY <1>1, UsersFinite, FS_RemoveElement, FS_CardinalityType, FS_EmptySet
<1> QED
  BY <1>1, <1>2

(***************************************************************************)
(* A step that leaves the counts alone and takes nobody in or out keeps    *)
(* the counts right.                                                       *)
(***************************************************************************)
LEMMA CountKept ==
  ASSUME CountExact, count' = count,
         \A t \in Threads : /\ pc'[t] \in Counted <=> pc[t] \in Counted
                            /\ pc[t] \in Counted => at'[t] = at[t]
  PROVE  CountExact'
<1> SUFFICES ASSUME NEW a \in Addresses PROVE count'[a] = Cardinality(Users(a)')
  BY DEF CountExact
<1>1. Users(a)' = Users(a)
  BY DEF Users
<1> QED
  BY <1>1 DEF CountExact

(* Where counts are right, 0 says that nobody uses the address.            *)
LEMMA UnusedIs == ASSUME CountExact, NEW a \in Addresses
                  PROVE  count[a] = 0 <=> Unused(a)
<1>1. Unused(a) <=> Users(a) = {}
  BY DEF Unused, Users
<1> QED
  BY <1>1, UsersFinite, FS_EmptySet DEF CountExact

(* The same of the state after a step.                                     *)
LEMMA UnusedNext == ASSUME CountExact', NEW a \in Addresses
                    PROVE  count'[a] = 0 <=> Unused(a)'
<1>1. Unused(a)' <=> Users(a)' = {}
  BY DEF Unused, Users
<1>2. IsFiniteSet(Threads)
  BY ThreadsAssumption, FS_AddElement DEF Threads
<1>3. IsFiniteSet(Users(a)')
  BY <1>2, FS_Subset DEF Users
<1> QED
  BY <1>1, <1>3, FS_EmptySet DEF CountExact

(* No stream and nobody inside a call: the invariant holds at the start.   *)
LEMMA InitInv == Init => IInv
<1> SUFFICES ASSUME Init PROVE IInv
  OBVIOUS
<1>1. /\ live = {} /\ listed = {} /\ activeMutex = None
      /\ \A t \in Threads : pc[t] = "idle"
      /\ active = {} /\ count = [a \in Addresses |-> 0]
  BY DEF Init
<1>2. \A a : Users(a) = {}
  BY <1>1 DEF Users, Counted
<1>3. TypeOK
  BY DEF Init, TypeOK
<1>4. CountExact
  BY <1>1, <1>2, FS_EmptySet DEF CountExact
<1>5. OwnersAlone /\ OwnersApart /\ ClosersApart /\ PinnedLive /\ NeverBlocksLocked
  BY <1>1 DEF OwnersAlone, OwnersApart, ClosersApart, Owns, Opening, Closing, PinnedLive,
              NeverBlocksLocked, Counted
<1>6. OnePerAddress /\ SemaphoreFree
  BY <1>1 DEF OnePerAddress, SemaphoreFree
<1>7. WalkerHolds
  BY <1>1 DEF WalkerHolds, Threads
<1> QED
  BY <1>3, <1>4, <1>5, <1>6, <1>7 DEF IInv

(***************************************************************************)
(* A user enters: the entry is active, so nobody owns or closes the object *)
(* behind it, and it is the one live object at that address.               *)
(***************************************************************************)
LEMMA IncreaseInv ==
  ASSUME IInv, NEW t \in Threads, NEW s \in listed,
         pc[t] \in {"idle", "walking"}, pc[t] = "walking" => t = Ssr /\ obj[t] = s,
         t = Ssr => pc[t] = "walking",
         Increase(t, s), UNCHANGED <<objects, activeMutex, owned, walks>>
  PROVE  IInv'
<1>0. /\ TypeOK /\ OnePerAddress /\ OwnersAlone /\ OwnersApart /\ ClosersApart
      /\ SemaphoreFree /\ WalkerHolds
      /\ PinnedLive /\ CountExact /\ NeverBlocksLocked
  BY DEF IInv
<1>1. s \in live /\ s \in Streams /\ place[s] \in Addresses /\ place[s] \in active
  BY <1>0 DEF TypeOK, OnePerAddress, Increase
<1> PICK a \in Addresses : a = place[s]
  BY <1>1
<1>2. count[a] = 0 <=> smph[s] = 1
  <2>1. count[a] = 0 <=> Unused(a)
    BY <1>0, UnusedIs
  <2> QED
    BY <1>0, <1>1, <2>1 DEF SemaphoreFree
<1>3. smph[s] \in 0..1 /\ smph \in [Streams -> 0..1] /\ count \in [Addresses -> Nat]
  BY <1>0, <1>1 DEF TypeOK
<1>4. /\ count' = [count EXCEPT ![a] = @ + 1]
      /\ smph' = [smph EXCEPT ![s] = 0]
      /\ pc' = [pc EXCEPT ![t] = "using"]
      /\ at' = [at EXCEPT ![t] = a]
      /\ obj' = [obj EXCEPT ![t] = s]
      /\ validMutex' = None
      /\ UNCHANGED <<live, place, listed, ahead, keyed, active>>
  <2>1. CASE count[a] = 0
    <3>1. [smph EXCEPT ![s] = smph[s] - 1] = [smph EXCEPT ![s] = 0]
      <4>1. smph[s] - 1 = 0
        BY <1>2, <1>3, <2>1
      <4> QED
        BY <4>1
    <3>2. smph[s] # 0
      BY <1>2, <2>1
    <3> QED
      BY <2>1, <3>1, <3>2 DEF Increase, Goes, objects
  <2>2. CASE count[a] # 0
    <3>1. smph = [smph EXCEPT ![s] = 0]
      <4>1. smph[s] = 0
        BY <1>2, <1>3, <2>2
      <4> QED
        BY <1>1, <1>3, <4>1
    <3> QED
      BY <1>2, <2>2, <3>1 DEF Increase, Goes, objects
  <2> QED
    BY <2>1, <2>2
<1>6. TypeOK'
  BY <1>0, <1>1, <1>4 DEF TypeOK, objects, Counted
<1>7. /\ pc'[t] = "using" /\ at'[t] = a /\ obj'[t] = s
      /\ \A u \in Threads \ {t} : pc'[u] = pc[u] /\ at'[u] = at[u] /\ obj'[u] = obj[u]
  BY <1>0, <1>4 DEF TypeOK
<1>8. /\ \A b : b # a => Users(b)' = Users(b)
      /\ Cardinality(Users(a)') = Cardinality(Users(a)) + 1
  <2>1. "using" \in Counted /\ pc[t] \notin Counted
    BY DEF Counted
  <2> QED
    BY <1>0, <1>4, <2>1, UsersPlus
<1>10. CountExact'
  <2> SUFFICES ASSUME NEW b \in Addresses PROVE count'[b] = Cardinality(Users(b)')
    BY DEF CountExact
  <2> QED
    BY <1>0, <1>3, <1>4, <1>8 DEF CountExact
<1>11. OwnersAlone'
  BY <1>0, <1>1, <1>4, <1>7 DEF OwnersAlone, Owns, Opening, Unused
<1>12. OwnersApart'
  BY <1>0, <1>7 DEF OwnersApart, Owns, Opening
<1>13. ClosersApart'
  BY <1>0, <1>1, <1>4, <1>7 DEF ClosersApart, Closing, Unused
<1>14. OnePerAddress'
  BY <1>0, <1>4, <1>7 DEF OnePerAddress
<1>15. SemaphoreFree'
  BY <1>0, <1>1, <1>4, <1>7 DEF SemaphoreFree, OnePerAddress, TypeOK, Unused, Counted
<1>16. PinnedLive' /\ NeverBlocksLocked'
  BY <1>0, <1>1, <1>4, <1>7 DEF PinnedLive, NeverBlocksLocked, LiveAt
<1>17. WalkerHolds'
  BY <1>0, <1>4, <1>7, ThreadsAssumption DEF WalkerHolds, Counted, Threads
<1> QED
  BY <1>6, <1>10, <1>11, <1>12, <1>13, <1>14, <1>15, <1>16, <1>17 DEF IInv

(***************************************************************************)
(* A user leaves: the last one gives back the semaphore it held.           *)
(***************************************************************************)
LEMMA DecreaseInv ==
  ASSUME IInv, NEW t \in Threads, pc[t] \in Counted, Decrease(t),
         NEW q \in {"idle", "walking"}, NEW x \in Streams \cup {None},
         pc' = [pc EXCEPT ![t] = q], obj' = [obj EXCEPT ![t] = x], at' = at,
         ahead' \subseteq listed, activeMutex' \in {Ssr, None},
         UNCHANGED <<live, place, listed, validMutex, owned, walks>>,
         WalkerHolds'
  PROVE  IInv'
<1>0. /\ TypeOK /\ OnePerAddress /\ OwnersAlone /\ OwnersApart /\ ClosersApart
      /\ SemaphoreFree /\ WalkerHolds
      /\ PinnedLive /\ CountExact /\ NeverBlocksLocked
  BY DEF IInv
<1>1. /\ obj[t] \in live /\ obj[t] \in Streams /\ place[obj[t]] = at[t]
      /\ at[t] \in Addresses /\ at[t] # None
  BY <1>0 DEF PinnedLive, LiveAt, OnePerAddress, TypeOK
<1> PICK a \in Addresses : a = at[t]
  BY <1>1
<1> PICK s \in live : s = obj[t]
  BY <1>1
<1>2. /\ \A b : b # a => Users(b)' = Users(b)
      /\ Cardinality(Users(a)') = Cardinality(Users(a)) - 1
      /\ Cardinality(Users(a)) >= 1
  <2>1. q \notin Counted
    BY DEF Counted
  <2> QED
    BY <1>0, <2>1, UsersMinus
<1>3. /\ count \in [Addresses -> Nat] /\ count[a] = Cardinality(Users(a))
      /\ smph \in [Streams -> 0..1] /\ s \in Streams
  BY <1>0, <1>1 DEF TypeOK, CountExact
<1>4. count[a] \in Nat \ {0}
  BY <1>2, <1>3
<1>5. /\ count' = [count EXCEPT ![a] = @ - 1]
      /\ UNCHANGED <<keyed, active>>
      /\ smph' = IF count[a] = 1 THEN [smph EXCEPT ![s] = @ + 1] ELSE smph
  BY <1>4 DEF Decrease
<1>6. smph[s] = 0
  <2>1. ~Unused(a)
    BY <1>0, <1>4, UnusedIs
  <2> QED
    BY <1>0, <1>1, <1>3, <2>1 DEF SemaphoreFree
<1>7. smph' = IF count[a] = 1 THEN [smph EXCEPT ![s] = 1] ELSE smph
  <2>1. smph[s] + 1 = 1
    BY <1>6
  <2> QED
    BY <1>5, <2>1
<1>8. TypeOK'
  BY <1>0, <1>3, <1>4, <1>5, <1>7 DEF TypeOK, Counted
<1>9. CountExact'
  <2> SUFFICES ASSUME NEW b \in Addresses PROVE count'[b] = Cardinality(Users(b)')
    BY DEF CountExact
  <2> QED
    BY <1>0, <1>2, <1>3, <1>5 DEF CountExact
<1>10. count'[a] = 0 <=> Unused(a)'
  BY <1>9, UnusedNext
<1>11. /\ pc'[t] = q /\ at'[t] = a
       /\ \A u \in Threads \ {t} : pc'[u] = pc[u] /\ at'[u] = at[u] /\ obj'[u] = obj[u]
  BY <1>0 DEF TypeOK
<1>12. OwnersAlone' /\ OwnersApart'
  BY <1>0, <1>1, <1>5, <1>11 DEF OwnersAlone, OwnersApart, Owns, Opening, Unused, Counted
<1>13. ClosersApart'
  BY <1>0, <1>5, <1>11 DEF ClosersApart, Closing, Unused, Counted
<1>14. OnePerAddress' /\ PinnedLive' /\ NeverBlocksLocked'
  BY <1>0, <1>5, <1>11 DEF OnePerAddress, PinnedLive, NeverBlocksLocked, LiveAt, Counted
<1>15. SemaphoreFree'
  <2> SUFFICES ASSUME NEW r \in live
               PROVE  /\ smph'[r] = 1 => Unused(place[r])'
                      /\ place'[r] \in active' /\ Unused(place[r])' => smph'[r] = 1
    BY DEF SemaphoreFree
  <2>1. CASE r = s
    <3>1. count'[a] = 0 <=> count[a] = 1
      BY <1>3, <1>4, <1>5
    <3>2. smph'[s] = 1 <=> count[a] = 1
      BY <1>3, <1>6, <1>7
    <3> QED
      BY <1>1, <1>10, <2>1, <3>1, <3>2 DEF Unused
  <2>2. CASE r # s
    <3>1. place[r] # a /\ r \in Streams
      BY <1>0, <1>1, <2>2 DEF OnePerAddress, TypeOK
    <3>2. smph'[r] = smph[r]
      BY <1>3, <1>7, <2>2, <3>1
    <3>3. Unused(place[r])' <=> Unused(place[r])
      BY <1>1, <1>11, <3>1 DEF Unused, Counted
    <3> QED
      BY <1>0, <1>5, <3>2, <3>3 DEF SemaphoreFree
  <2> QED
    BY <2>1, <2>2
<1> QED
  BY <1>8, <1>9, <1>12, <1>13, <1>14, <1>15 DEF IInv

(***************************************************************************)
(* Opening a handle: the new object is alone at its address.               *)
(***************************************************************************)
LEMMA CreateInv ==
  ASSUME IInv, NEW t \in Clients, NEW s \in Streams, NEW a \in Addresses, Create(t, s, a)
  PROVE  IInv'
<1>0. /\ TypeOK /\ OnePerAddress /\ OwnersAlone /\ OwnersApart /\ ClosersApart
      /\ SemaphoreFree /\ WalkerHolds
      /\ PinnedLive /\ CountExact /\ NeverBlocksLocked
  BY DEF IInv
<1>t. t \in Threads /\ t # Ssr
  BY ThreadsAssumption DEF Threads
<1>1. /\ pc'[t] = "opening" /\ at'[t] = a /\ obj'[t] = s
      /\ \A u \in Threads \ {t} : pc'[u] = pc[u] /\ at'[u] = at[u] /\ obj'[u] = obj[u]
      /\ live' = live \cup {s} /\ place'[s] = a
      /\ \A r \in live : place'[r] = place[r] /\ place[r] # a /\ r # s
  BY <1>0, <1>t DEF Create, Goes, TypeOK, LiveAt
<1>a. a \notin active /\ Unused(a)
  BY <1>0, <1>1 DEF OnePerAddress, PinnedLive, LiveAt, Unused
<1>2. TypeOK'
  BY <1>0, <1>t DEF TypeOK, Create, Goes, entry, locks
<1>3. CountExact'
  <2>1. /\ count' = count
        /\ \A u \in Threads : /\ pc'[u] \in Counted <=> pc[u] \in Counted
                              /\ pc[u] \in Counted => at'[u] = at[u]
    BY <1>1 DEF Create, entry, Counted
  <2> QED
    BY <1>0, <2>1, CountKept
<1>4. OnePerAddress'
  BY <1>0, <1>1, <1>a DEF OnePerAddress, Create, entry
<1>5. OwnersAlone'
  BY <1>0, <1>1, <1>t, <1>a DEF OwnersAlone, Create, entry, Owns, Opening, Unused, Counted,
                                TypeOK
<1>6. OwnersApart'
  BY <1>0, <1>1, <1>t, <1>a DEF OwnersApart, OwnersAlone, ClosersApart, Owns, Opening, Closing
<1>7. ClosersApart'
  BY <1>0, <1>1, <1>t, <1>a DEF ClosersApart, Create, entry, Closing, Unused, Counted
<1>8. SemaphoreFree' /\ WalkerHolds'
  BY <1>0, <1>1, <1>t, <1>a DEF SemaphoreFree, WalkerHolds, Create, entry, locks, Unused,
                                Counted, Threads
<1>9. PinnedLive' /\ NeverBlocksLocked'
  BY <1>0, <1>1, <1>t DEF PinnedLive, NeverBlocksLocked, LiveAt, Counted
<1> QED
  BY <1>2, <1>3, <1>4, <1>5, <1>6, <1>7, <1>8, <1>9 DEF IInv

(* The entry made for an object nobody uses has its semaphore free.        *)
LEMMA InitStreamUserCounterInv ==
  ASSUME IInv, NEW t \in Clients, InitStreamUserCounter(t)
  PROVE  IInv'
<1>0. /\ TypeOK /\ OnePerAddress /\ OwnersAlone /\ OwnersApart /\ ClosersApart
      /\ SemaphoreFree /\ WalkerHolds
      /\ PinnedLive /\ CountExact /\ NeverBlocksLocked
  BY DEF IInv
<1>t. t \in Threads /\ t # Ssr
  BY ThreadsAssumption DEF Threads
<1>1. /\ pc'[t] = "idle" /\ at' = at /\ obj' = obj
      /\ \A u \in Threads \ {t} : pc'[u] = pc[u]
      /\ pc[t] = "opening"
  BY <1>0, <1>t DEF InitStreamUserCounter, Goes, TypeOK
<1>a. /\ obj[t] \in live /\ obj[t] \in Streams /\ place[obj[t]] = at[t] /\ at[t] \in Addresses
      /\ at[t] \notin active /\ Unused(at[t])
  BY <1>0, <1>1, <1>t DEF OwnersAlone, Owns, Opening, OnePerAddress, TypeOK
<1>2. TypeOK'
  BY <1>0, <1>t, <1>a DEF TypeOK, InitStreamUserCounter, Goes, objects, locks
<1>3. CountExact'
  <2>1. /\ count' = count
        /\ \A u \in Threads : /\ pc'[u] \in Counted <=> pc[u] \in Counted
                              /\ pc[u] \in Counted => at'[u] = at[u]
    BY <1>1 DEF InitStreamUserCounter, entry, Counted
  <2> QED
    BY <1>0, <2>1, CountKept
<1>4. OnePerAddress'
  BY <1>0, <1>a DEF OnePerAddress, InitStreamUserCounter, objects
<1>5. OwnersAlone'
  BY <1>0, <1>1, <1>t DEF OwnersAlone, OwnersApart, InitStreamUserCounter, objects, Owns,
                          Opening, Unused, Counted
<1>6. OwnersApart'
  BY <1>0, <1>1, <1>t DEF OwnersApart, Owns, Opening
<1>7. ClosersApart'
  BY <1>0, <1>1, <1>t DEF ClosersApart, InitStreamUserCounter, objects, Closing, Unused, Counted
<1>8. SemaphoreFree' /\ WalkerHolds'
  <2>1. \A b : Unused(b)' <=> Unused(b)
    BY <1>1 DEF Unused, Counted
  <2>2. SemaphoreFree'
    BY <1>0, <1>a, <2>1 DEF SemaphoreFree, InitStreamUserCounter, objects, OnePerAddress, TypeOK
  <2>3. WalkerHolds'
    BY <1>0, <1>1, <1>t DEF WalkerHolds, InitStreamUserCounter, objects, locks, Threads
  <2> QED
    BY <2>2, <2>3
<1>9. PinnedLive' /\ NeverBlocksLocked'
  BY <1>0, <1>1, <1>t DEF PinnedLive, NeverBlocksLocked, LiveAt, Counted, InitStreamUserCounter,
                          objects
<1> QED
  BY <1>2, <1>3, <1>4, <1>5, <1>6, <1>7, <1>8, <1>9 DEF IInv

(* An open that fails keeps the object to itself until it is deleted.      *)
LEMMA OpenFailsInv ==
  ASSUME IInv, NEW t \in Clients, OpenFails(t)
  PROVE  IInv'
<1>0. /\ TypeOK /\ OnePerAddress /\ OwnersAlone /\ OwnersApart /\ ClosersApart
      /\ SemaphoreFree /\ WalkerHolds
      /\ PinnedLive /\ CountExact /\ NeverBlocksLocked
  BY DEF IInv
<1>t. t \in Threads /\ t # Ssr
  BY ThreadsAssumption DEF Threads
<1>1. /\ pc'[t] = "failed" /\ at' = at /\ obj' = obj
      /\ \A u \in Threads \ {t} : pc'[u] = pc[u]
      /\ pc[t] = "opening"
      /\ UNCHANGED <<live, place, listed, keyed, active, count, smph, activeMutex, obj, at>>
  BY <1>0, <1>t DEF OpenFails, Goes, TypeOK, objects, entry, locks
<1>2. TypeOK'
  BY <1>0, <1>t DEF TypeOK, OpenFails, Goes, objects, entry, locks
<1>3. CountExact'
  <2>1. /\ count' = count
        /\ \A u \in Threads : /\ pc'[u] \in Counted <=> pc[u] \in Counted
                              /\ pc[u] \in Counted => at'[u] = at[u]
    BY <1>1 DEF OpenFails, entry, Counted
  <2> QED
    BY <1>0, <2>1, CountKept
<1>4. OnePerAddress' /\ OwnersAlone'
  BY <1>0, <1>1, <1>t DEF OnePerAddress, OwnersAlone, Owns, Opening, Unused, Counted
<1>5. OwnersApart'
  BY <1>0, <1>1, <1>t DEF OwnersApart, Owns, Opening
<1>6. ClosersApart'
  BY <1>0, <1>1, <1>t DEF ClosersApart, Closing, Unused, Counted
<1>7. SemaphoreFree'
  BY <1>0, <1>1 DEF SemaphoreFree, Unused, Counted
<1>8. WalkerHolds'
  BY <1>0, <1>1, <1>t DEF WalkerHolds, Threads
<1>9. PinnedLive' /\ NeverBlocksLocked'
  BY <1>0, <1>1, <1>t DEF PinnedLive, NeverBlocksLocked, LiveAt, Counted
<1> QED
  BY <1>2, <1>3, <1>4, <1>5, <1>6, <1>7, <1>8, <1>9 DEF IInv

(* A close that begins changes nothing users rely on.                      *)
LEMMA BeginCloseInv ==
  ASSUME IInv, NEW t \in Clients, NEW s \in Streams, BeginClose(t, s)
  PROVE  IInv'
<1>0. /\ TypeOK /\ OnePerAddress /\ OwnersAlone /\ OwnersApart /\ ClosersApart
      /\ SemaphoreFree /\ WalkerHolds
      /\ PinnedLive /\ CountExact /\ NeverBlocksLocked
  BY DEF IInv
<1>t. t \in Threads /\ t # Ssr
  BY ThreadsAssumption DEF Threads
<1>1. /\ pc'[t] = "closing" /\ at'[t] = place[s] /\ obj'[t] = s
      /\ \A u \in Threads \ {t} : pc'[u] = pc[u] /\ at'[u] = at[u] /\ obj'[u] = obj[u]
      /\ pc[t] = "idle"
      /\ UNCHANGED <<live, place, listed, keyed, active, count, smph, activeMutex>>
  BY <1>0, <1>t DEF BeginClose, Goes, TypeOK, objects, entry, locks
<1>2. TypeOK'
  BY <1>0, <1>t DEF TypeOK, BeginClose, Goes, objects, entry, locks
<1>3. CountExact'
  <2>1. /\ count' = count
        /\ \A u \in Threads : /\ pc'[u] \in Counted <=> pc[u] \in Counted
                              /\ pc[u] \in Counted => at'[u] = at[u]
    BY <1>1 DEF BeginClose, entry, Counted
  <2> QED
    BY <1>0, <2>1, CountKept
<1>4. OnePerAddress' /\ OwnersAlone'
  BY <1>0, <1>1, <1>t DEF OnePerAddress, OwnersAlone, Owns, Opening, Unused, Counted
<1>5. OwnersApart'
  BY <1>0, <1>1, <1>t DEF OwnersApart, Owns, Opening
<1>6. ClosersApart'
  BY <1>0, <1>1, <1>t DEF ClosersApart, Closing, Unused, Counted
<1>7. SemaphoreFree'
  BY <1>0, <1>1 DEF SemaphoreFree, Unused, Counted
<1>8. WalkerHolds'
  BY <1>0, <1>1, <1>t DEF WalkerHolds, Threads
<1>9. PinnedLive' /\ NeverBlocksLocked'
  BY <1>0, <1>1, <1>t DEF PinnedLive, NeverBlocksLocked, LiveAt, Counted
<1> QED
  BY <1>2, <1>3, <1>4, <1>5, <1>6, <1>7, <1>8, <1>9 DEF IInv

(* The thread that deactivates the entry becomes the one that closes it.   *)
LEMMA DeactivateInv ==
  ASSUME IInv, NEW t \in Clients, DeactivateStreamUserCounter(t)
  PROVE  IInv'
<1>0. /\ TypeOK /\ OnePerAddress /\ OwnersAlone /\ OwnersApart /\ ClosersApart
      /\ SemaphoreFree /\ WalkerHolds
      /\ PinnedLive /\ CountExact /\ NeverBlocksLocked
  BY DEF IInv
<1>t. t \in Threads /\ t # Ssr
  BY ThreadsAssumption DEF Threads
<1>1. /\ pc'[t] = (IF at[t] \in active THEN "draining" ELSE "idle") /\ pc[t] = "closing"
      /\ \A u \in Threads \ {t} : pc'[u] = pc[u]
      /\ active' = active \ {at[t]}
      /\ UNCHANGED <<live, place, listed, keyed, count, smph, activeMutex, obj, at>>
  BY <1>0, <1>t DEF DeactivateStreamUserCounter, Goes, TypeOK, objects, entry, locks
<1>2. TypeOK'
  BY <1>0, <1>t DEF TypeOK, DeactivateStreamUserCounter, Goes, objects, locks
<1>3. CountExact'
  <2>1. /\ count' = count
        /\ \A u \in Threads : /\ pc'[u] \in Counted <=> pc[u] \in Counted
                              /\ pc[u] \in Counted => at'[u] = at[u]
    BY <1>1 DEF DeactivateStreamUserCounter, entry, Counted
  <2> QED
    BY <1>0, <2>1, CountKept
<1>4. OnePerAddress'
  BY <1>0, <1>1 DEF OnePerAddress
<1>5. OwnersAlone' /\ OwnersApart'
  BY <1>0, <1>1, <1>t DEF OwnersAlone, OwnersApart, Owns, Opening, Unused, Counted
<1>6. ClosersApart'
  BY <1>0, <1>1, <1>t DEF ClosersApart, Closing, Unused, Counted, OnePerAddress, TypeOK
<1>7. SemaphoreFree'
  BY <1>0, <1>1 DEF SemaphoreFree, Unused, Counted
<1>8. WalkerHolds'
  BY <1>0, <1>1, <1>t DEF WalkerHolds, Threads
<1>9. PinnedLive' /\ NeverBlocksLocked'
  BY <1>0, <1>1, <1>t DEF PinnedLive, NeverBlocksLocked, LiveAt, Counted
<1> QED
  BY <1>2, <1>3, <1>4, <1>5, <1>6, <1>7, <1>8, <1>9 DEF IInv

(* The semaphore of a stream can only be taken once its users are gone.    *)
LEMMA DrainInv ==
  ASSUME IInv, NEW t \in Clients, Drain(t)
  PROVE  IInv'
<1>0. /\ TypeOK /\ OnePerAddress /\ OwnersAlone /\ OwnersApart /\ ClosersApart
      /\ SemaphoreFree /\ WalkerHolds
      /\ PinnedLive /\ CountExact /\ NeverBlocksLocked
  BY DEF IInv
<1>t. t \in Threads /\ t # Ssr
  BY ThreadsAssumption DEF Threads
<1>a. PICK s \in live :
        /\ place[s] = at[t] /\ smph[s] > 0
        /\ smph' = [smph EXCEPT ![s] = @ - 1]
        /\ obj' = [obj EXCEPT ![t] = s]
  BY DEF Drain, LiveAt
<1>b. smph[s] = 1 /\ s \in Streams
  BY <1>0, <1>a DEF TypeOK
<1>c. smph' = [smph EXCEPT ![s] = 0]
  <2>1. smph[s] - 1 = 0
    BY <1>b
  <2> QED
    BY <1>a, <2>1
<1>1. /\ pc'[t] = "deleting" /\ at' = at /\ obj'[t] = s
      /\ \A u \in Threads \ {t} : pc'[u] = pc[u] /\ obj'[u] = obj[u]
      /\ pc[t] = "draining"
      /\ UNCHANGED <<live, place, listed, keyed, active, count, activeMutex, at>>
  BY <1>0, <1>t, <1>a DEF Drain, Goes, TypeOK, objects, entry, locks
<1>2. TypeOK'
  BY <1>0, <1>t, <1>a, <1>b, <1>c DEF TypeOK, Drain, Goes, objects, entry, locks
<1>3. CountExact'
  <2>1. /\ count' = count
        /\ \A u \in Threads : /\ pc'[u] \in Counted <=> pc[u] \in Counted
                              /\ pc[u] \in Counted => at'[u] = at[u]
    BY <1>1 DEF Drain, entry, Counted
  <2> QED
    BY <1>0, <2>1, CountKept
<1>4. OnePerAddress'
  BY <1>0, <1>1 DEF OnePerAddress
<1>5. Unused(at[t]) /\ at[t] \notin active
  BY <1>0, <1>1, <1>a, <1>b, <1>t DEF SemaphoreFree, ClosersApart, Closing
<1>6. OwnersAlone' /\ OwnersApart'
  BY <1>0, <1>1, <1>a, <1>5, <1>t DEF OwnersAlone, OwnersApart, ClosersApart, Owns, Opening,
                                      Closing, Unused, Counted
<1>7. ClosersApart'
  BY <1>0, <1>1, <1>t DEF ClosersApart, Closing, Unused, Counted
<1>8. SemaphoreFree' /\ WalkerHolds'
  <2>1. SemaphoreFree'
    BY <1>0, <1>1, <1>a, <1>b, <1>c, <1>5 DEF SemaphoreFree, OnePerAddress, TypeOK, Unused,
                                              Counted
  <2>2. WalkerHolds'
    BY <1>0, <1>1, <1>t DEF WalkerHolds, Threads
  <2> QED
    BY <2>1, <2>2
<1>9. PinnedLive' /\ NeverBlocksLocked'
  BY <1>0, <1>1, <1>t DEF PinnedLive, NeverBlocksLocked, LiveAt, Counted
<1> QED
  BY <1>2, <1>3, <1>4, <1>5, <1>6, <1>7, <1>8, <1>9 DEF IInv

(***************************************************************************)
(* The list loses the object only while the restart thread has no place on *)
(* it, or is away in the handler of a stream it has pinned.                *)
(***************************************************************************)
LEMMA DeregisterInv ==
  ASSUME IInv, NEW t \in Clients, DeregisterStream(t)
  PROVE  IInv'
<1>0. /\ TypeOK /\ OnePerAddress /\ OwnersAlone /\ OwnersApart /\ ClosersApart
      /\ SemaphoreFree /\ WalkerHolds
      /\ PinnedLive /\ CountExact /\ NeverBlocksLocked
  BY DEF IInv
<1>t. t \in Threads /\ t # Ssr
  BY ThreadsAssumption DEF Threads
<1>1. /\ pc[t] \in {"deleting", "failed"}
      /\ pc'[t] = (IF pc[t] = "failed" THEN "undoing" ELSE "destroying")
      /\ \A u \in Threads \ {t} : pc'[u] = pc[u]
      /\ activeMutex = None /\ listed' = listed \ {obj[t]}
      /\ UNCHANGED <<live, place, keyed, active, count, smph, activeMutex, obj, at>>
  BY <1>0, <1>t DEF DeregisterStream, Goes, TypeOK, entry, locks
<1>2. TypeOK'
  BY <1>0, <1>t DEF TypeOK, DeregisterStream, Goes, entry, locks
<1>3. CountExact'
  <2>1. /\ count' = count
        /\ \A u \in Threads : /\ pc'[u] \in Counted <=> pc[u] \in Counted
                              /\ pc[u] \in Counted => at'[u] = at[u]
    BY <1>1 DEF DeregisterStream, entry, Counted
  <2> QED
    BY <1>0, <2>1, CountKept
<1>4. OnePerAddress'
  BY <1>0, <1>1 DEF OnePerAddress
<1>5. OwnersAlone' /\ OwnersApart'
  BY <1>0, <1>1, <1>t DEF OwnersAlone, OwnersApart, Owns, Opening, Unused, Counted
<1>6. ClosersApart'
  BY <1>0, <1>1, <1>t DEF ClosersApart, Closing, Unused, Counted
<1>7. SemaphoreFree'
  BY <1>0, <1>1 DEF SemaphoreFree, Unused, Counted
<1>8. WalkerHolds'
  <2>1. Ssr \in Threads /\ activeMutex # Ssr /\ Owns(t)
    BY <1>1 DEF Threads, Owns, Opening
  <2>2. pc[Ssr] \in {"idle", "away"}
    BY <1>0, <2>1 DEF WalkerHolds, Counted
  <2>3. pc[Ssr] = "away" => obj[Ssr] # obj[t]
    BY <1>0, <1>t, <2>1 DEF PinnedLive, LiveAt, OwnersAlone, Unused, Counted
  <2> QED
    BY <1>0, <1>1, <1>t, <2>1, <2>2, <2>3 DEF WalkerHolds, Counted
<1>9. PinnedLive' /\ NeverBlocksLocked'
  BY <1>0, <1>1, <1>t DEF PinnedLive, NeverBlocksLocked, LiveAt, Counted
<1> QED
  BY <1>2, <1>3, <1>4, <1>5, <1>6, <1>7, <1>8, <1>9 DEF IInv

(* The object deleted has no users, and no other thread will delete it.    *)
LEMMA DeleteInv ==
  ASSUME IInv, NEW t \in Clients, Delete(t)
  PROVE  IInv'
<1>0. /\ TypeOK /\ OnePerAddress /\ OwnersAlone /\ OwnersApart /\ ClosersApart
      /\ SemaphoreFree /\ WalkerHolds
      /\ PinnedLive /\ CountExact /\ NeverBlocksLocked
  BY DEF IInv
<1>t. t \in Threads /\ t # Ssr
  BY ThreadsAssumption DEF Threads
<1>1. /\ pc[t] \in {"destroying", "undoing"}
      /\ pc'[t] = (IF pc[t] = "undoing" THEN "idle" ELSE "erasing")
      /\ \A u \in Threads \ {t} : pc'[u] = pc[u]
      /\ live' = live \ {obj[t]}
      /\ UNCHANGED <<place, listed, ahead, keyed, active, count, smph, activeMutex, obj, at>>
  BY <1>0, <1>t DEF Delete, Goes, TypeOK, entry, locks
<1>a. /\ obj[t] \in live /\ place[obj[t]] = at[t] /\ at[t] \notin active
      /\ Unused(at[t]) /\ obj[t] \notin listed
  BY <1>0, <1>1, <1>t DEF OwnersAlone, Owns, Opening
<1>2. TypeOK'
  BY <1>0, <1>t, <1>a DEF TypeOK, Delete, Goes, entry, locks
<1>3. CountExact'
  <2>1. /\ count' = count
        /\ \A u \in Threads : /\ pc'[u] \in Counted <=> pc[u] \in Counted
                              /\ pc[u] \in Counted => at'[u] = at[u]
    BY <1>1 DEF Delete, entry, Counted
  <2> QED
    BY <1>0, <2>1, CountKept
<1>4. OnePerAddress'
  BY <1>0, <1>1, <1>a DEF OnePerAddress
<1>5. OwnersAlone' /\ OwnersApart'
  <2>1. \A u \in Threads : Owns(u)' => u # t /\ Owns(u) /\ obj[u] # obj[t]
    BY <1>0, <1>1, <1>a, <1>t DEF OwnersAlone, OwnersApart, Owns, Opening
  <2> QED
    BY <1>0, <1>1, <1>t, <2>1 DEF OwnersAlone, OwnersApart, Owns, Opening, Unused, Counted
<1>6. ClosersApart'
  <2>1. \A u \in Threads \ {t} : pc[u] = "draining" => at[u] # at[t]
    BY <1>0, <1>1, <1>t DEF OwnersApart, Owns, Opening
  <2> QED
    BY <1>0, <1>1, <1>a, <1>t, <2>1 DEF ClosersApart, Closing, Unused, Counted
<1>7. SemaphoreFree'
  BY <1>0, <1>1 DEF SemaphoreFree, Unused, Counted
<1>8. WalkerHolds'
  BY <1>0, <1>1, <1>t DEF WalkerHolds, Threads
<1>9. PinnedLive' /\ NeverBlocksLocked'
  BY <1>0, <1>1, <1>a, <1>t DEF PinnedLive, NeverBlocksLocked, LiveAt, Unused, Counted
<1> QED
  BY <1>2, <1>3, <1>4, <1>5, <1>6, <1>7, <1>8, <1>9 DEF IInv

(* The entry erased is one of an address nobody uses.                      *)
LEMMA EraseInv ==
  ASSUME IInv, NEW t \in Clients, EraseStreamUserCounter(t)
  PROVE  IInv'
<1>0. /\ TypeOK /\ OnePerAddress /\ OwnersAlone /\ OwnersApart /\ ClosersApart
      /\ SemaphoreFree /\ WalkerHolds
      /\ PinnedLive /\ CountExact /\ NeverBlocksLocked
  BY DEF IInv
<1>t. t \in Threads /\ t # Ssr
  BY ThreadsAssumption DEF Threads
<1>1. /\ pc[t] = "erasing" /\ pc'[t] = "idle"
      /\ \A u \in Threads \ {t} : pc'[u] = pc[u]
      /\ keyed' = keyed \ {at[t]} /\ active' = active \ {at[t]}
      /\ UNCHANGED <<live, place, listed, ahead, smph, activeMutex, obj, at>>
  BY <1>0, <1>t DEF EraseStreamUserCounter, Goes, TypeOK, objects, locks
<1>a. at[t] \in Addresses /\ at[t] \notin active /\ Unused(at[t])
  BY <1>0, <1>1, <1>t DEF ClosersApart, Closing, TypeOK
<1>b. active' = active /\ count' = count
  <2> PICK a \in Addresses : a = at[t]
    BY <1>a
  <2>1. count[a] = 0 /\ count \in [Addresses -> Nat]
    BY <1>0, <1>a, UnusedIs DEF TypeOK
  <2> QED
    BY <1>a, <1>1, <2>1 DEF EraseStreamUserCounter
<1>2. TypeOK'
  BY <1>0, <1>t, <1>a, <1>b DEF TypeOK, EraseStreamUserCounter, Goes, objects, locks
<1>3. CountExact'
  <2>1. /\ count' = count
        /\ \A u \in Threads : /\ pc'[u] \in Counted <=> pc[u] \in Counted
                              /\ pc[u] \in Counted => at'[u] = at[u]
    BY <1>1, <1>b DEF Counted
  <2> QED
    BY <1>0, <2>1, CountKept
<1>4. OnePerAddress'
  BY <1>0, <1>1, <1>b DEF OnePerAddress
<1>5. OwnersAlone' /\ OwnersApart'
  BY <1>0, <1>1, <1>b, <1>t DEF OwnersAlone, OwnersApart, Owns, Opening, Unused, Counted
<1>6. ClosersApart'
  BY <1>0, <1>1, <1>b, <1>t DEF ClosersApart, Closing, Unused, Counted
<1>7. SemaphoreFree'
  BY <1>0, <1>1, <1>b DEF SemaphoreFree, Unused, Counted
<1>8. WalkerHolds'
  BY <1>0, <1>1, <1>t DEF WalkerHolds, Threads
<1>9. PinnedLive' /\ NeverBlocksLocked'
  BY <1>0, <1>1, <1>t DEF PinnedLive, NeverBlocksLocked, LiveAt, Counted
<1> QED
  BY <1>2, <1>3, <1>4, <1>5, <1>6, <1>7, <1>8, <1>9 DEF IInv

(***************************************************************************)
(* A step of the restart thread that leaves the objects and the counters   *)
(* as they are and takes it neither into a stream nor out of one.          *)
(***************************************************************************)
LEMMA WalkInv ==
  ASSUME IInv, NEW q \in {"idle", "walking"} \cup Counted, NEW x \in Streams \cup {None},
         pc[Ssr] \in Counted <=> q \in Counted,
         pc' = [pc EXCEPT ![Ssr] = q], obj' = [obj EXCEPT ![Ssr] = x], at' = at,
         q \in Counted => x = obj[Ssr],
         UNCHANGED <<live, place, listed, keyed, active, count, smph, validMutex, owned>>,
         ahead' \subseteq listed, activeMutex' \in {Ssr, None}, walks' \in 0..MaxWalks,
         q # "idle" => x \in listed,
         q \in {"walking", "using", "back"} => activeMutex' = Ssr
  PROVE  IInv'
<1>0. /\ TypeOK /\ OnePerAddress /\ OwnersAlone /\ OwnersApart /\ ClosersApart
      /\ SemaphoreFree /\ WalkerHolds
      /\ PinnedLive /\ CountExact /\ NeverBlocksLocked
  BY DEF IInv
<1>t. Ssr \in Threads
  BY DEF Threads
<1>1. /\ pc'[Ssr] = q /\ obj'[Ssr] = x
      /\ \A u \in Threads \ {Ssr} : pc'[u] = pc[u] /\ obj'[u] = obj[u]
      /\ ~Owns(Ssr) /\ ~Owns(Ssr)' /\ ~Closing(Ssr) /\ ~Closing(Ssr)'
  BY <1>0, <1>t DEF TypeOK, WalkerHolds, Counted, Owns, Opening, Closing
<1>2. TypeOK'
  BY <1>0, <1>t DEF TypeOK, Counted
<1>3. CountExact'
  <2>1. /\ count' = count
        /\ \A u \in Threads : /\ pc'[u] \in Counted <=> pc[u] \in Counted
                              /\ pc[u] \in Counted => at'[u] = at[u]
    BY <1>1 DEF Counted
  <2> QED
    BY <1>0, <2>1, CountKept
<1>4. OnePerAddress'
  BY <1>0 DEF OnePerAddress
<1>5. OwnersAlone' /\ OwnersApart'
  BY <1>0, <1>1, <1>t DEF OwnersAlone, OwnersApart, Owns, Opening, Unused, Counted
<1>6. ClosersApart'
  BY <1>0, <1>1, <1>t DEF ClosersApart, Closing, Unused, Counted
<1>7. SemaphoreFree'
  BY <1>0, <1>1 DEF SemaphoreFree, Unused, Counted
<1>8. WalkerHolds'
  BY <1>1 DEF WalkerHolds, Counted
<1>9. PinnedLive' /\ NeverBlocksLocked'
  BY <1>0, <1>1 DEF PinnedLive, NeverBlocksLocked, LiveAt, Counted
<1> QED
  BY <1>2, <1>3, <1>4, <1>5, <1>6, <1>7, <1>8, <1>9 DEF IInv

(* Every step keeps the invariant.                                         *)
LEMMA NextInv == ASSUME IInv, [Next]_vars PROVE IInv'
<1>0. /\ TypeOK /\ OnePerAddress /\ OwnersAlone /\ OwnersApart /\ ClosersApart
      /\ SemaphoreFree /\ WalkerHolds
      /\ PinnedLive /\ CountExact /\ NeverBlocksLocked
  BY DEF IInv
<1>t. \A t \in Clients : t \in Threads /\ t # Ssr
  BY ThreadsAssumption DEF Threads
<1>s. Ssr \in Threads
  BY DEF Threads
<1>1. ASSUME NEW t \in Clients, NEW s \in Streams, NEW a \in Addresses, Create(t, s, a)
      PROVE  IInv'
  BY <1>1, CreateInv
<1>2. ASSUME NEW t \in Clients, NEW s \in Streams, BeginOperation(t, s) PROVE IInv'
  BY <1>2, <1>t, IncreaseInv DEF BeginOperation
<1>3. ASSUME NEW t \in Clients, NEW s \in Streams, BeginClose(t, s) PROVE IInv'
  BY <1>3, BeginCloseInv
<1>4. ASSUME NEW t \in Clients, OpenFails(t) PROVE IInv'
  BY <1>4, OpenFailsInv
<1>5. ASSUME NEW t \in Clients, InitStreamUserCounter(t) PROVE IInv'
  BY <1>5, InitStreamUserCounterInv
<1>6. ASSUME NEW t \in Clients, EndOperation(t) PROVE IInv'
  <2>1. /\ pc[t] \in Counted /\ Decrease(t) /\ pc' = [pc EXCEPT ![t] = "idle"]
        /\ at' = at /\ ahead' \subseteq listed /\ activeMutex' \in {Ssr, None}
        /\ UNCHANGED <<live, place, listed, validMutex, owned, walks>>
    BY <1>0, <1>6 DEF EndOperation, Goes, objects, locks, TypeOK, Counted
  <2>2. obj' = [obj EXCEPT ![t] = obj[t]] /\ obj[t] \in Streams \cup {None}
    BY <1>0, <1>6, <1>t DEF EndOperation, TypeOK
  <2>3. pc'[Ssr] = pc[Ssr] /\ obj'[Ssr] = obj[Ssr] /\ activeMutex' = activeMutex
    BY <1>0, <1>6, <1>t, <1>s DEF EndOperation, Goes, locks, TypeOK
  <2>4. WalkerHolds'
    BY <1>0, <2>1, <2>3 DEF WalkerHolds
  <2> QED
    BY <1>t, <2>1, <2>2, <2>4, DecreaseInv
<1>7. ASSUME NEW t \in Clients, DeactivateStreamUserCounter(t) PROVE IInv'
  BY <1>7, DeactivateInv
<1>8. ASSUME NEW t \in Clients, Drain(t) PROVE IInv'
  BY <1>8, DrainInv
<1>9. ASSUME NEW t \in Clients, DeregisterStream(t) PROVE IInv'
  BY <1>9, DeregisterInv
<1>10. ASSUME NEW t \in Clients, Delete(t) PROVE IInv'
  BY <1>10, DeleteInv
<1>11. ASSUME NEW t \in Clients, EraseStreamUserCounter(t) PROVE IInv'
  BY <1>11, EraseInv
<1>12. CASE BeginWalk
  <2> PICK s \in listed : obj' = [obj EXCEPT ![Ssr] = s] /\ ahead' = listed \ {s}
    BY <1>12 DEF BeginWalk
  <2>1. /\ s \in Streams
        /\ pc[Ssr] \notin Counted /\ "walking" \notin Counted
        /\ pc' = [pc EXCEPT ![Ssr] = "walking"] /\ at' = at
        /\ UNCHANGED <<live, place, listed, keyed, active, count, smph, validMutex, owned>>
        /\ activeMutex' = Ssr /\ walks' \in 0..MaxWalks
    BY <1>0, <1>12 DEF BeginWalk, Goes, entry, TypeOK, Counted
  <2> QED
    BY <2>1, WalkInv
<1>13. CASE PinCurrent
  <2>1. /\ obj[Ssr] \in listed /\ pc[Ssr] = "walking" /\ Increase(Ssr, obj[Ssr])
        /\ UNCHANGED <<objects, activeMutex, owned, walks>>
    BY <1>0, <1>13 DEF PinCurrent, WalkerHolds
  <2> QED
    BY <1>s, <2>1, IncreaseInv
<1>14. ASSUME Advance, pc[Ssr] \in {"walking", "using", "back"}
       PROVE  \E q \in {"idle", "walking"}, x \in Streams \cup {None} :
                /\ pc' = [pc EXCEPT ![Ssr] = q] /\ obj' = [obj EXCEPT ![Ssr] = x]
                /\ ahead' \subseteq listed /\ activeMutex' \in {Ssr, None}
                /\ q # "idle" => x \in listed /\ activeMutex' = Ssr
  <2>1. ASSUME NEW s \in ahead, ahead' = ahead \ {s}, obj' = [obj EXCEPT ![Ssr] = s],
               Goes(Ssr, "walking"), UNCHANGED activeMutex
        PROVE  /\ pc' = [pc EXCEPT ![Ssr] = "walking"] /\ obj' = [obj EXCEPT ![Ssr] = s]
               /\ ahead' \subseteq listed /\ activeMutex' = Ssr /\ s \in listed /\ s \in Streams
    BY <1>0, <1>14, <2>1 DEF Goes, WalkerHolds, TypeOK
  <2>2. ASSUME ahead = {}, activeMutex' = None, Goes(Ssr, "idle"), UNCHANGED <<ahead, obj>>
        PROVE  /\ pc' = [pc EXCEPT ![Ssr] = "idle"] /\ obj' = [obj EXCEPT ![Ssr] = obj[Ssr]]
               /\ ahead' \subseteq listed /\ obj[Ssr] \in Streams \cup {None}
    BY <1>0, <1>s, <2>2 DEF Goes, TypeOK
  <2> QED
    BY <1>14, <2>1, <2>2 DEF Advance
<1>15. CASE PassOver
  <2>1. pc[Ssr] = "walking" /\ Advance
    BY <1>15 DEF PassOver
  <2>2. PICK q \in {"idle", "walking"}, x \in Streams \cup {None} :
                /\ pc' = [pc EXCEPT ![Ssr] = q] /\ obj' = [obj EXCEPT ![Ssr] = x]
                /\ ahead' \subseteq listed /\ activeMutex' \in {Ssr, None}
                /\ q # "idle" => x \in listed /\ activeMutex' = Ssr
    BY <1>14, <2>1
  <2>3. /\ pc[Ssr] \notin Counted /\ q \notin Counted
        /\ UNCHANGED <<live, place, listed, keyed, active, count, smph, validMutex, owned, at>>
        /\ walks' \in 0..MaxWalks
    BY <1>0, <1>15, <2>1 DEF Counted, PassOver, entry, TypeOK
  <2> QED
    BY <2>2, <2>3, WalkInv
<1>16. CASE HandlerUnlocks
  <2>1. /\ pc[Ssr] \in Counted /\ "away" \in Counted /\ pc[Ssr] # "idle"
        /\ pc' = [pc EXCEPT ![Ssr] = "away"] /\ at' = at /\ activeMutex' = None
        /\ UNCHANGED <<live, place, listed, ahead, keyed, active, count, smph, validMutex,
                       owned, walks>>
    BY <1>16 DEF HandlerUnlocks, Goes, objects, entry, Counted
  <2>2. obj' = [obj EXCEPT ![Ssr] = obj[Ssr]] /\ obj[Ssr] \in Streams /\ obj[Ssr] \in listed
        /\ walks' \in 0..MaxWalks /\ ahead' \subseteq listed
    BY <1>0, <1>16, <1>s, <2>1 DEF HandlerUnlocks, TypeOK, WalkerHolds
  <2> QED
    BY <2>1, <2>2, WalkInv
<1>17. CASE HandlerRelocks
  <2>1. /\ pc[Ssr] \in Counted /\ "back" \in Counted /\ pc[Ssr] # "idle"
        /\ pc' = [pc EXCEPT ![Ssr] = "back"] /\ at' = at /\ activeMutex' = Ssr
        /\ UNCHANGED <<live, place, listed, ahead, keyed, active, count, smph, validMutex,
                       owned, walks>>
    BY <1>17 DEF HandlerRelocks, Goes, objects, entry, Counted
  <2>2. obj' = [obj EXCEPT ![Ssr] = obj[Ssr]] /\ obj[Ssr] \in Streams /\ obj[Ssr] \in listed
        /\ walks' \in 0..MaxWalks /\ ahead' \subseteq listed
    BY <1>0, <1>17, <1>s, <2>1 DEF HandlerRelocks, TypeOK, WalkerHolds
  <2> QED
    BY <2>1, <2>2, WalkInv
<1>18. CASE UnpinCurrent
  <2>1. /\ pc[Ssr] \in {"using", "back"} /\ pc[Ssr] \in Counted /\ Decrease(Ssr) /\ Advance
        /\ UNCHANGED <<live, place, listed, validMutex, at, owned, walks>>
    BY <1>18 DEF UnpinCurrent, Counted
  <2>2. PICK q \in {"idle", "walking"}, x \in Streams \cup {None} :
                /\ pc' = [pc EXCEPT ![Ssr] = q] /\ obj' = [obj EXCEPT ![Ssr] = x]
                /\ ahead' \subseteq listed /\ activeMutex' \in {Ssr, None}
                /\ q # "idle" => x \in listed /\ activeMutex' = Ssr
    BY <1>14, <2>1
  <2>3. WalkerHolds'
    BY <1>0, <1>s, <2>1, <2>2 DEF WalkerHolds, TypeOK
  <2> QED
    BY <1>s, <2>1, <2>2, <2>3, DecreaseInv
<1>19. CASE UNCHANGED vars
  <2>1. /\ UNCHANGED <<live, place, listed, ahead, keyed, active, count, smph>>
        /\ UNCHANGED <<validMutex, activeMutex, pc, at, obj, owned, walks>>
    BY <1>19 DEF vars, objects, entry, locks, threads
  <2>2. CountExact'
    BY <1>0, <2>1, CountKept
  <2>3. TypeOK' /\ OnePerAddress' /\ OwnersAlone' /\ OwnersApart'
    BY <1>0, <2>1 DEF TypeOK, OnePerAddress, OwnersAlone, OwnersApart, Owns, Opening, Unused
  <2>4. ClosersApart' /\ SemaphoreFree' /\ WalkerHolds' /\ PinnedLive' /\ NeverBlocksLocked'
    BY <1>0, <2>1 DEF ClosersApart, Closing, SemaphoreFree, WalkerHolds, PinnedLive, LiveAt,
                      NeverBlocksLocked, Unused
  <2> QED
    BY <2>2, <2>3, <2>4 DEF IInv
<1> QED
  BY <1>1, <1>2, <1>3, <1>4, <1>5, <1>6, <1>7, <1>8, <1>9, <1>10, <1>11, <1>12, <1>13, <1>15,
     <1>16, <1>17, <1>18, <1>19 DEF Next, Client, Proceed, Walk

(***************************************************************************)
(* Who bears a handle, step by step.  Every step of a client moves only    *)
(* that client, and only a close takes a handle from its owner.            *)
(***************************************************************************)
LEMMA OneBearerNext == ASSUME ~ConcurrentClose, IInv, OneBearer, [Next]_vars PROVE OneBearer'
<1>0. /\ TypeOK /\ OnePerAddress /\ OwnersAlone /\ OwnersApart /\ ClosersApart /\ WalkerHolds
  BY DEF IInv
<1>t. \A t \in Clients : t \in Threads /\ t # Ssr
  BY ThreadsAssumption DEF Threads
<1>s. Ssr \in Threads /\ ~Bears(Ssr) /\ pc[Ssr] \notin {"opening", "closing"}
  BY <1>0 DEF Threads, WalkerHolds, Counted, Bears, Owns, Opening
<1>1. ASSUME NEW t \in Clients, NEW s \in Streams, NEW a \in Addresses, Create(t, s, a)
      PROVE  OneBearer'
  <2>1. /\ pc'[t] = "opening" /\ at'[t] = a /\ obj'[t] = s
        /\ \A u \in Threads \ {t} : pc'[u] = pc[u] /\ at'[u] = at[u] /\ obj'[u] = obj[u]
        /\ listed' = listed \cup {s} /\ owned' = owned /\ place'[s] = a
        /\ \A r \in live : place'[r] = place[r] /\ place[r] # a /\ r # s
    BY <1>0, <1>1, <1>t DEF Create, Goes, TypeOK, LiveAt
  <2>2. \A r \in listed : r \in live
    BY <1>0 DEF TypeOK
  <2> QED
    BY <1>t, <2>1, <2>2 DEF OneBearer, Bears, Owns, Opening
<1>2. ASSUME NEW t \in Threads, pc[t] \notin {"opening", "closing"}, ~Bears(t),
             pc'[t] \notin {"opening", "closing"}, ~Bears(t)',
             \A u \in Threads \ {t} : pc'[u] = pc[u] /\ at'[u] = at[u] /\ obj'[u] = obj[u],
             UNCHANGED <<listed, place, owned>>
      PROVE  OneBearer'
  BY <1>2 DEF OneBearer, Bears, Owns, Opening
<1>3. ASSUME NEW t \in Threads, NEW s, Increase(t, s), pc[t] \in {"idle", "walking"},
             UNCHANGED <<listed, place, owned>>
      PROVE  OneBearer'
  <2>1. /\ pc'[t] \in {"blocked", "using"}
        /\ \A u \in Threads \ {t} : pc'[u] = pc[u] /\ at'[u] = at[u] /\ obj'[u] = obj[u]
    BY <1>0, <1>3 DEF Increase, Goes, TypeOK
  <2> QED
    BY <1>2, <1>3, <2>1 DEF Bears, Owns, Opening
<1>4. ASSUME NEW t \in Clients, NEW s \in Streams, BeginOperation(t, s) PROVE OneBearer'
  BY <1>3, <1>4, <1>t DEF BeginOperation, objects
<1>5. ASSUME NEW t \in Clients, NEW s \in Streams, BeginClose(t, s) PROVE OneBearer'
  <2>1. /\ pc'[t] = "closing" /\ at'[t] = place[s] /\ obj'[t] = s /\ s \in listed
        /\ s \in owned /\ owned' = owned \ {s}
        /\ \A u \in Threads \ {t} : pc'[u] = pc[u] /\ at'[u] = at[u] /\ obj'[u] = obj[u]
        /\ UNCHANGED <<listed, place>>
    BY <1>0, <1>5, <1>t DEF BeginClose, Goes, TypeOK, objects
  <2>2. \A r \in owned : place[r] = place[s] => r = s
    BY <1>0, <2>1 DEF OneBearer, OnePerAddress, TypeOK
  <2> QED
    BY <1>t, <2>1, <2>2 DEF OneBearer, Bears, Owns, Opening
<1>6. ASSUME NEW t \in Clients, OpenFails(t) PROVE OneBearer'
  <2>1. /\ pc'[t] = "failed" /\ Bears(t)
        /\ \A u \in Threads \ {t} : pc'[u] = pc[u]
        /\ UNCHANGED <<listed, place, owned, at, obj>>
    BY <1>0, <1>6, <1>t DEF OpenFails, Goes, TypeOK, objects, Bears, Owns, Opening
  <2> QED
    BY <1>t, <2>1 DEF OneBearer, Bears, Owns, Opening
<1>7. ASSUME NEW t \in Clients, InitStreamUserCounter(t) PROVE OneBearer'
  <2>1. /\ pc[t] = "opening" /\ pc'[t] = "idle" /\ owned' = owned \cup {obj[t]}
        /\ \A u \in Threads \ {t} : pc'[u] = pc[u]
        /\ UNCHANGED <<listed, place, at, obj>>
    BY <1>0, <1>7, <1>t DEF InitStreamUserCounter, Goes, TypeOK, objects
  <2>2. \A u \in Threads \ {t} : Bears(u) => at[u] # at[t]
    BY <1>0, <1>t, <2>1 DEF OneBearer, OwnersApart, Bears, Owns, Opening
  <2> QED
    BY <1>t, <2>1, <2>2 DEF OneBearer, Bears, Owns, Opening
<1>8. ASSUME NEW t \in Clients, EndOperation(t) PROVE OneBearer'
  <2>1. /\ pc[t] = "using" /\ pc'[t] = "idle"
        /\ \A u \in Threads \ {t} : pc'[u] = pc[u]
        /\ UNCHANGED <<listed, place, owned, at, obj>>
    BY <1>0, <1>8, <1>t DEF EndOperation, Goes, TypeOK, objects
  <2> QED
    BY <1>2, <1>t, <2>1 DEF Bears, Owns, Opening
<1>9. ASSUME NEW t \in Clients, DeactivateStreamUserCounter(t) PROVE OneBearer'
  <2>1. /\ pc[t] = "closing" /\ pc'[t] \in {"draining", "idle"}
        /\ \A u \in Threads \ {t} : pc'[u] = pc[u]
        /\ UNCHANGED <<listed, place, owned, at, obj>>
    BY <1>0, <1>9, <1>t DEF DeactivateStreamUserCounter, Goes, TypeOK, objects
  <2> QED
    BY <1>t, <2>1 DEF OneBearer, Bears, Owns, Opening
<1>10. ASSUME NEW t \in Clients, Drain(t) PROVE OneBearer'
  <2>1. /\ pc[t] = "draining" /\ pc'[t] = "deleting"
        /\ \A u \in Threads \ {t} : pc'[u] = pc[u] /\ obj'[u] = obj[u]
        /\ UNCHANGED <<listed, place, owned, at>>
    BY <1>0, <1>10, <1>t DEF Drain, Goes, TypeOK, objects
  <2> QED
    BY <1>t, <2>1 DEF OneBearer, Bears, Owns, Opening
<1>11. ASSUME NEW t \in Clients, DeregisterStream(t) PROVE OneBearer'
  <2>1. /\ Bears(t) /\ Owns(t) /\ pc'[t] \in {"destroying", "undoing"}
        /\ \A u \in Threads \ {t} : pc'[u] = pc[u] /\ obj'[u] = obj[u]
        /\ listed' = listed \ {obj[t]}
        /\ UNCHANGED <<place, owned, at, obj>>
    BY <1>0, <1>11, <1>t DEF DeregisterStream, Goes, TypeOK, Bears, Owns, Opening
  <2>2. place[obj[t]] = at[t]
    BY <1>0, <1>t, <2>1 DEF OwnersAlone
  <2>3. \A u \in Threads \ {t} : pc[u] \in {"opening", "closing"} => obj[u] # obj[t]
    BY <1>0, <1>t, <2>1, <2>2 DEF OneBearer, OwnersApart, Bears, Owns, Opening
  <2> QED
    BY <1>t, <2>1, <2>2, <2>3 DEF OneBearer, Bears, Owns, Opening
<1>12. ASSUME NEW t \in Clients, Delete(t) PROVE OneBearer'
  <2>1. /\ Bears(t) /\ pc'[t] \in {"idle", "erasing"}
        /\ \A u \in Threads \ {t} : pc'[u] = pc[u]
        /\ UNCHANGED <<listed, place, owned, at, obj>>
    BY <1>0, <1>12, <1>t DEF Delete, Goes, TypeOK, Bears, Owns, Opening
  <2> QED
    BY <1>t, <2>1 DEF OneBearer, Bears, Owns, Opening
<1>13. ASSUME NEW t \in Clients, EraseStreamUserCounter(t) PROVE OneBearer'
  <2>1. /\ pc[t] = "erasing" /\ pc'[t] = "idle"
        /\ \A u \in Threads \ {t} : pc'[u] = pc[u]
        /\ UNCHANGED <<listed, place, owned, at, obj>>
    BY <1>0, <1>13, <1>t DEF EraseStreamUserCounter, Goes, TypeOK, objects
  <2> QED
    BY <1>2, <1>t, <2>1 DEF Bears, Owns, Opening
<1>14. ASSUME \/ BeginWalk \/ HandlerUnlocks \/ PassOver \/ HandlerRelocks \/ UnpinCurrent
       PROVE  OneBearer'
  <2>1. /\ pc'[Ssr] \in {"idle", "walking", "away", "back"}
        /\ \A u \in Threads \ {Ssr} : pc'[u] = pc[u] /\ obj'[u] = obj[u]
        /\ UNCHANGED <<listed, place, owned, at>>
    BY <1>0, <1>14, <1>s DEF BeginWalk, HandlerUnlocks, PassOver, HandlerRelocks, UnpinCurrent,
                             Advance, Goes, TypeOK, objects
  <2> QED
    BY <1>2, <1>s, <2>1 DEF Bears, Owns, Opening
<1>15. CASE PinCurrent
  BY <1>3, <1>15, <1>s DEF PinCurrent, objects
<1>16. CASE UNCHANGED vars
  BY <1>16 DEF OneBearer, Bears, Owns, Opening, vars, objects, threads
<1> QED
  BY <1>1, <1>4, <1>5, <1>6, <1>7, <1>8, <1>9, <1>10, <1>11, <1>12, <1>13, <1>14, <1>15,
     <1>16 DEF Next, Client, Proceed, Walk

(* An owned handle stays registered and its entry active, step by step.    *)
LEMMA UsableNext ==
  ASSUME ~ConcurrentClose, ~EarlyReuse, IInv, OneBearer, EntryIsNew, HandleUsable, [Next]_vars
  PROVE  EntryIsNew' /\ HandleUsable'
<1>0. /\ TypeOK /\ OnePerAddress /\ OwnersAlone /\ OwnersApart /\ ClosersApart /\ WalkerHolds
  BY DEF IInv
<1>t. \A t \in Clients : t \in Threads /\ t # Ssr
  BY ThreadsAssumption DEF Threads
<1>s. Ssr \in Threads /\ pc[Ssr] # "opening"
  BY <1>0 DEF Threads, WalkerHolds, Counted
<1>a. OneBearer'
  BY OneBearerNext
<1>b. \A s \in owned' : s \in listed'
  BY <1>a DEF OneBearer
<1>1. ASSUME NEW t \in Clients, NEW s \in Streams, NEW a \in Addresses, Create(t, s, a)
      PROVE  EntryIsNew' /\ HandleUsable'
  <2>1. /\ at'[t] = a /\ a \notin keyed /\ listed' = listed \cup {s}
        /\ \A u \in Threads \ {t} : pc'[u] = pc[u] /\ at'[u] = at[u]
        /\ \A r \in live : place'[r] = place[r]
        /\ UNCHANGED <<keyed, active, owned>>
    BY <1>0, <1>1, <1>t DEF Create, Goes, TypeOK, entry
  <2> QED
    BY <1>0, <1>t, <2>1 DEF EntryIsNew, HandleUsable, TypeOK
<1>2. ASSUME NEW t \in Threads, pc'[t] # "opening",
             \A u \in Threads \ {t} : pc'[u] = pc[u] /\ at'[u] = at[u],
             keyed' \subseteq keyed, active' = active, owned' \subseteq owned, UNCHANGED place
      PROVE  EntryIsNew' /\ HandleUsable'
  BY <1>2, <1>b DEF EntryIsNew, HandleUsable
<1>3. ASSUME NEW t \in Threads, NEW s, Increase(t, s), UNCHANGED <<objects, owned>>
      PROVE  EntryIsNew' /\ HandleUsable'
  <2>1. /\ pc'[t] \in {"blocked", "using"}
        /\ \A u \in Threads \ {t} : pc'[u] = pc[u] /\ at'[u] = at[u]
        /\ UNCHANGED <<keyed, active, owned, place>>
    BY <1>0, <1>3 DEF Increase, Goes, TypeOK, objects
  <2> QED
    BY <1>2, <2>1
<1>4. ASSUME NEW t \in Clients, NEW s \in Streams, BeginOperation(t, s)
      PROVE  EntryIsNew' /\ HandleUsable'
  BY <1>3, <1>4, <1>t DEF BeginOperation
<1>5. ASSUME NEW t \in Clients, NEW s \in Streams, BeginClose(t, s)
      PROVE  EntryIsNew' /\ HandleUsable'
  <2>1. /\ pc'[t] = "closing" /\ owned' \subseteq owned
        /\ \A u \in Threads \ {t} : pc'[u] = pc[u] /\ at'[u] = at[u]
        /\ UNCHANGED <<keyed, active, place>>
    BY <1>0, <1>5, <1>t DEF BeginClose, Goes, TypeOK, objects, entry
  <2> QED
    BY <1>2, <1>t, <2>1
<1>6. ASSUME NEW t \in Clients, InitStreamUserCounter(t)
      PROVE  EntryIsNew' /\ HandleUsable'
  <2>1. /\ pc[t] = "opening" /\ pc'[t] = "idle" /\ owned' = owned \cup {obj[t]}
        /\ keyed' = keyed \cup {at[t]}
        /\ active' = (IF at[t] \in keyed THEN active ELSE active \cup {at[t]})
        /\ \A u \in Threads \ {t} : pc'[u] = pc[u]
        /\ UNCHANGED <<place, at>>
    BY <1>0, <1>6, <1>t DEF InitStreamUserCounter, Goes, TypeOK, objects
  <2>2. \A u \in Threads \ {t} : pc[u] = "opening" => at[u] # at[t]
    BY <1>0, <1>t, <2>1 DEF OwnersApart, Owns, Opening
  <2>3. at[t] \notin keyed /\ place[obj[t]] = at[t]
    BY <1>t, <2>1 DEF EntryIsNew, OneBearer
  <2> QED
    BY <1>b, <1>t, <2>1, <2>2, <2>3 DEF EntryIsNew, HandleUsable
<1>7. ASSUME NEW t \in Clients, DeactivateStreamUserCounter(t)
      PROVE  EntryIsNew' /\ HandleUsable'
  <2>1. /\ pc[t] = "closing" /\ pc'[t] \in {"draining", "idle"}
        /\ \A u \in Threads \ {t} : pc'[u] = pc[u]
        /\ active' = active \ {at[t]} /\ UNCHANGED <<keyed, place, at, owned>>
    BY <1>0, <1>7, <1>t DEF DeactivateStreamUserCounter, Goes, TypeOK, objects
  <2>2. \A s \in owned : place[s] # at[t]
    BY <1>t, <2>1 DEF OneBearer, Bears
  <2> QED
    BY <1>b, <1>t, <2>1, <2>2 DEF EntryIsNew, HandleUsable
<1>8. ASSUME NEW t \in Clients,
             \/ OpenFails(t) \/ EndOperation(t) \/ Drain(t)
             \/ DeregisterStream(t) \/ Delete(t)
      PROVE  EntryIsNew' /\ HandleUsable'
  <2>1. /\ pc'[t] # "opening"
        /\ \A u \in Threads \ {t} : pc'[u] = pc[u] /\ at'[u] = at[u]
        /\ UNCHANGED <<keyed, active, owned, place>>
    BY <1>0, <1>8, <1>t DEF OpenFails, EndOperation, Decrease, Drain, DeregisterStream, Delete,
                            Goes, TypeOK,
                            objects, entry
  <2> QED
    BY <1>2, <1>t, <2>1
<1>9. ASSUME NEW t \in Clients, EraseStreamUserCounter(t)
      PROVE  EntryIsNew' /\ HandleUsable'
  <2>1. at[t] \notin active
    BY <1>0, <1>9, <1>t DEF EraseStreamUserCounter, ClosersApart, Closing
  <2>2. /\ pc'[t] # "opening" /\ keyed' \subseteq keyed /\ active' = active
        /\ \A u \in Threads \ {t} : pc'[u] = pc[u] /\ at'[u] = at[u]
        /\ UNCHANGED <<owned, place>>
    BY <1>0, <1>9, <1>t, <2>1 DEF EraseStreamUserCounter, Goes, TypeOK, objects
  <2> QED
    BY <1>2, <1>t, <2>2
<1>10. ASSUME \/ BeginWalk \/ HandlerUnlocks \/ PassOver \/ HandlerRelocks \/ UnpinCurrent
       PROVE  EntryIsNew' /\ HandleUsable'
  <2>1. /\ pc'[Ssr] # "opening"
        /\ \A u \in Threads \ {Ssr} : pc'[u] = pc[u] /\ at'[u] = at[u]
        /\ UNCHANGED <<keyed, active, owned, place>>
    BY <1>0, <1>10, <1>s DEF BeginWalk, HandlerUnlocks, PassOver, HandlerRelocks, UnpinCurrent,
                             Advance, Decrease, Goes, TypeOK, objects, entry
  <2> QED
    BY <1>2, <1>s, <2>1
<1>11. CASE PinCurrent
  BY <1>3, <1>11, <1>s DEF PinCurrent
<1>12. CASE UNCHANGED vars
  BY <1>12 DEF EntryIsNew, HandleUsable, vars, objects, entry, threads
<1> QED
  BY <1>1, <1>4, <1>5, <1>6, <1>7, <1>8, <1>9, <1>10, <1>11, <1>12 DEF Next, Client, Proceed,
                                                                       Walk

(***************************************************************************)
(* The invariant holds of every behaviour, whatever the clients do with    *)
(* handles and the allocator with addresses.                               *)
(***************************************************************************)
THEOREM Invariant == Spec => []IInv
<1> QED
  BY InitInv, NextInv, PTL DEF Spec

(***************************************************************************)
(* The shape of the state: among the rest, a semaphore never exceeds 1 and *)
(* the restart thread's iterator only has registered streams ahead.        *)
(***************************************************************************)
THEOREM TypeCorrect == Spec => []TypeOK
<1>1. IInv => TypeOK
  BY DEF IInv
<1> QED
  BY <1>1, Invariant, PTL

(***************************************************************************)
(* An object that a call or the restart thread is counted on exists until  *)
(* it is uncounted, also when a handle is closed twice or an address given *)
(* out again early.                                                        *)
(***************************************************************************)
THEOREM UsersArePinned == Spec => []PinnedLive
<1>1. IInv => PinnedLive
  BY DEF IInv
<1> QED
  BY <1>1, Invariant, PTL

(***************************************************************************)
(* The count of an address is the number of threads that use it.           *)
(***************************************************************************)
THEOREM CountsUsers == Spec => []CountExact
<1>1. IInv => CountExact
  BY DEF IInv
<1> QED
  BY <1>1, Invariant, PTL

(***************************************************************************)
(* increaseStreamUserCounter() never waits for the semaphore, which it     *)
(* would do inside mValidStreamMutex.                                      *)
(***************************************************************************)
THEOREM NobodyBlocks == Spec => []NeverBlocksLocked
<1>1. IInv => NeverBlocksLocked
  BY DEF IInv
<1> QED
  BY <1>1, Invariant, PTL

(***************************************************************************)
(* The element the restart thread's iterator stands on stays in the list,  *)
(* though the handler it calls gives the list's mutex up.                  *)
(***************************************************************************)
THEOREM IteratorHolds == Spec => []IteratorValid
<1>1. IInv => IteratorValid
  BY DEF IInv, WalkerHolds, IteratorValid
<1> QED
  BY <1>1, Invariant, PTL

(***************************************************************************)
(* Where no handle is closed twice, a closing thread finds the object: it  *)
(* is the only one that may delete it, although nothing counts it.         *)
(***************************************************************************)
THEOREM ClosersFindObject == ASSUME ~ConcurrentClose PROVE Spec => []CloserTouchesLive
<1>1. Init => OneBearer
  BY DEF Init, OneBearer
<1>2. OneBearer /\ IInv /\ [Next]_vars => OneBearer'
  BY OneBearerNext
<1>3. OneBearer /\ IInv => CloserTouchesLive
  <2> SUFFICES ASSUME OneBearer, IInv, NEW t \in Clients,
                      pc[t] \in {"closing", "draining", "deleting"}
               PROVE  LiveAt(at[t]) # {}
    BY DEF CloserTouchesLive
  <2>1. t \in Threads
    BY DEF Threads
  <2>2. \E s \in live : place[s] = at[t]
    BY <2>1 DEF IInv, OneBearer, TypeOK, ClosersApart, Closing, OwnersAlone, Owns
  <2> QED
    BY <2>2 DEF LiveAt
<1> QED
  BY <1>1, <1>2, <1>3, Invariant, PTL DEF Spec

(***************************************************************************)
(* Where besides no address is reused before its entry is erased, every    *)
(* handle returned and not yet closed is one the API accepts.              *)
(***************************************************************************)
THEOREM HandlesAreUsable == ASSUME ~ConcurrentClose, ~EarlyReuse PROVE Spec => []HandleUsable
<1>1. Init => OneBearer /\ EntryIsNew /\ HandleUsable
  BY DEF Init, OneBearer, EntryIsNew, HandleUsable
<1>2. OneBearer /\ EntryIsNew /\ HandleUsable /\ IInv /\ [Next]_vars
        => OneBearer' /\ EntryIsNew' /\ HandleUsable'
  BY OneBearerNext, UsableNext
<1> QED
  BY <1>1, <1>2, Invariant, PTL DEF Spec

===============================================================================
