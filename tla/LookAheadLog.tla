----------------------------- MODULE LookAheadLog -----------------------------
(***************************************************************************)
(* What the look-ahead ring buffer promises, without offsets: the bytes    *)
(* ever written form a log, a reader is a place in that log, and the ring  *)
(* keeps the last `capacity' bytes of it.  An enabled reader is handed the *)
(* log from its place on, byte after byte, and the producer stops short of *)
(* the bytes it still has to read.  A disabled reader does not hold the    *)
(* producer back: it loses what falls out of the ring, and is placed at    *)
(* the oldest byte that is left when it is enabled again.                  *)
(***************************************************************************)
EXTENDS Integers

CONSTANTS Readers, Sizes

VARIABLES
  capacity,  \* bytes the ring holds
  last,      \* the number of the last byte of the log
  place,     \* place[r]: the last byte reader r was handed
  attached,  \* the readers there are
  enabled,   \* the readers that hold the producer back
  given      \* the bytes the last read of each reader returned

vars == <<capacity, last, place, attached, enabled, given>>

Room == {n \in 0..capacity : \A r \in enabled : last + n - place[r] <= capacity}

Append == \E n \in Room : /\ last' = last + n
                          /\ UNCHANGED <<capacity, place, attached, enabled, given>>

Read(r) ==
  \E n \in 1..(last - place[r]) :
    /\ r \in enabled
    /\ given' = [given EXCEPT ![r] = [j \in 1..n |-> place[r] + j]]
    /\ place' = [place EXCEPT ![r] = @ + n]
    /\ UNCHANGED <<capacity, last, attached, enabled>>

Skip(r) ==
  \E n \in 1..(last - place[r]) :
    /\ r \in attached
    /\ place' = [place EXCEPT ![r] = @ + n]
    /\ UNCHANGED <<capacity, last, attached, enabled, given>>

Enable(r) ==
  /\ r \in attached
  /\ enabled' = enabled \cup {r}
  /\ place' = [place EXCEPT ![r] = IF last - @ > capacity THEN last - capacity ELSE @]
  /\ UNCHANGED <<capacity, last, attached, given>>

Disable(r) ==
  /\ enabled' = enabled \ {r}
  /\ UNCHANGED <<capacity, last, place, attached, given>>

Forget(r) ==
  /\ r \in attached
  /\ enabled' = enabled \ {r}
  /\ place' = [place EXCEPT ![r] = last]
  /\ UNCHANGED <<capacity, last, attached, given>>

Attach(r) ==
  /\ r \notin attached
  /\ attached' = attached \cup {r}
  /\ place' = [place EXCEPT ![r] = last]
  /\ UNCHANGED <<capacity, last, enabled, given>>

Detach(r) ==
  /\ r \in attached
  /\ attached' = attached \ {r}
  /\ enabled' = enabled \ {r}
  /\ place' = [place EXCEPT ![r] = 0]
  /\ UNCHANGED <<capacity, last, given>>

Resize ==
  /\ enabled = {}
  /\ capacity' \in Sizes
  /\ UNCHANGED <<last, place, attached, enabled, given>>

Init ==
  /\ capacity \in Sizes
  /\ last = 0
  /\ place = [r \in Readers |-> 0]
  /\ attached = {}
  /\ enabled = {}
  /\ given = [r \in Readers |-> <<>>]

Next ==
  \/ Append
  \/ Resize
  \/ \E r \in Readers : \/ Read(r) \/ Skip(r) \/ Enable(r) \/ Disable(r)
                         \/ Forget(r) \/ Attach(r) \/ Detach(r)

Spec == Init /\ [][Next]_vars
===============================================================================
