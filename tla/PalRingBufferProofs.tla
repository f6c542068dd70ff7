-------------------------- MODULE PalRingBufferProofs --------------------------
(***************************************************************************)
(* Proofs about the ring buffer, for any readers, any sizes and any number *)
(* of bytes.  With and without a reset that overlaps a read: its offsets   *)
(* and counts agree.  With the two kept apart: the bytes a reader has yet  *)
(* to read are intact, a read returns no more of them than there were, and *)
(* the ring implements the log of LookAheadLog.                            *)
(***************************************************************************)
EXTENDS PalRingBuffer, TLAPS

(***************************************************************************)
(* The part of the type invariant the arithmetic needs.                    *)
(***************************************************************************)
Typed ==
  /\ bufferEnd \in Nat \ {0}
  /\ writeOffset \in 0..(bufferEnd - 1)
  /\ readers \subseteq Readers
  /\ unreadSize \in [Readers -> Nat]
  /\ readOffset \in [Readers -> Nat]
  /\ state \in [Readers -> {"ENABLED", "DISABLED"}]
  /\ asked \in [Readers -> Nat]
  /\ resetting \in {"no", "reset", "create"}
  /\ pending \subseteq readers

(***************************************************************************)
(* What makes OffsetsAgree inductive: the offset of every attached reader  *)
(* that is enabled or inside read() lies in the buffer, also of those a    *)
(* reset has yet to reach; one that is neither may have skipped past the   *)
(* end, and is placed anew before it reads; a detached                     *)
(* reader is idle; and while CreateBuffer() resets the ring no reader      *)
(* reads and the ones reached are at the start, so that the new size       *)
(* cannot leave an offset outside the buffer.                              *)
(***************************************************************************)
OffsetsInside ==
  \A r \in readers : /\ Enabled(r) \/ asked[r] # 0 => readOffset[r] < bufferEnd
                     /\ Enabled(r) => unreadSize[r] <= bufferEnd

DetachedIdle == \A r \in Readers \ readers : asked[r] = 0 /\ ~Enabled(r)

CreateQuiet ==
  resetting = "create" =>
    \A r \in readers : /\ asked[r] = 0
                       /\ r \notin pending => readOffset[r] = 0 /\ ~Enabled(r)

WalkOver == IF resetting = "no" THEN pending = {} ELSE writeOffset = 0

IInv == Typed /\ OffsetsInside /\ DetachedIdle /\ CreateQuiet /\ WalkOver /\ OffsetsAgree

USE SizesAssumption, BoundAssumption, ResetAssumption

(***************************************************************************)
(* The ring starts with its invariant.                                     *)
(***************************************************************************)
LEMMA InitInv == Init => IInv
<1> SUFFICES ASSUME Init PROVE IInv
  OBVIOUS
<1> QED
  BY DEF Init, IInv, Typed, OffsetsInside, DetachedIdle, CreateQuiet, WalkOver,
         OffsetsAgree, Enabled

(***************************************************************************)
(* getFreeSize() returns at most what any enabled reader leaves.           *)
(***************************************************************************)
LEMMA FreeSizeBound ==
  ASSUME Typed, OffsetsAgree, pending = {}, NEW free \in FreeSize
  PROVE  /\ free \in 0..bufferEnd
         /\ \A r \in readers : Enabled(r) => unreadSize[r] + free <= bufferEnd
<1>1. bufferEnd \in RoomLeft
  BY DEF RoomLeft
<1>2. \A r \in readers : Enabled(r) => unreadSize[r] <= bufferEnd /\ unreadSize[r] \in Nat
  BY DEF OffsetsAgree, Agree, Typed
<1>3. free \in 0..bufferEnd
  BY <1>1, <1>2 DEF RoomLeft, FreeSize, Typed
<1>4. \A r \in readers : Enabled(r) => free <= bufferEnd - unreadSize[r]
  BY DEF RoomLeft, FreeSize
<1> QED
  BY <1>2, <1>3, <1>4 DEF Typed

(***************************************************************************)
(* Each operation keeps the offsets of the readers in step.                *)
(***************************************************************************)
LEMMA WriteInv == ASSUME IInv, NEW w \in CallSizes, Write(w) PROVE IInv'
<1> USE DEF IInv
<1>0. resetting = "no" /\ pending = {}
  BY DEF Write, WalkOver
<1>1. PICK free \in FreeSize :
        /\ writeOffset' = Slot(writeOffset + Lesser(w, free))
        /\ unreadSize' = [r \in Readers |-> IF r \in readers
                                            THEN unreadSize[r] + Lesser(w, free)
                                            ELSE unreadSize[r]]
        /\ UNCHANGED <<bufferEnd, readers, readOffset, state, asked, walk, out>>
  BY DEF Write
<1> DEFINE n == Lesser(w, free)
<1>2. n \in 0..bufferEnd /\ \A r \in readers : Enabled(r) => unreadSize[r] + n <= bufferEnd
  BY <1>0, FreeSizeBound DEF Lesser, CallSizes, Typed
<1> HIDE DEF n
<1>3. Typed'
  BY <1>1, <1>2 DEF Typed, Slot, walk, n
<1>4. OffsetsAgree'
  BY <1>0, <1>1, <1>2 DEF OffsetsAgree, Agree, Enabled, Typed, Slot, walk, n
<1>5. OffsetsInside'
  BY <1>1, <1>2 DEF OffsetsInside, Enabled, Typed, n
<1> QED
  BY <1>0, <1>1, <1>3, <1>4, <1>5
  DEF DetachedIdle, CreateQuiet, WalkOver, Enabled, walk

(***************************************************************************)
(* A reader that passes the tests of read() is attached, and no            *)
(* CreateBuffer() runs.                                                    *)
(***************************************************************************)
LEMMA ReadTestsInv ==
  ASSUME IInv, NEW r \in Readers, NEW b \in CallSizes, ReadTests(r, b) PROVE IInv'
<1> USE DEF IInv, ReadTests, ring, reader, walk
<1>1. Typed'
  BY DEF Typed, CallSizes
<1>2. r \in readers
  BY DEF DetachedIdle
<1>3. resetting # "create"
  BY DEF Unhindered
<1> QED
  BY <1>1, <1>2, <1>3
  DEF Typed, OffsetsInside, DetachedIdle, CreateQuiet, WalkOver, OffsetsAgree, Agree, Enabled

(***************************************************************************)
(* The part of read() under the mutex leaves the reader between the start  *)
(* of the buffer and the write offset, wherever it started.                *)
(***************************************************************************)
LEMMA ReadOutcomeAgrees ==
  ASSUME Typed, NEW rd \in 0..(bufferEnd - 1), NEW b \in Nat \ {0}
  PROVE  LET o == ReadOutcome(rd, b)
         IN  /\ o.unread \in Nat
             /\ o.unread <= bufferEnd
             /\ o.offset \in 0..(bufferEnd - 1)
             /\ o.offset + o.unread \in {writeOffset, writeOffset + bufferEnd}
<1> USE DEF Typed, Lesser
<1>1. CASE writeOffset > rd
  BY <1>1 DEF ReadOutcome, Ahead
<1>2. CASE ~(writeOffset > rd) /\ b >= bufferEnd - rd
  BY <1>2 DEF ReadOutcome, Wrapped
<1>3. CASE ~(writeOffset > rd) /\ ~(b >= bufferEnd - rd)
  BY <1>3 DEF ReadOutcome, Unwrapped
<1> QED
  BY <1>1, <1>2, <1>3

(***************************************************************************)
(* read() keeps the invariant, with the offset and the count its branches  *)
(* compute.                                                                *)
(***************************************************************************)
LEMMA ReadCopiesInv == ASSUME IInv, NEW r \in Readers, ReadCopies(r) PROVE IInv'
<1> USE DEF IInv
<1> DEFINE o == ReadOutcome(readOffset[r], asked[r])
<1>1. /\ asked[r] # 0
      /\ readOffset' = [readOffset EXCEPT ![r] = o.offset]
      /\ unreadSize' = [unreadSize EXCEPT ![r] = o.unread]
      /\ asked' = [asked EXCEPT ![r] = 0]
      /\ UNCHANGED <<ring, readers, state, walk>>
  BY DEF ReadCopies
<1>2. r \in readers /\ resetting # "create"
  BY <1>1 DEF DetachedIdle, CreateQuiet
<1>3. /\ o.unread \in Nat
      /\ o.unread <= bufferEnd
      /\ o.offset \in 0..(bufferEnd - 1)
      /\ o.offset + o.unread \in {writeOffset, writeOffset + bufferEnd}
  <2>1. readOffset[r] \in 0..(bufferEnd - 1) /\ asked[r] \in Nat \ {0}
    BY <1>1, <1>2 DEF OffsetsInside, Typed
  <2> QED
    BY <2>1, ReadOutcomeAgrees
<1> HIDE DEF o
<1>4. Typed'
  BY <1>1, <1>3 DEF Typed, ring, walk
<1>5. OffsetsAgree' /\ OffsetsInside'
  BY <1>1, <1>2, <1>3 DEF OffsetsAgree, OffsetsInside, Agree, Enabled, Typed, ring, walk
<1> QED
  BY <1>1, <1>2, <1>4, <1>5 DEF DetachedIdle, CreateQuiet, WalkOver, Enabled, Typed, ring, walk

(***************************************************************************)
(* So does advanceReadOffset(), which computes them in its own way,        *)
(***************************************************************************)
LEMMA AdvanceInv ==
  ASSUME IInv, NEW r \in Readers, NEW a \in CallSizes, AdvanceReadOffset(r, a) PROVE IInv'
<1> USE DEF IInv, AdvanceReadOffset, ring, walk
<1>1. r \in readers /\ resetting # "create"
  BY DEF DetachedIdle, Unhindered
<1>2. a \in Nat /\ a <= unreadSize[r] /\ unreadSize[r] \in Nat /\ readOffset[r] \in Nat
  BY DEF CallSizes, Typed
<1>3. Typed'
  BY <1>1, <1>2 DEF Typed, Slot, OffsetsInside
<1>4. OffsetsInside'
  BY <1>1, <1>2 DEF OffsetsInside, Slot, Enabled, Typed
<1>5. OffsetsAgree'
  <2>1. CASE r \in pending
    BY <2>1, <1>1, <1>2 DEF OffsetsAgree, Agree, Enabled, Typed
  <2>2. CASE r \notin pending
    <3>1. Enabled(r) => Agree(r)
      BY <1>1, <2>2 DEF OffsetsAgree
    <3>2. Enabled(r) => Agree(r)'
      BY <1>1, <1>2, <3>1 DEF Agree, Slot, Typed
    <3> QED
      BY <1>1, <3>2 DEF OffsetsAgree, Agree, Enabled, Typed
  <2> QED
    BY <2>1, <2>2
<1> QED
  BY <1>1, <1>3, <1>4, <1>5 DEF DetachedIdle, CreateQuiet, WalkOver, Enabled, Typed

(***************************************************************************)
(* and updateState(), which computes the offset from the count;            *)
(***************************************************************************)
LEMMA EnableInv == ASSUME IInv, NEW r \in Readers, Enable(r) PROVE IInv'
<1> USE DEF IInv
<1> DEFINE u == Lesser(unreadSize[r], bufferEnd)
           place == IF u <= writeOffset THEN writeOffset - u ELSE writeOffset + bufferEnd - u
<1>1. /\ r \in readers
      /\ resetting # "create"
      /\ unreadSize' = [unreadSize EXCEPT ![r] = u]
      /\ readOffset' = [readOffset EXCEPT ![r] = place]
      /\ state' = [state EXCEPT ![r] = "ENABLED"]
      /\ UNCHANGED <<bufferEnd, writeOffset, readers, asked, resetting, pending>>
  BY DEF Enable, Unhindered, ring, walk
<1>2. /\ u \in 0..bufferEnd
      /\ place \in 0..(bufferEnd - 1)
      /\ place + u \in {writeOffset, writeOffset + bufferEnd}
  BY DEF Typed, Lesser
<1> HIDE DEF u, place
<1>3. Typed'
  BY <1>1, <1>2 DEF Typed
<1>4. OffsetsAgree' /\ OffsetsInside'
  BY <1>1, <1>2 DEF OffsetsAgree, OffsetsInside, Agree, Enabled, Typed
<1> QED
  BY <1>1, <1>3, <1>4 DEF DetachedIdle, CreateQuiet, WalkOver, Enabled, Typed

(***************************************************************************)
(* a reader that is disabled keeps both.                                   *)
(***************************************************************************)
LEMMA DisableInv == ASSUME IInv, NEW r \in Readers, Disable(r) PROVE IInv'
<1> USE DEF IInv, Disable, ring, walk
<1>1. Typed'
  BY DEF Typed
<1>2. OffsetsAgree' /\ OffsetsInside'
  BY DEF OffsetsAgree, OffsetsInside, Agree, Enabled, Typed
<1> QED
  BY <1>1, <1>2 DEF DetachedIdle, CreateQuiet, WalkOver, Enabled, Typed

(***************************************************************************)
(* A reader that is reset is disabled and at the start of the buffer: the  *)
(* owner's reset, the ring's and the attachment of a new reader.           *)
(***************************************************************************)
LEMMA ClearInv ==
  ASSUME IInv, NEW r \in Readers, ClearReader(r),
         UNCHANGED <<bufferEnd, writeOffset, asked, resetting>>,
         pending' \in {pending, pending \ {r}},
         readers' \in {readers, readers \cup {r}},
         resetting = "no" => pending' = {},
         readers' = readers \/ resetting = "no"
  PROVE  IInv'
<1> USE DEF IInv, ClearReader
<1>1. Typed'
  BY DEF Typed
<1>2. OffsetsAgree' /\ OffsetsInside'
  BY DEF OffsetsAgree, OffsetsInside, Agree, Enabled, Typed
<1>3. DetachedIdle' /\ CreateQuiet' /\ WalkOver'
  BY DEF DetachedIdle, CreateQuiet, WalkOver, Enabled, Typed
<1> QED
  BY <1>1, <1>2, <1>3

(***************************************************************************)
(* The start of a reset leaves every reader where it was until the walk    *)
(* reaches it.                                                             *)
(***************************************************************************)
LEMMA RingResetInv ==
  ASSUME IInv, NEW why \in {"reset", "create"}, RingReset(why) PROVE IInv'
<1> USE DEF IInv, RingReset, reader
<1>1. Typed'
  BY DEF Typed
<1>2. OffsetsAgree' /\ OffsetsInside' /\ DetachedIdle' /\ WalkOver'
  BY DEF OffsetsAgree, OffsetsInside, DetachedIdle, WalkOver, Enabled
<1>3. CreateQuiet'
  BY DEF CreateQuiet, Typed
<1> QED
  BY <1>1, <1>2, <1>3

(***************************************************************************)
(* A new size is taken only when every reader stands, disabled, at the     *)
(* start of the buffer.                                                    *)
(***************************************************************************)
LEMMA RingResetDoneInv ==
  ASSUME IInv, NEW size \in Sizes, RingResetDone(size) PROVE IInv'
<1> USE DEF IInv, RingResetDone, reader
<1>1. CASE resetting = "create" /\ size # bufferEnd
  <2>1. \A r \in readers : readOffset[r] = 0 /\ ~Enabled(r)
    BY <1>1 DEF CreateQuiet
  <2>2. writeOffset = 0
    BY <1>1 DEF WalkOver
  <2>3. Typed'
    BY <1>1, <2>2 DEF Typed
  <2> QED
    BY <1>1, <2>1, <2>2, <2>3
    DEF OffsetsAgree, OffsetsInside, DetachedIdle, CreateQuiet, WalkOver, Enabled, Typed
<1>2. CASE ~(resetting = "create" /\ size # bufferEnd)
  BY <1>2 DEF Typed, OffsetsAgree, Agree, OffsetsInside, DetachedIdle, CreateQuiet, WalkOver,
     Enabled
<1> QED
  BY <1>1, <1>2

(***************************************************************************)
(* Every step keeps the invariant.                                         *)
(***************************************************************************)
LEMMA NextInv == IInv /\ [Next]_vars => IInv'
<1> SUFFICES ASSUME IInv, [Next]_vars PROVE IInv'
  OBVIOUS
<1>1. ASSUME NEW w \in CallSizes, Write(w) PROVE IInv'
  BY <1>1, WriteInv
<1>2. ASSUME NEW why \in {"reset", "create"}, RingReset(why) PROVE IInv'
  BY <1>2, RingResetInv
<1>3. ASSUME NEW size \in Sizes, RingResetDone(size) PROVE IInv'
  BY <1>3, RingResetDoneInv
<1>4. ASSUME NEW r \in Readers, NEW b \in CallSizes, ReadTests(r, b) PROVE IInv'
  BY <1>4, ReadTestsInv
<1>5. ASSUME NEW r \in Readers, NEW a \in CallSizes, AdvanceReadOffset(r, a) PROVE IInv'
  BY <1>5, AdvanceInv
<1>6. ASSUME NEW r \in Readers, ReadCopies(r) PROVE IInv'
  BY <1>6, ReadCopiesInv
<1>7. ASSUME NEW r \in Readers, Enable(r) PROVE IInv'
  BY <1>7, EnableInv
<1>8. ASSUME NEW r \in Readers, Disable(r) PROVE IInv'
  BY <1>8, DisableInv
<1>9. ASSUME NEW r \in Readers, ReaderReset(r) PROVE IInv'
  BY <1>9, ClearInv DEF ReaderReset, ring, walk, IInv, WalkOver
<1>10. ASSUME NEW r \in Readers, RingResetReader(r) PROVE IInv'
  BY <1>10, ClearInv DEF RingResetReader, ring, IInv, WalkOver
<1>11. ASSUME NEW r \in Readers, NewReader(r) PROVE IInv'
  BY <1>11, ClearInv DEF NewReader, ring, walk, IInv, WalkOver
<1>12. ASSUME NEW r \in Readers, RemoveReader(r) PROVE IInv'
  <2> USE <1>12 DEF RemoveReader, ring, reader, walk, IInv
  <2>1. pending = {}
    BY DEF WalkOver
  <2> QED
    BY <2>1 DEF Typed, OffsetsAgree, Agree, OffsetsInside, DetachedIdle, CreateQuiet,
                WalkOver, Enabled
<1>13. CASE UNCHANGED vars
  BY <1>13 DEF vars, ring, reader, walk, IInv, Typed, OffsetsAgree, Agree, OffsetsInside,
               DetachedIdle, CreateQuiet, WalkOver, Enabled
<1> QED
  BY <1>1, <1>2, <1>3, <1>4, <1>5, <1>6, <1>7, <1>8, <1>9, <1>10, <1>11, <1>12, <1>13
  DEF Next

(***************************************************************************)
(* The inductive invariant holds in every reachable state, whether or not  *)
(* a reset may overlap a read.                                             *)
(***************************************************************************)
THEOREM Invariant == Spec => []IInv
<1> QED
  BY InitInv, NextInv, PTL DEF Spec

(***************************************************************************)
(* The unread count and the read offset of every enabled reader agree with *)
(* the write offset, for every number of readers, every sequence of        *)
(* resizes and resets, and also when a reset overlaps a read: write(),     *)
(* read(), advanceReadOffset() and updateState() each keep it by           *)
(* arithmetic of their own.                                                *)
(***************************************************************************)
THEOREM ReadersAgree == Spec => []OffsetsAgree
<1>1. IInv => OffsetsAgree
  BY DEF IInv
<1> QED
  BY <1>1, Invariant, PTL

(***************************************************************************)
(* The memory keeps the size of the buffer and holds stamps.               *)
(***************************************************************************)
Stamped == cell \in [0..(bufferEnd - 1) -> Nat] /\ written \in Nat

(***************************************************************************)
(* No operation stores outside the memory, and a resize replaces all of    *)
(* it.                                                                     *)
(***************************************************************************)
LEMMA StampedNext == ASSUME IInv, Stamped, [Next]_vars PROVE Stamped'
<1>0. Typed
  BY DEF IInv
<1>1. ASSUME NEW w \in CallSizes, Write(w) PROVE Stamped'
  <2>1. PICK free \in FreeSize :
          LET n == Lesser(w, free) IN
          /\ cell' = [i \in DOMAIN cell |->
                        IF \E j \in 1..n : i = Slot(writeOffset + j - 1)
                        THEN written + (CHOOSE j \in 1..n : i = Slot(writeOffset + j - 1))
                        ELSE cell[i]]
          /\ written' = written + n
          /\ UNCHANGED bufferEnd
    BY <1>1 DEF Write
  <2> DEFINE n == Lesser(w, free)
             At(i, j) == i = Slot(writeOffset + j - 1)
             stamp(i) == IF \E j \in 1..n : At(i, j) THEN written + (CHOOSE j \in 1..n : At(i, j))
                                                     ELSE cell[i]
  <2>2. n \in Nat
    BY <1>0, <1>1, <2>1, FreeSizeBound DEF Lesser, CallSizes, Typed, IInv, WalkOver, Write
  <2>3. /\ cell' = [i \in 0..(bufferEnd - 1) |-> stamp(i)]
        /\ written' = written + n /\ bufferEnd' = bufferEnd
    BY <2>1 DEF Stamped
  <2> HIDE DEF n, At
  <2>4. ASSUME NEW i \in 0..(bufferEnd - 1) PROVE stamp(i) \in Nat
    <3>1. CASE \E j \in 1..n : At(i, j)
      <4>1. (CHOOSE j \in 1..n : At(i, j)) \in 1..n
        BY <3>1
      <4> QED
        BY <2>2, <3>1, <4>1 DEF Stamped
    <3>2. CASE ~\E j \in 1..n : At(i, j)
      BY <3>2 DEF Stamped
    <3> QED
      BY <3>1, <3>2
  <2> HIDE DEF stamp
  <2> QED
    BY <2>2, <2>3, <2>4 DEF Stamped
<1>2. ASSUME NEW size \in Sizes, RingResetDone(size) PROVE Stamped'
  BY <1>2, SizesAssumption DEF RingResetDone, Stamped, Garbage
<1>3. ASSUME UNCHANGED <<bufferEnd, cell, written>> PROVE Stamped'
  BY <1>3 DEF Stamped
<1> QED
  BY <1>1, <1>2, <1>3 DEF Next, RingReset, ReadTests, AdvanceReadOffset, ReadCopies, Enable,
     Disable, ReaderReset, RingResetReader, NewReader, RemoveReader, ring, vars

(***************************************************************************)
(* The shape of the state: offsets inside the buffer, counts not negative. *)
(***************************************************************************)
THEOREM TypeCorrect == Spec => []TypeOK
<1>1. Init => Stamped
  BY DEF Init, Stamped, Garbage
<1>2. IInv /\ Stamped /\ [Next]_vars => Stamped'
  BY StampedNext
<1>3. IInv /\ Stamped => TypeOK
  BY DEF IInv, Typed, Stamped, TypeOK
<1> QED
  BY <1>1, <1>2, <1>3, Invariant, PTL DEF Spec

------------------------------------------------------------------------------
(***************************************************************************)
(* What follows holds while no reset of the ring overlaps a reader inside  *)
(* read().  A reader past the tests of read() is then still attached,      *)
(* enabled and has bytes to read; a reset leaves the readers it has        *)
(* reached with nothing to read; and the bytes written last are where the  *)
(* producer put them, counted back from its offset, as many as an attached *)
(* reader, enabled or not, has unread and the ring can hold.               *)
(***************************************************************************)
ReaderInside ==
  \A r \in Readers : asked[r] # 0 =>
    r \in readers /\ Enabled(r) /\ unreadSize[r] # 0 /\ resetting = "no"

ResetIsClean == resetting # "no" => \A r \in readers \ pending : unreadSize[r] = 0

Back(i) == IF i <= writeOffset THEN writeOffset - i ELSE writeOffset + bufferEnd - i

RecentIntact ==
  \A r \in readers \ pending :
    \A i \in 1..Lesser(unreadSize[r], bufferEnd) : cell[Back(i)] = written - i + 1

ApartInv == IInv /\ Stamped /\ ReaderInside /\ ResetIsClean /\ RecentIntact

(* Counted back from the producer, a reader's bytes are its unread ones.   *)
LEMMA IntactIs == ASSUME ApartInv PROVE UnreadIntact
<1> SUFFICES ASSUME NEW r \in readers, Enabled(r), r \notin pending, NEW i \in 1..unreadSize[r]
             PROVE  cell[Slot(readOffset[r] + i - 1)] = written - unreadSize[r] + i
  BY DEF UnreadIntact
<1>1. /\ bufferEnd \in Nat \ {0} /\ writeOffset \in 0..(bufferEnd - 1) /\ written \in Nat
      /\ unreadSize[r] \in Nat /\ readOffset[r] \in Nat /\ Agree(r)
  BY DEF ApartInv, IInv, Typed, Stamped, OffsetsAgree
<1> DEFINE k == unreadSize[r] - i + 1
<1>2. k \in 1..Lesser(unreadSize[r], bufferEnd)
  BY <1>1 DEF Lesser, Agree
<1>3. Slot(readOffset[r] + i - 1) = Back(k)
  BY <1>1 DEF Slot, Back, Agree
<1>4. cell[Back(k)] = written - k + 1
  BY <1>2 DEF ApartInv, RecentIntact
<1> QED
  BY <1>1, <1>3, <1>4

(***************************************************************************)
(* What read() takes under the mutex is what it was asked for or what is   *)
(* unread, whichever is less, in each of its branches.                     *)
(***************************************************************************)
LEMMA ReadOutcomeTakes ==
  ASSUME Typed, NEW r \in Readers, Agree(r), unreadSize[r] # 0, NEW b \in Nat \ {0}
  PROVE  LET o == ReadOutcome(readOffset[r], b)
         IN  /\ o.size \in 1..unreadSize[r]
             /\ o.unread = unreadSize[r] - o.size
<1>1. /\ bufferEnd \in Nat \ {0} /\ writeOffset \in 0..(bufferEnd - 1)
      /\ unreadSize[r] \in Nat \ {0} /\ readOffset[r] \in 0..(bufferEnd - 1)
      /\ unreadSize[r] <= bufferEnd
      /\ readOffset[r] + unreadSize[r] \in {writeOffset, writeOffset + bufferEnd}
  BY DEF Typed, Agree
<1>2. CASE writeOffset > readOffset[r]
  BY <1>1, <1>2 DEF ReadOutcome, Ahead, Lesser
<1>3. CASE ~(writeOffset > readOffset[r]) /\ b >= bufferEnd - readOffset[r]
  BY <1>1, <1>3 DEF ReadOutcome, Wrapped, Lesser
<1>4. CASE ~(writeOffset > readOffset[r]) /\ ~(b >= bufferEnd - readOffset[r])
  BY <1>1, <1>4 DEF ReadOutcome, Unwrapped
<1> QED
  BY <1>2, <1>3, <1>4

(* A reader that copies finds the bytes it was promised, in order.         *)
LEMMA ReadHandsOut ==
  ASSUME ~ConcurrentReset, ApartInv, NEW r \in Readers, ReadCopies(r)
  PROVE  \E n \in 1..unreadSize[r] :
           /\ r \in readers /\ Enabled(r) /\ r \notin pending
           /\ unreadSize' = [unreadSize EXCEPT ![r] = @ - n]
           /\ out' = [out EXCEPT ![r] = [j \in 1..n |-> written - unreadSize[r] + j]]
<1> DEFINE o == ReadOutcome(readOffset[r], asked[r])
<1>1. /\ asked[r] # 0 /\ r \in readers /\ Enabled(r) /\ unreadSize[r] # 0 /\ resetting = "no"
      /\ pending = {}
  BY DEF ApartInv, IInv, ReaderInside, WalkOver, ReadCopies
<1>2. Agree(r) /\ Typed /\ asked[r] \in Nat \ {0}
  BY <1>1 DEF ApartInv, IInv, OffsetsAgree, Typed
<1>3. o.size \in 1..unreadSize[r] /\ o.unread = unreadSize[r] - o.size
  BY <1>1, <1>2, ReadOutcomeTakes
<1>4. /\ out' = [out EXCEPT ![r] = [j \in 1..o.size |-> cell[Slot(readOffset[r] + j - 1)]]]
      /\ unreadSize' = [unreadSize EXCEPT ![r] = o.unread]
  BY DEF ReadCopies
<1> HIDE DEF o
<1>5. \A j \in 1..o.size : cell[Slot(readOffset[r] + j - 1)] = written - unreadSize[r] + j
  <2>1. unreadSize[r] \in Nat
    BY <1>2 DEF Typed
  <2>2. \A j \in 1..o.size : j \in 1..unreadSize[r]
    BY <1>3, <2>1
  <2> QED
    BY <1>1, <2>2, IntactIs DEF UnreadIntact
<1>6. [j \in 1..o.size |-> cell[Slot(readOffset[r] + j - 1)]]
        = [j \in 1..o.size |-> written - unreadSize[r] + j]
  BY <1>5
<1> QED
  BY <1>1, <1>3, <1>4, <1>6

(***************************************************************************)
(* A write stamps the slots in front of the producer's offset, and only    *)
(* those: the bytes counted back from the new offset are the new ones,     *)
(* then the old ones.                                                      *)
(***************************************************************************)
LEMMA WriteStamps ==
  ASSUME Typed, Stamped, NEW n \in 0..bufferEnd,
         cell' = [i \in DOMAIN cell |->
                    IF \E j \in 1..n : i = Slot(writeOffset + j - 1)
                    THEN written + (CHOOSE j \in 1..n : i = Slot(writeOffset + j - 1))
                    ELSE cell[i]],
         writeOffset' = Slot(writeOffset + n), bufferEnd' = bufferEnd,
         NEW k \in 1..bufferEnd
  PROVE  /\ k <= n => cell'[Back(k)'] = written + n - k + 1
         /\ k > n => cell'[Back(k)'] = cell[Back(k - n)]
<1> DEFINE At(i, j) == i = Slot(writeOffset + j - 1)
           b == IF k <= Slot(writeOffset + n) THEN Slot(writeOffset + n) - k
                                              ELSE Slot(writeOffset + n) + bufferEnd - k
<1>0. /\ bufferEnd \in Nat \ {0} /\ writeOffset \in 0..(bufferEnd - 1)
      /\ k \in Nat /\ n \in Nat
  BY DEF Typed
<1>1. Back(k)' = b
  BY DEF Back
<1>2. b \in 0..(bufferEnd - 1)
  BY <1>0 DEF Slot
<1>3. cell'[b] = IF \E j \in 1..n : At(b, j) THEN written + (CHOOSE j \in 1..n : At(b, j))
                                             ELSE cell[b]
  BY <1>2 DEF Stamped
<1>4. ASSUME k <= n PROVE cell'[b] = written + n - k + 1
  <2>1. n - k + 1 \in 1..n /\ At(b, n - k + 1)
    BY <1>0, <1>4 DEF Slot
  <2>2. \A j \in 1..n : At(b, j) => j = n - k + 1
    BY <1>0, <1>4 DEF Slot
  <2> HIDE DEF At, b
  <2>3. (CHOOSE j \in 1..n : At(b, j)) = n - k + 1
    BY <2>1, <2>2
  <2>4. cell'[b] = written + (CHOOSE j \in 1..n : At(b, j))
    BY <1>3, <2>1
  <2>5. cell'[b] = written + (n - k + 1)
    BY <2>3, <2>4
  <2> QED
    BY <1>0, <2>5 DEF Stamped
<1>5. ASSUME k > n PROVE cell'[b] = cell[Back(k - n)]
  <2>1. b = Back(k - n)
    BY <1>0, <1>5 DEF Slot, Back
  <2>2. \A j \in 1..n : ~At(b, j)
    BY <1>0, <1>5 DEF Slot
  <2> HIDE DEF At, b
  <2> QED
    BY <1>3, <2>1, <2>2
<1> QED
  BY <1>1, <1>4, <1>5

(***************************************************************************)
(* Every step keeps the bytes written last where the producer put them, as *)
(* long as a reset finds no reader inside read().                          *)
(***************************************************************************)
LEMMA ApartNext == ASSUME ~ConcurrentReset, ApartInv, [Next]_vars PROVE ApartInv'
<1>0. Typed /\ OffsetsAgree /\ WalkOver /\ CreateQuiet /\ DetachedIdle /\ Stamped
  BY DEF ApartInv, IInv
<1>n. IInv' /\ Stamped'
  BY NextInv, StampedNext DEF ApartInv
<1> SUFFICES ReaderInside' /\ ResetIsClean' /\ RecentIntact'
  BY <1>n DEF ApartInv
<1>1. ASSUME NEW w \in CallSizes, Write(w)
      PROVE  ReaderInside' /\ ResetIsClean' /\ RecentIntact'
  <2>1. PICK free \in FreeSize :
          LET n == Lesser(w, free) IN
          /\ resetting = "no"
          /\ cell' = [i \in DOMAIN cell |->
                        IF \E j \in 1..n : i = Slot(writeOffset + j - 1)
                        THEN written + (CHOOSE j \in 1..n : i = Slot(writeOffset + j - 1))
                        ELSE cell[i]]
          /\ writeOffset' = Slot(writeOffset + n)
          /\ written' = written + n
          /\ unreadSize' = [r \in Readers |-> IF r \in readers THEN unreadSize[r] + n
                                                               ELSE unreadSize[r]]
          /\ UNCHANGED <<bufferEnd, readers, readOffset, state, asked, walk, out>>
    BY <1>1 DEF Write
  <2> DEFINE n == Lesser(w, free)
  <2>2. pending = {} /\ n \in 0..bufferEnd
    BY <1>0, <2>1, FreeSizeBound DEF Lesser, CallSizes, Typed, WalkOver
  <2>3. \A k \in 1..bufferEnd : /\ k <= n => cell'[Back(k)'] = written + n - k + 1
                                /\ k > n => cell'[Back(k)'] = cell[Back(k - n)]
    BY <1>0, <2>1, <2>2, WriteStamps
  <2>4. /\ resetting = "no" /\ written' = written + n
        /\ unreadSize' = [r \in Readers |-> IF r \in readers THEN unreadSize[r] + n
                                                             ELSE unreadSize[r]]
        /\ UNCHANGED <<bufferEnd, readers, state, asked, resetting, pending>>
    BY <2>1 DEF walk
  <2> HIDE DEF n
  <2>5. ReaderInside' /\ ResetIsClean'
    BY <1>0, <2>2, <2>4 DEF ApartInv, ReaderInside, ResetIsClean, Enabled, Typed
  <2>6. ASSUME NEW r \in readers' \ pending', NEW k \in 1..Lesser(unreadSize'[r], bufferEnd')
        PROVE  cell'[Back(k)'] = written' - k + 1
    <3>1. /\ unreadSize'[r] = unreadSize[r] + n /\ unreadSize[r] \in Nat
          /\ bufferEnd \in Nat /\ n \in Nat /\ written \in Nat /\ written' = written + n
          /\ k \in 1..bufferEnd /\ k <= unreadSize[r] + n /\ r \in readers \ pending
      BY <1>0, <2>2, <2>4, <2>6 DEF Typed, Stamped, Lesser
    <3>2. CASE k <= n
      BY <2>3, <3>1, <3>2
    <3>3. CASE k > n
      <4>1. k - n \in 1..Lesser(unreadSize[r], bufferEnd)
        BY <3>1, <3>3 DEF Lesser
      <4>2. cell[Back(k - n)] = written - (k - n) + 1
        BY <3>1, <4>1 DEF ApartInv, RecentIntact
      <4> QED
        BY <2>3, <3>1, <3>3, <4>2
    <3> QED
      BY <3>1, <3>2, <3>3
  <2>7. RecentIntact'
    BY <2>6 DEF RecentIntact
  <2> QED
    BY <2>5, <2>7
<1>2. ASSUME NEW why \in {"reset", "create"}, RingReset(why)
      PROVE  ReaderInside' /\ ResetIsClean' /\ RecentIntact'
  BY <1>2 DEF RingReset, ReaderInside, ResetIsClean, RecentIntact, reader
<1>3. ASSUME NEW size \in Sizes, RingResetDone(size)
      PROVE  ReaderInside' /\ ResetIsClean' /\ RecentIntact'
  <2>1. /\ resetting # "no" /\ pending = {} /\ \A r \in readers : unreadSize[r] = 0
        /\ UNCHANGED <<readers, reader, asked, pending>> /\ bufferEnd' \in Nat /\ resetting' = "no"
    BY <1>0, <1>3, SizesAssumption DEF RingResetDone, ApartInv, ResetIsClean, Typed
  <2>2. ReaderInside' /\ ResetIsClean'
    BY <2>1 DEF ApartInv, ReaderInside, ResetIsClean, reader, Enabled
  <2>3. \A r \in readers : 1..Lesser(unreadSize'[r], bufferEnd') = {}
    BY <2>1 DEF reader, Lesser
  <2> QED
    BY <2>1, <2>2, <2>3 DEF RecentIntact
<1>4. ASSUME NEW r \in Readers, NEW u \in Nat, u <= unreadSize[r] \/ u = 0,
             unreadSize' = [unreadSize EXCEPT ![r] = u],
             asked' \in {asked, [asked EXCEPT ![r] = 0]},
             asked'[r] # 0 => r \in readers /\ Enabled(r)' /\ u # 0 /\ resetting = "no",
             \A q \in Readers \ {r} : state'[q] = state[q],
             UNCHANGED <<ring, resetting>>,
             readers' \in {readers, readers \cup {r}}, r \in readers \/ u = 0,
             pending' \in {pending, pending \ {r}},
             pending' = pending \/ u = 0,
             readers' = readers \/ resetting = "no"
      PROVE  ReaderInside' /\ ResetIsClean' /\ RecentIntact'
  <2>1. \A q \in Readers : unreadSize'[q] = IF q = r THEN u ELSE unreadSize[q]
    BY <1>0, <1>4 DEF Typed
  <2>2. ReaderInside'
    BY <1>0, <1>4, <2>1 DEF ApartInv, ReaderInside, Enabled, Typed
  <2>3. ResetIsClean'
    BY <1>0, <1>4, <2>1 DEF ApartInv, ResetIsClean, Typed
  <2>4. ASSUME NEW q \in readers' \ pending', NEW k \in 1..Lesser(unreadSize'[q], bufferEnd')
        PROVE  cell'[Back(k)'] = written' - k + 1
    <3>1. /\ bufferEnd' = bufferEnd /\ cell' = cell /\ written' = written
          /\ writeOffset' = writeOffset /\ Back(k)' = Back(k)
          /\ bufferEnd \in Nat
      BY <1>0, <1>4 DEF ring, Back, Typed
    <3>2. k \in Nat \ {0} /\ k <= unreadSize'[q] /\ k <= bufferEnd
      BY <1>0, <1>4, <2>1, <2>4, <3>1 DEF Lesser, Typed
    <3>3. q \in readers \ pending /\ unreadSize'[q] <= unreadSize[q] /\ unreadSize[q] \in Nat
          /\ unreadSize'[q] \in Nat
      BY <1>0, <1>4, <2>1, <3>2 DEF Typed
    <3>4. k \in 1..Lesser(unreadSize[q], bufferEnd)
      BY <3>1, <3>2, <3>3 DEF Lesser
    <3> QED
      BY <3>1, <3>3, <3>4 DEF ApartInv, RecentIntact
  <2> QED
    BY <2>2, <2>3, <2>4 DEF RecentIntact
<1>5. ASSUME NEW r \in Readers, NEW b \in CallSizes, ReadTests(r, b)
      PROVE  ReaderInside' /\ ResetIsClean' /\ RecentIntact'
  <2>1. r \in readers /\ Enabled(r) /\ unreadSize[r] # 0 /\ resetting = "no"
    BY <1>0, <1>5 DEF ReadTests, DetachedIdle, Unhindered
  <2> QED
    BY <1>0, <1>5, <2>1 DEF ReadTests, ApartInv, ReaderInside, ResetIsClean, RecentIntact, Back,
       Enabled, ring, reader, walk, Typed
<1>6. ASSUME NEW r \in Readers, ReadCopies(r)
      PROVE  ReaderInside' /\ ResetIsClean' /\ RecentIntact'
  <2> PICK n \in 1..unreadSize[r] : /\ r \in readers
                                    /\ unreadSize' = [unreadSize EXCEPT ![r] = @ - n]
    BY <1>6, ReadHandsOut
  <2>1. unreadSize[r] - n \in Nat /\ unreadSize[r] - n <= unreadSize[r]
    BY <1>0 DEF Typed
  <2>2. /\ asked' = [asked EXCEPT ![r] = 0] /\ asked'[r] = 0
        /\ UNCHANGED <<ring, readers, state, resetting, pending>>
    BY <1>0, <1>6 DEF ReadCopies, walk, Typed
  <2> QED
    BY <1>4, <2>1, <2>2
<1>7. ASSUME NEW r \in Readers, NEW a \in CallSizes, AdvanceReadOffset(r, a)
      PROVE  ReaderInside' /\ ResetIsClean' /\ RecentIntact'
  <2>1. /\ r \in readers /\ asked[r] = 0 /\ asked' = asked
        /\ unreadSize' = [unreadSize EXCEPT ![r] = unreadSize[r] - a]
        /\ unreadSize[r] - a \in Nat /\ unreadSize[r] - a <= unreadSize[r]
        /\ UNCHANGED <<ring, readers, state, resetting, pending>>
    BY <1>0, <1>7 DEF AdvanceReadOffset, DetachedIdle, walk, Typed, CallSizes
  <2> QED
    BY <1>4, <2>1
<1>8. ASSUME NEW r \in Readers, Enable(r)
      PROVE  ReaderInside' /\ ResetIsClean' /\ RecentIntact'
  <2> DEFINE u == Lesser(unreadSize[r], bufferEnd)
  <2>1. /\ r \in readers /\ ~Enabled(r) /\ u \in Nat /\ u <= unreadSize[r]
        /\ unreadSize' = [unreadSize EXCEPT ![r] = u]
        /\ asked' = asked /\ state' = [state EXCEPT ![r] = "ENABLED"]
        /\ UNCHANGED <<ring, readers, resetting, pending>>
    BY <1>0, <1>8 DEF Enable, walk, Typed, Lesser
  <2>2. asked[r] = 0 /\ \A q \in Readers \ {r} : state'[q] = state[q]
    BY <1>0, <2>1 DEF ApartInv, ReaderInside, Typed
  <2> HIDE DEF u
  <2> QED
    BY <1>4, <2>1, <2>2
<1>9. ASSUME NEW r \in Readers, Disable(r)
      PROVE  ReaderInside' /\ ResetIsClean' /\ RecentIntact'
  BY <1>0, <1>9 DEF Disable, ApartInv, ReaderInside, ResetIsClean, RecentIntact, Back, Enabled,
     ring, walk, Typed
<1>10. ASSUME NEW r \in Readers, ClearReader(r), asked[r] = 0, asked' = asked,
              UNCHANGED <<ring, resetting>>,
              readers' \in {readers, readers \cup {r}}, pending' \in {pending, pending \ {r}},
              readers' = readers \/ resetting = "no"
       PROVE  ReaderInside' /\ ResetIsClean' /\ RecentIntact'
  <2>1. /\ unreadSize' = [unreadSize EXCEPT ![r] = 0] /\ 0 \in Nat
        /\ \A q \in Readers \ {r} : state'[q] = state[q]
    BY <1>0, <1>10 DEF ClearReader, Typed
  <2> QED
    BY <1>4, <1>10, <2>1
<1>11. ASSUME NEW r \in Readers, ReaderReset(r) \/ RingResetReader(r) \/ NewReader(r)
       PROVE  ReaderInside' /\ ResetIsClean' /\ RecentIntact'
  <2>1. RingResetReader(r) => asked[r] = 0
    BY <1>0 DEF RingResetReader, ApartInv, ReaderInside, WalkOver
  <2> QED
    BY <1>10, <1>11, <2>1 DEF ReaderReset, RingResetReader, NewReader, walk
<1>12. ASSUME NEW r \in Readers, RemoveReader(r)
       PROVE  ReaderInside' /\ ResetIsClean' /\ RecentIntact'
  BY <1>0, <1>12 DEF RemoveReader, ApartInv, ReaderInside, ResetIsClean, RecentIntact, Back,
     Enabled, ring, reader, walk
<1>13. CASE UNCHANGED vars
  BY <1>13 DEF vars, ApartInv, ReaderInside, ResetIsClean, RecentIntact, Back, Enabled,
     ring, reader, walk
<1> QED
  BY <1>1, <1>2, <1>3, <1>5, <1>6, <1>7, <1>8, <1>9, <1>11, <1>12, <1>13 DEF Next

(***************************************************************************)
(* An empty ring has nothing to keep.                                      *)
(***************************************************************************)
LEMMA ApartInit == ASSUME Init PROVE ApartInv
<1>1. IInv /\ Stamped
  BY InitInv DEF Init, Stamped, Garbage
<1>2. ReaderInside /\ ResetIsClean /\ RecentIntact
  BY DEF Init, ReaderInside, ResetIsClean, RecentIntact
<1> QED
  BY <1>1, <1>2 DEF ApartInv

(* The inductive invariant of the ring while resets and reads stay apart.  *)
THEOREM ApartInvariant == ASSUME ~ConcurrentReset PROVE Spec => []ApartInv
<1>1. Init => ApartInv
  BY ApartInit
<1>2. ApartInv /\ [Next]_vars => ApartInv'
  BY ApartNext
<1> QED
  BY <1>1, <1>2, PTL DEF Spec

(***************************************************************************)
(* The producer never overwrites a byte an enabled reader has yet to read, *)
(* and the reader finds those bytes in the order they were written.  The   *)
(* hypothesis is needed: the run RingBufferReset shows what a reset that   *)
(* overlaps a read does to the reader.                                     *)
(***************************************************************************)
THEOREM UnreadStaysIntact == ASSUME ~ConcurrentReset PROVE Spec => []UnreadIntact
<1>1. ApartInv => UnreadIntact
  BY IntactIs
<1> QED
  BY <1>1, ApartInvariant, PTL

(***************************************************************************)
(* read() returns no more than was unread when it took the ring's mutex.   *)
(***************************************************************************)
THEOREM ReadsOnlyUnread == ASSUME ~ConcurrentReset PROVE Spec => NoReadBeyondUnread
<1> DEFINE Shaped == out = [r \in Readers |-> out[r]]
<1>1. Init => Shaped
  BY DEF Init
<1>2. Shaped /\ [Next]_vars => Shaped'
  BY DEF Next, Write, RingReset, RingResetDone, ReadTests, AdvanceReadOffset, ReadCopies,
     Enable, Disable, ReaderReset, RingResetReader, NewReader, RemoveReader, vars
<1>3. ApartInv /\ Shaped /\ [Next]_vars
      => [\A r \in Readers : asked[r] # 0 /\ asked'[r] = 0 => Len(out'[r]) <= unreadSize[r]]_vars
  <2> SUFFICES ASSUME ApartInv, Shaped, [Next]_vars,
                      NEW r \in Readers, asked[r] # 0, asked'[r] = 0
               PROVE  Len(out'[r]) <= unreadSize[r]
    OBVIOUS
  <2>0. Typed /\ r \in readers
    BY DEF ApartInv, IInv, ReaderInside
  <2>1. ReadCopies(r)
    BY <2>0 DEF Next, Write, RingReset, RingResetDone, ReadTests, AdvanceReadOffset, ReadCopies,
       Enable, Disable, ReaderReset, RingResetReader, NewReader, RemoveReader, vars, Typed,
       CallSizes
  <2>2. PICK n \in 1..unreadSize[r] :
          out' = [out EXCEPT ![r] = [j \in 1..n |-> written - unreadSize[r] + j]]
    BY <2>1, ReadHandsOut
  <2>3. n \in Nat /\ n <= unreadSize[r]
    BY <2>0 DEF Typed
  <2>4. out'[r] = [j \in 1..n |-> written - unreadSize[r] + j]
    BY <2>2
  <2> QED
    BY <2>3, <2>4
<1> HIDE DEF Shaped
<1> QED
  BY <1>1, <1>2, <1>3, ApartInvariant, PTL DEF Spec, NoReadBeyondUnread

------------------------------------------------------------------------------
(***************************************************************************)
(* The ring implements the log.  Where a reader stands in the log is given *)
(* by its unread count alone.                                              *)
(***************************************************************************)
LEMMA PlaceAfter ==
  ASSUME Typed, Stamped, Stamped', NEW r \in Readers, NEW u \in Nat,
         unreadSize' = [unreadSize EXCEPT ![r] = u], written' = written,
         readers' \in {readers, readers \cup {r}}, r \in readers'
  PROVE  /\ Place' = [Place EXCEPT ![r] = written - u]
         /\ r \in readers => Place[r] = written - unreadSize[r]
  BY DEF Place, Typed, Stamped

(***************************************************************************)
(* A write appends to the log what every enabled reader leaves room for.   *)
(***************************************************************************)
LEMMA WriteAppends ==
  ASSUME ApartInv, NEW w \in CallSizes, Write(w) PROVE Log!Append
<1>0. Typed /\ Stamped /\ OffsetsAgree /\ pending = {}
  BY DEF ApartInv, IInv, WalkOver, Write
<1>1. PICK free \in FreeSize :
        LET n == Lesser(w, free) IN
        /\ written' = written + n
        /\ unreadSize' = [r \in Readers |-> IF r \in readers THEN unreadSize[r] + n
                                                             ELSE unreadSize[r]]
        /\ UNCHANGED <<bufferEnd, readers, state, out>>
  BY DEF Write
<1> DEFINE n == Lesser(w, free)
<1>2. n \in 0..bufferEnd /\ \A r \in readers : Enabled(r) => unreadSize[r] + n <= bufferEnd
  BY <1>0, FreeSizeBound DEF Lesser, CallSizes, Typed
<1>3. /\ written' = written + n
      /\ unreadSize' = [r \in Readers |-> IF r \in readers THEN unreadSize[r] + n
                                                           ELSE unreadSize[r]]
      /\ UNCHANGED <<bufferEnd, readers, state, out>>
  BY <1>1
<1> HIDE DEF n
<1>4. n \in Log!Room
  <2>1. ASSUME NEW r \in Holding PROVE written + n - Place[r] <= bufferEnd
    <3>1. r \in readers /\ r \in Readers /\ Enabled(r)
      BY <1>0, <2>1 DEF Holding, Typed
    <3>2. Place[r] = written - unreadSize[r] /\ written \in Nat /\ unreadSize[r] \in Nat
      BY <1>0, <3>1 DEF Place, Typed, Stamped
    <3> QED
      BY <1>2, <3>1, <3>2
  <2> QED
    BY <1>2, <2>1 DEF Log!Room
<1>5. Place' = Place /\ Holding' = Holding
  BY <1>0, <1>2, <1>3 DEF Place, Holding, Enabled, Typed, Stamped
<1> QED
  BY <1>3, <1>4, <1>5 DEF Log!Append

(***************************************************************************)
(* A read hands out the log from the reader's place on.                    *)
(***************************************************************************)
LEMMA ReadRefines ==
  ASSUME ~ConcurrentReset, ApartInv, Stamped', NEW r \in Readers, ReadCopies(r)
  PROVE  Log!Read(r)
<1>0. Typed /\ Stamped
  BY DEF ApartInv, IInv
<1>1. PICK n \in 1..unreadSize[r] :
        /\ r \in readers /\ Enabled(r)
        /\ unreadSize' = [unreadSize EXCEPT ![r] = @ - n]
        /\ out' = [out EXCEPT ![r] = [j \in 1..n |-> written - unreadSize[r] + j]]
  BY ReadHandsOut
<1>2. UNCHANGED <<bufferEnd, readers, state, written>>
  BY DEF ReadCopies, ring
<1>3. unreadSize[r] \in Nat /\ unreadSize[r] - n \in Nat /\ written \in Nat
  BY <1>0 DEF Typed, Stamped
<1>4. /\ Place' = [Place EXCEPT ![r] = written - (unreadSize[r] - n)]
      /\ Place[r] = written - unreadSize[r]
  BY <1>0, <1>1, <1>2, <1>3, PlaceAfter
<1>5. written - (unreadSize[r] - n) = Place[r] + n /\ n \in 1..(written - Place[r])
  BY <1>3, <1>4
<1>6. r \in Holding /\ Holding' = Holding
  BY <1>1, <1>2 DEF Holding, Enabled
<1> QED
  BY <1>1, <1>2, <1>4, <1>5, <1>6 DEF Log!Read

(***************************************************************************)
(* advanceReadOffset() skips that much of the log.                         *)
(***************************************************************************)
LEMMA AdvanceRefines ==
  ASSUME ApartInv, Stamped', NEW r \in Readers, NEW a \in CallSizes, AdvanceReadOffset(r, a)
  PROVE  Log!Skip(r)
<1>0. Typed /\ Stamped
  BY DEF ApartInv, IInv
<1>1. /\ r \in readers /\ unreadSize[r] >= a /\ a \in Nat \ {0}
      /\ unreadSize' = [unreadSize EXCEPT ![r] = unreadSize[r] - a]
      /\ UNCHANGED <<bufferEnd, readers, state, written, out>>
  BY <1>0 DEF AdvanceReadOffset, ring, CallSizes, Typed
<1>2. unreadSize[r] \in Nat /\ unreadSize[r] - a \in Nat /\ written \in Nat
  BY <1>0, <1>1 DEF Typed, Stamped
<1>3. /\ Place' = [Place EXCEPT ![r] = written - (unreadSize[r] - a)]
      /\ Place[r] = written - unreadSize[r]
  BY <1>0, <1>1, <1>2, PlaceAfter
<1>4. written - (unreadSize[r] - a) = Place[r] + a /\ a \in 1..(written - Place[r])
  BY <1>1, <1>2, <1>3
<1>5. Holding' = Holding
  BY <1>1 DEF Holding, Enabled
<1> QED
  BY <1>1, <1>3, <1>4, <1>5 DEF Log!Skip

(***************************************************************************)
(* A reader that is enabled stands at the oldest byte it has not read and  *)
(* the ring still holds.                                                   *)
(***************************************************************************)
LEMMA EnableRefines ==
  ASSUME ApartInv, Stamped', NEW r \in Readers, Enable(r) PROVE Log!Enable(r)
<1> DEFINE u == Lesser(unreadSize[r], bufferEnd)
<1>0. Typed /\ Stamped
  BY DEF ApartInv, IInv
<1>1. /\ r \in readers
      /\ unreadSize' = [unreadSize EXCEPT ![r] = u]
      /\ state' = [state EXCEPT ![r] = "ENABLED"]
      /\ UNCHANGED <<bufferEnd, readers, written, out>>
  BY DEF Enable, ring
<1>2. u \in Nat /\ unreadSize[r] \in Nat /\ written \in Nat /\ bufferEnd \in Nat
  BY <1>0 DEF Typed, Stamped, Lesser
<1>3. Place' = [Place EXCEPT ![r] = written - u] /\ Place[r] = written - unreadSize[r]
  <2> HIDE DEF u
  <2> QED
    BY <1>0, <1>1, <1>2, PlaceAfter
<1>4. written - u = IF written - Place[r] > bufferEnd THEN written - bufferEnd ELSE Place[r]
  BY <1>2, <1>3 DEF Lesser
<1>5. Holding' = Holding \cup {r}
  BY <1>0, <1>1 DEF Holding, Enabled, Typed
<1> QED
  BY <1>1, <1>3, <1>4, <1>5 DEF Log!Enable

(***************************************************************************)
(* Disabling a reader does not move it.                                    *)
(***************************************************************************)
LEMMA DisableRefines ==
  ASSUME ApartInv, NEW r \in Readers, Disable(r) PROVE Log!Disable(r)
<1>1. Holding' = Holding \ {r}
  BY DEF ApartInv, IInv, Typed, Disable, Holding, Enabled
<1>2. Place' = Place
  BY DEF Disable, Place, ring
<1> QED
  BY <1>1, <1>2 DEF Disable, Log!Disable, ring

(***************************************************************************)
(* A reader that is cleared forgets what it has not read: it stands at the *)
(* end of the log.                                                         *)
(***************************************************************************)
LEMMA ClearRefines ==
  ASSUME ApartInv, Stamped', NEW r \in Readers, ClearReader(r),
         UNCHANGED <<bufferEnd, written, out>>,
         readers' \in {readers, readers \cup {r}}, r \in readers'
  PROVE  /\ Place' = [Place EXCEPT ![r] = written]
         /\ r \in readers => Holding' = Holding \ {r}
         /\ r \notin readers => Holding' = Holding
<1>0. Typed /\ Stamped
  BY DEF ApartInv, IInv
<1>1. /\ unreadSize' = [unreadSize EXCEPT ![r] = 0] /\ 0 \in Nat
      /\ state' = [state EXCEPT ![r] = "DISABLED"]
  BY DEF ClearReader
<1>2. Place' = [Place EXCEPT ![r] = written]
  <2>1. Place' = [Place EXCEPT ![r] = written - 0]
    BY <1>0, <1>1, PlaceAfter
  <2> QED
    BY <1>0, <2>1 DEF Stamped
<1> QED
  BY <1>0, <1>1, <1>2 DEF Holding, Enabled, Typed

(***************************************************************************)
(* Every step of the ring is a step of the log or leaves it alone: the     *)
(* walk of a reset forgets the readers one by one.                         *)
(***************************************************************************)
LEMMA NextRefines ==
  ASSUME ~ConcurrentReset, ApartInv, [Next]_vars PROVE [Log!Next]_(Log!vars)
<1>0. Typed /\ Stamped /\ Stamped' /\ WalkOver /\ CreateQuiet
  BY StampedNext DEF ApartInv, IInv
<1> USE DEF Log!Next
<1>1. ASSUME NEW w \in CallSizes, Write(w) PROVE Log!Append
  BY <1>1, WriteAppends
<1>2. ASSUME UNCHANGED <<bufferEnd, readers, unreadSize, state, written, out>>
      PROVE  UNCHANGED Log!vars
  BY <1>2 DEF Log!vars, Place, Holding, Enabled
<1>3. ASSUME NEW why \in {"reset", "create"}, RingReset(why) PROVE UNCHANGED Log!vars
  BY <1>2, <1>3 DEF RingReset, reader
<1>4. ASSUME NEW size \in Sizes, RingResetDone(size) PROVE Log!Resize \/ UNCHANGED Log!vars
  <2>1. UNCHANGED <<readers, unreadSize, state, written, out>>
    BY <1>4 DEF RingResetDone, reader
  <2>2. CASE resetting = "create"
    <3>1. Holding = {} /\ Holding' = Holding /\ Place' = Place
      BY <1>0, <1>4, <2>1, <2>2 DEF RingResetDone, CreateQuiet, Holding, Place, Enabled
    <3>2. bufferEnd' \in Sizes \/ bufferEnd' = bufferEnd
      BY <1>4 DEF RingResetDone
    <3> QED
      BY <1>2, <2>1, <3>1, <3>2 DEF Log!Resize
  <2>3. CASE resetting # "create"
    BY <1>2, <1>4, <2>1, <2>3 DEF RingResetDone
  <2> QED
    BY <2>2, <2>3
<1>5. ASSUME NEW r \in Readers, NEW b \in CallSizes, ReadTests(r, b) PROVE UNCHANGED Log!vars
  BY <1>2, <1>5 DEF ReadTests, ring, reader
<1>6. ASSUME NEW r \in Readers, NEW a \in CallSizes, AdvanceReadOffset(r, a) PROVE Log!Skip(r)
  BY <1>0, <1>6, AdvanceRefines
<1>7. ASSUME NEW r \in Readers, ReadCopies(r) PROVE Log!Read(r)
  BY <1>0, <1>7, ReadRefines
<1>8. ASSUME NEW r \in Readers, Enable(r) PROVE Log!Enable(r)
  BY <1>0, <1>8, EnableRefines
<1>9. ASSUME NEW r \in Readers, Disable(r) PROVE Log!Disable(r)
  BY <1>9, DisableRefines
<1>10. ASSUME NEW r \in Readers, ReaderReset(r) \/ RingResetReader(r)
       PROVE  Log!Forget(r) \/ UNCHANGED Log!vars
  <2>1. ClearReader(r) /\ UNCHANGED <<bufferEnd, written, readers, out>>
    BY <1>10 DEF ReaderReset, RingResetReader, ring
  <2>2. CASE r \in readers
    <3>1. Place' = [Place EXCEPT ![r] = written] /\ Holding' = Holding \ {r}
      BY <1>0, <2>1, <2>2, ClearRefines
    <3> QED
      BY <2>1, <2>2, <3>1 DEF Log!Forget
  <2>3. CASE r \notin readers
    <3>1. Place' = Place /\ Holding' = Holding
      BY <1>0, <2>1, <2>3 DEF ClearReader, Place, Holding, Enabled, Typed
    <3> QED
      BY <2>1, <3>1 DEF Log!vars
  <2> QED
    BY <2>2, <2>3
<1>11. ASSUME NEW r \in Readers, NewReader(r) PROVE Log!Attach(r)
  <2>1. /\ ClearReader(r) /\ r \notin readers /\ readers' = readers \cup {r}
        /\ UNCHANGED <<bufferEnd, written, out>>
    BY <1>11 DEF NewReader, ring
  <2>2. Place' = [Place EXCEPT ![r] = written] /\ Holding' = Holding
    BY <1>0, <2>1, ClearRefines
  <2> QED
    BY <2>1, <2>2 DEF Log!Attach
<1>12. ASSUME NEW r \in Readers, RemoveReader(r) PROVE Log!Detach(r)
  <2>1. /\ r \in readers /\ readers' = readers \ {r}
        /\ state' = [state EXCEPT ![r] = "DISABLED"]
        /\ UNCHANGED <<bufferEnd, written, unreadSize, out>>
    BY <1>12 DEF RemoveReader, ring
  <2>2. Place' = [Place EXCEPT ![r] = 0] /\ Holding' = Holding \ {r}
    BY <1>0, <2>1 DEF Place, Holding, Enabled, Typed
  <2> QED
    BY <2>1, <2>2 DEF Log!Detach
<1>13. CASE UNCHANGED vars
  BY <1>2, <1>13 DEF vars, ring, reader
<1> QED
  BY <1>1, <1>3, <1>4, <1>5, <1>6, <1>7, <1>8, <1>9, <1>10, <1>11, <1>12, <1>13 DEF Next

(***************************************************************************)
(* The ring implements the log: every reader is handed every byte that was *)
(* written once and in order, or loses what fell out of the ring while it  *)
(* was disabled, whatever the branch of read() and wherever the ring wraps.*)
(***************************************************************************)
THEOREM RingImplementsLog == ASSUME ~ConcurrentReset PROVE Spec => ImplementsLog
<1>1. Init => Log!Init
  BY DEF Init, Log!Init, Place, Holding
<1>2. ApartInv /\ [Next]_vars => [Log!Next]_(Log!vars)
  BY NextRefines
<1> QED
  BY <1>1, <1>2, ApartInvariant, PTL DEF Spec, ImplementsLog, Log!Spec
================================================================================
