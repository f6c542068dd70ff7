---------------------------- MODULE PalRingBuffer ----------------------------
(***************************************************************************)
(* The look-ahead ring buffer of voice UI (utils/PalRingBuffer): one       *)
(* producer, the buffering loop of the first-stage engine, and several     *)
(* readers, the second-stage engines and the client's read call.  Every    *)
(* reader keeps its own offset and unread count; the ring's mutex covers   *)
(* each operation except the two tests at the head of read() and the walk  *)
(* over the readers at the tail of reset(), which are steps of their own.  *)
(*                                                                         *)
(* Bytes are abstracted to stamps: the k-th byte ever written is k, and 0  *)
(* is memory nobody wrote.  The stamps are not part of the program; they   *)
(* make it possible to say which bytes a reader is handed.                 *)
(***************************************************************************)
EXTENDS Integers, Sequences

CONSTANTS Readers,          \* reader objects that newReader() can create
          Sizes,            \* buffer sizes CreateBuffer() is asked for
          MaxWritten,       \* bound: bytes written in a behaviour
          ConcurrentReset   \* may reset() of the ring overlap a reader inside read()?

ASSUME SizesAssumption   == Sizes \subseteq Nat \ {0} /\ Sizes # {}
ASSUME BoundAssumption   == MaxWritten \in Nat
ASSUME ResetAssumption   == ConcurrentReset \in BOOLEAN

VARIABLES
  bufferEnd,    \* size of the buffer
  writeOffset,  \* where the producer writes next
  cell,         \* the stamp each byte of the buffer holds
  readers,      \* readOffsets_: the readers attached to the ring
  unreadSize, readOffset, state,  \* of every reader
  asked,        \* size asked by a read() past its tests, 0 when not in read()
  resetting,    \* "no", "reset" or "create": a reset() walking the readers
  pending,      \* the readers that walk has not reached
  written,      \* bytes written so far
  out           \* the stamps the last read() of each reader returned

ring    == <<bufferEnd, writeOffset, cell, written>>
reader  == <<unreadSize, readOffset, state>>
walk    == <<resetting, pending>>
vars    == <<ring, readers, reader, asked, walk, out>>

Lesser(a, b) == IF a <= b THEN a ELSE b
\* Seeded fault: the offset wraps one byte late.
LateWrap(k)  == IF k > bufferEnd THEN k - bufferEnd ELSE k
Slot(k)      == IF k >= bufferEnd THEN k - bufferEnd ELSE k
Enabled(r)   == state[r] = "ENABLED"
Garbage(n)   == [i \in 0..(n - 1) |-> 0]

(***************************************************************************)
(* getFreeSize(): the space no enabled reader still has to read, as the    *)
(* set of its one value.                                                   *)
(***************************************************************************)
RoomLeft == {bufferEnd - unreadSize[r] : r \in {q \in readers : Enabled(q)}}
              \cup {bufferEnd}
\* Seeded fault: the reader that is least behind decides.
MostFree == {f \in RoomLeft : \A g \in RoomLeft : g <= f}
FreeSize == {f \in RoomLeft : \A g \in RoomLeft : f <= g}

(***************************************************************************)
(* When a reader may take a step.  The engine resets the ring under its    *)
(* own mutex, which the readers' threads do not hold (HandleSessionEvent,  *)
(* RestartRecognition and ProcessStopRecognition of the GSL engine); with  *)
(* ConcurrentReset FALSE they are kept apart.  CreateBuffer() runs when a  *)
(* sound model is loaded: no thread reads then.                            *)
(***************************************************************************)
Unhindered == resetting = "no" \/ (ConcurrentReset /\ resetting = "reset")

(***************************************************************************)
(* write(): copies what fits, in one piece or wrapped around the end, and  *)
(* adds it to every attached reader, enabled or not.  The producer and     *)
(* reset() hold the engine's mutex, so a write never meets a reset.        *)
(***************************************************************************)
Write(w) ==
  \E free \in FreeSize : LET n == Lesser(w, free) IN
      /\ resetting = "no"
      /\ written + n <= MaxWritten
      /\ cell' = [i \in DOMAIN cell |->
                    IF \E j \in 1..n : i = Slot(writeOffset + j - 1)
                    THEN written + (CHOOSE j \in 1..n : i = Slot(writeOffset + j - 1))
                    ELSE cell[i]]
      /\ writeOffset' = Slot(writeOffset + n)
      /\ written' = written + n
      /\ unreadSize' = [r \in Readers |-> IF r \in readers THEN unreadSize[r] + n
                                                           ELSE unreadSize[r]]
      /\ UNCHANGED <<bufferEnd, readers, readOffset, state, asked, walk, out>>

(***************************************************************************)
(* The head of read(): the state and the unread count are tested before    *)
(* the ring's mutex is taken.                                              *)
(***************************************************************************)
ReadTests(r, b) ==
  /\ asked[r] = 0
  /\ Unhindered
  /\ Enabled(r)
  /\ unreadSize[r] # 0
  /\ asked' = [asked EXCEPT ![r] = b]
  /\ UNCHANGED <<ring, readers, reader, walk, out>>

(***************************************************************************)
(* What read() does under the mutex, from offset rd with b bytes asked: it *)
(* does not test unreadSize again but works from the two offsets.  Ahead:  *)
(* the write offset leads the read offset.  Otherwise the read wraps if b  *)
(* reaches the end of the buffer.                                          *)
(***************************************************************************)
Ahead(rd, b) ==
  LET n == Lesser(b, writeOffset - rd)
  IN  [size |-> n, offset |-> rd + n, unread |-> writeOffset - rd - n]

Wrapped(rd, b) ==
  LET m == Lesser(b - (bufferEnd - rd), writeOffset)
  IN  [size |-> bufferEnd - rd + m, offset |-> m, unread |-> writeOffset - m]

Unwrapped(rd, b) ==
  [size |-> b, offset |-> rd + b, unread |-> bufferEnd - (rd + b) + writeOffset]

\* Seeded fault: the wrapped read leaves its offset at the start of the buffer.
LosesPlace(rd, b) ==
  IF writeOffset > rd THEN Ahead(rd, b)
  ELSE IF b >= bufferEnd - rd THEN [Wrapped(rd, b) EXCEPT !.offset = 0]
  ELSE Unwrapped(rd, b)

\* Seeded fault: the wrapped read does not stop at the write offset.
OverrunsTail(rd, b) ==
  IF writeOffset > rd THEN Ahead(rd, b)
  ELSE IF b >= bufferEnd - rd
  THEN [size |-> b, offset |-> b - (bufferEnd - rd), unread |-> 0]
  ELSE Unwrapped(rd, b)

ReadOutcome(rd, b) ==
  IF writeOffset > rd THEN Ahead(rd, b)
  ELSE IF b >= bufferEnd - rd THEN Wrapped(rd, b)
  ELSE Unwrapped(rd, b)

ReadCopies(r) ==
  LET o == ReadOutcome(readOffset[r], asked[r])
  IN  /\ asked[r] # 0
      /\ out' = [out EXCEPT ![r] = [j \in 1..o.size |-> cell[Slot(readOffset[r] + j - 1)]]]
      /\ readOffset' = [readOffset EXCEPT ![r] = o.offset]
      /\ unreadSize' = [unreadSize EXCEPT ![r] = o.unread]
      /\ asked' = [asked EXCEPT ![r] = 0]
      /\ UNCHANGED <<ring, readers, state, walk>>

(***************************************************************************)
(* advanceReadOffset(): skips to the start of the keyword, all or nothing. *)
(* It does not look at the state: a reset between an engine's isEnabled()  *)
(* and this call leaves it to skip in a disabled reader.                   *)
(***************************************************************************)
AdvanceReadOffset(r, a) ==
  /\ r \in readers
  /\ asked[r] = 0
  /\ Unhindered
  /\ unreadSize[r] >= a
  /\ unreadSize' = [unreadSize EXCEPT ![r] = @ - a]
  /\ readOffset' = [readOffset EXCEPT ![r] = Slot(@ + a)]
  /\ UNCHANGED <<ring, readers, state, asked, walk, out>>

\* Seeded fault: the reader is enabled where it stood when it was disabled.
EnableAnywhere(r) ==
  /\ r \in readers
  /\ Unhindered
  /\ ~Enabled(r)
  /\ unreadSize' = [unreadSize EXCEPT ![r] = Lesser(@, bufferEnd)]
  /\ state' = [state EXCEPT ![r] = "ENABLED"]
  /\ UNCHANGED <<ring, readers, readOffset, asked, walk, out>>

(***************************************************************************)
(* updateState(): enabling a disabled reader places it at the oldest byte  *)
(* it has not read and the ring still holds.                               *)
(***************************************************************************)
Enable(r) ==
  LET u == Lesser(unreadSize[r], bufferEnd)
  IN  /\ r \in readers
      /\ Unhindered
      /\ ~Enabled(r)
      /\ unreadSize' = [unreadSize EXCEPT ![r] = u]
      /\ readOffset' = [readOffset EXCEPT ![r] =
                          IF u <= writeOffset THEN writeOffset - u
                                              ELSE writeOffset + bufferEnd - u]
      /\ state' = [state EXCEPT ![r] = "ENABLED"]
      /\ UNCHANGED <<ring, readers, asked, walk, out>>

Disable(r) ==
  /\ asked[r] = 0
  /\ Enabled(r)
  /\ state' = [state EXCEPT ![r] = "DISABLED"]
  /\ UNCHANGED <<ring, readers, unreadSize, readOffset, asked, walk, out>>

(***************************************************************************)
(* reset() of one reader: by its owner, who has left read() (the engines   *)
(* wait for their thread under event_mutex_), or when reset() of the ring  *)
(* reaches it.                                                             *)
(***************************************************************************)
ClearReader(r) ==
  /\ unreadSize' = [unreadSize EXCEPT ![r] = 0]
  /\ readOffset' = [readOffset EXCEPT ![r] = 0]
  /\ state' = [state EXCEPT ![r] = "DISABLED"]

ReaderReset(r) ==
  /\ resetting = "no"
  /\ asked[r] = 0
  /\ ClearReader(r)
  /\ UNCHANGED <<ring, readers, asked, walk, out>>

(***************************************************************************)
(* reset() of the ring: the offset is cleared under the mutex, then each   *)
(* reader under a mutex taken anew.                                        *)
(***************************************************************************)
RingReset(why) ==
  /\ resetting = "no"
  /\ (ConcurrentReset /\ why = "reset") \/ \A r \in Readers : asked[r] = 0
  /\ writeOffset' = 0
  /\ resetting' = why
  /\ pending' = readers
  /\ UNCHANGED <<bufferEnd, cell, written, readers, reader, asked, out>>

RingResetReader(r) ==
  /\ r \in pending
  /\ ClearReader(r)
  /\ pending' = pending \ {r}
  /\ UNCHANGED <<ring, readers, asked, resetting, out>>

(***************************************************************************)
(* The end of reset(), and, when CreateBuffer() asked for it,              *)
(* resizeRingBuffer(): a new, unwritten allocation if the size differs.    *)
(***************************************************************************)
RingResetDone(size) ==
  /\ resetting # "no"
  /\ pending = {}
  /\ resetting' = "no"
  /\ IF resetting = "create" /\ size # bufferEnd
     THEN bufferEnd' = size /\ cell' = Garbage(size)
     ELSE UNCHANGED <<bufferEnd, cell>>
  /\ UNCHANGED <<writeOffset, written, readers, reader, asked, pending, out>>

(***************************************************************************)
(* newReader() of CreateBuffer() and removeReader() of ResetBufferReaders, *)
(* which takes a reader off the list in whatever state; the stream then    *)
(* deletes its reader and forgets the others, so that no detached one is   *)
(* ever used.                                                              *)
(***************************************************************************)
NewReader(r) ==
  /\ resetting = "no"
  /\ r \notin readers
  /\ asked[r] = 0
  /\ readers' = readers \cup {r}
  /\ ClearReader(r)
  /\ UNCHANGED <<ring, asked, walk, out>>

RemoveReader(r) ==
  /\ resetting = "no"
  /\ r \in readers
  /\ asked[r] = 0
  /\ readers' = readers \ {r}
  /\ state' = [state EXCEPT ![r] = "DISABLED"]
  /\ UNCHANGED <<ring, unreadSize, readOffset, asked, walk, out>>

Init ==
  /\ bufferEnd \in Sizes
  /\ writeOffset = 0
  /\ cell = Garbage(bufferEnd)
  /\ readers = {}
  /\ unreadSize = [r \in Readers |-> 0]
  /\ readOffset = [r \in Readers |-> 0]
  /\ state = [r \in Readers |-> "DISABLED"]
  /\ asked = [r \in Readers |-> 0]
  /\ resetting = "no"
  /\ pending = {}
  /\ written = 0
  /\ out = [r \in Readers |-> <<>>]

(***************************************************************************)
(* Sizes of the calls: the engines ask for anything up to more than a      *)
(* whole buffer.                                                           *)
(***************************************************************************)
CallSizes == 1..(bufferEnd + 1)

Next ==
  \/ \E w \in CallSizes : Write(w)
  \/ \E why \in {"reset", "create"} : RingReset(why)
  \/ \E size \in Sizes : RingResetDone(size)
  \/ \E r \in Readers :
       \/ \E b \in CallSizes : ReadTests(r, b)
       \/ \E a \in CallSizes : AdvanceReadOffset(r, a)
       \/ ReadCopies(r)
       \/ Enable(r)
       \/ Disable(r)
       \/ ReaderReset(r)
       \/ RingResetReader(r)
       \/ NewReader(r)
       \/ RemoveReader(r)

Spec == Init /\ [][Next]_vars

------------------------------------------------------------------------------
(* Type invariant. *)
TypeOK ==
  /\ bufferEnd \in Nat \ {0}
  /\ writeOffset \in 0..(bufferEnd - 1)
  /\ cell \in [0..(bufferEnd - 1) -> Nat]
  /\ readers \subseteq Readers
  /\ unreadSize \in [Readers -> Nat]
  /\ readOffset \in [Readers -> Nat]
  /\ state \in [Readers -> {"ENABLED", "DISABLED"}]
  /\ asked \in [Readers -> Nat]
  /\ resetting \in {"no", "reset", "create"}
  /\ pending \subseteq readers
  /\ written \in Nat

(***************************************************************************)
(* The two counters of an enabled reader agree with the producer's offset: *)
(* no more is unread than the ring holds, and reading it all would bring   *)
(* the reader to the write offset.  write(), read(), advanceReadOffset()   *)
(* and updateState() each maintain it with arithmetic of their own, and    *)
(* getFreeSize() and the branches of read() are only right while it holds. *)
(***************************************************************************)
Agree(r) ==
  /\ unreadSize[r] <= bufferEnd
  /\ readOffset[r] < bufferEnd
  /\ readOffset[r] + unreadSize[r] \in {writeOffset, writeOffset + bufferEnd}

OffsetsAgree ==
  \A r \in readers : Enabled(r) /\ r \notin pending => Agree(r)

(***************************************************************************)
(* What is unread is what was written last, in order: the producer never   *)
(* overwrites a byte an enabled reader still has to read.                  *)
(***************************************************************************)
UnreadIntact ==
  \A r \in readers : Enabled(r) /\ r \notin pending =>
    \A i \in 1..unreadSize[r] :
      cell[Slot(readOffset[r] + i - 1)] = written - unreadSize[r] + i

(***************************************************************************)
(* The ring implements the log: readers are handed every byte once and in  *)
(* order, whatever the branch of read() and wherever the ring wraps.       *)
(***************************************************************************)
Place   == [r \in Readers |-> IF r \in readers THEN written - unreadSize[r] ELSE 0]
Holding == {r \in readers : Enabled(r)}

Log == INSTANCE LookAheadLog WITH
         capacity <- bufferEnd,
         last     <- written,
         place    <- Place,
         attached <- readers,
         enabled  <- Holding,
         given    <- out

ImplementsLog == Log!Spec

(***************************************************************************)
(* "Return 0 when no data can be read for current reader" (the comment at  *)
(* the test read() makes): a read never returns more than was unread.      *)
(***************************************************************************)
NoReadBeyondUnread ==
  [][\A r \in Readers : asked[r] # 0 /\ asked'[r] = 0
                          => Len(out'[r]) <= unreadSize[r]]_vars
==============================================================================
