\* Two readers of one ring of 2 or 3 bytes; the ring wraps twice, is resized
\* and reset, and no reader is inside read() while it is reset.
SPECIFICATION Spec
CONSTANTS
  Readers = {r1, r2}
  Sizes = {2, 3}
  MaxWritten = 5
  ConcurrentReset = FALSE
SYMMETRY Symmetric
INVARIANTS TypeOK OffsetsAgree UnreadIntact
PROPERTIES ImplementsLog NoReadBeyondUnread
