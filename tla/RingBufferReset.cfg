\* The engine resets the ring while a reader is between the tests at the head
\* of read() and the ring's mutex.
SPECIFICATION Spec
CONSTANTS
  Readers = {r1}
  Sizes = {2, 3}
  MaxWritten = 4
  ConcurrentReset = TRUE
PROPERTIES NoReadBeyondUnread
