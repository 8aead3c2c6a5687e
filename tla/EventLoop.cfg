CONSTANTS
  Chunk = {a}
  BufferSize = 1
SPECIFICATION Spec
INVARIANT AnnouncedOnce
