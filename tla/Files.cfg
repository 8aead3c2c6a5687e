CONSTANTS
  BUFFER_SIZE = 2
  MaxBytes = 7
  MaxInterrupts = 2
  MaxErrors = 2
  Thread = {t1, t2}
  MaxBlock = 1
  Value = {a, b}
  Zero = Zero
  Blocks = 4
  MaxUringErrors = 1
  Chunk = {a, b}
  BufferSize = 1
  Null = Null
SPECIFICATION MCSpec
INVARIANTS
  InOrder
  NothingLost
  SyncedSurvives
  OnlyNewestAtRisk
PROPERTIES
  AllCallsReturn
  ImplementsLinMap
  InputEchoed
