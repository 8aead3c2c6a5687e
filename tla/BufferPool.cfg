\* Two pages share one frame.
CONSTANTS
  PoolSize = 1
  PageSize = 2
  LastPage = 1
  MaxFile = 2
  Value = {Zero, a}
  Zero = Zero
SPECIFICATION Spec
PROPERTY EvictedPagesFlushed
