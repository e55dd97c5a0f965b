SPECIFICATION LoopSpec
CONSTANTS
  Loops = {"field", "segments", "transition", "explore", "map_tiles", "field_tiles", "slabs", "ln"}
  Columns = 3
  Rows = 2
  Threads = {t1, t2}
  Gpu = gpu
  Batch = 4
INVARIANTS ReportsWhoDrew
PROPERTIES ImplementsFrame EveryFrameEnds
CHECK_DEADLOCK FALSE
