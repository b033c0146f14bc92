SPECIFICATION Spec
CONSTANTS
  Kind = {"ticks", "bars"}
  BatchSize = 2
  MaxRows = 3
INVARIANT TypeOK
PROPERTIES WriterEnds LogSpec
CHECK_DEADLOCK FALSE
