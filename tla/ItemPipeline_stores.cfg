SPECIFICATION Spec
CONSTANTS
  Item = {"i1", "i2"}
  Song = {"a", "b"}
  NameOf <- PipelineNameOf
  Skipping = {"i1"}
  Takes = {1, 2}
  MaxAttempts = 2
  Budget = 2
INVARIANTS
  RowsAreTrue
  SettledIsStored
PROPERTIES
  RecordingsKept
  ItemsSettle
CHECK_DEADLOCK FALSE
