SPECIFICATION BackendSpec
CONSTANTS
  EngineBatch = 2
  EngineRow = 2
  RowSizes = {1, 2, 3}
  SahiBatch = 2
  LastId = 3
  MaxRows = 3
  MaxCalls = 4
INVARIANTS
  AnswersItsInput
  ReadsWhatItStored
CHECK_DEADLOCK FALSE
