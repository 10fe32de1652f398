SPECIFICATION Spec
CONSTANTS
  MaxTurns = 1
  MaxChunks = 2
  MaxDeltas = 4
  MaxTimers = 1
  MinSpeech = 1
  Kinds = {"text", "open", "close"}
INVARIANT
  ReplySpokenWhole
CHECK_DEADLOCK FALSE
