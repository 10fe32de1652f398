SPECIFICATION Spec
CONSTANTS
  MaxTurns = 2
  MaxChunks = 4
  MaxDeltas = 2
  MaxTimers = 1
  MinSpeech = 1
  Kinds = {"open", "close"}
INVARIANTS
  UtteranceOfOneTurn
  RepliesSound
  BargeInCutsPlayback
  NoQuestionForgotten
CHECK_DEADLOCK FALSE
