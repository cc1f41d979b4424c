SPECIFICATION Spec
CONSTANTS
  TxLens = {120}
  RxLens = {96}
  Answers = {80, 112}
  Rests = {1, 4}
  Levels = {2}
  MissesRxe = TRUE
INVARIANTS
  ReaderGoesOn
  IdentifierWhole
  AnswersMatch
CHECK_DEADLOCK FALSE
