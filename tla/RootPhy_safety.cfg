SPECIFICATION Spec
CONSTANTS
  TxBufSize = 5
  RxBufSize = 2
  NumConf = 2
INVARIANTS TypeOK OneCommand AnswersEndCommands
PROPERTIES LostOnlyWhenFull
CHECK_DEADLOCK FALSE
