CONSTANTS
  Sessions <- MCSessions
  Symbols <- MCSymbols
  Calls <- MCCalls
  Sets <- MCSets
  Texts <- MCTexts
  MaxCommands = 2
  MaxSteps = 15
SPECIFICATION FairSpec
INVARIANTS Assembled AnswerOfCall InputsInOrder
PROPERTIES LiftedAgrees EventuallyAnswered
