CONSTANTS
  Unit <- WrongUnitOf
  Units <- LargeArray
  LoopBound = 40
  Programs <- NoPrograms
  Inputs <- MCInputs
  IntMax = 32767
  DataStart = 16
  StackEnd = 4000
  StackTop = 28000
SPECIFICATION BackEndSpec
INVARIANTS SlotsInFrame
