CONSTANTS
  Unit <- UnitOf
  Units <- AllUnits
  LoopBound = 40
  Programs <- FramePrograms
  Inputs <- MCInputs
  IntMax = 32767
  DataStart = 16
  StackEnd = 4000
  StackTop = 28000
SPECIFICATION BackEndSpec
INVARIANTS MachineMeans FramesKept SlotsApart SlotsInFrame JumpsLand
PROPERTIES ReturnsToCaller MachineHalts
