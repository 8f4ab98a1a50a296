CONSTANTS
  Unit <- WrongUnitOf
  Units <- ElseReturns
  LoopBound = 20
  Programs <- NoPrograms
  Inputs <- MCInputs
  Names <- MCNames
  IntMax = 127
  Junk <- MCJunk
SPECIFICATION CompilerSpec
INVARIANTS InstructionThere
