CONSTANTS
  Unit <- WrongUnitOf
  Units <- NameBeginsWithT
  LoopBound = 20
  Programs <- NoPrograms
  Inputs <- MCInputs
  Names <- MCNames
  IntMax = 127
  Junk <- MCJunk
SPECIFICATION CompilerSpec
INVARIANTS OperatorsWriteTemporaries
