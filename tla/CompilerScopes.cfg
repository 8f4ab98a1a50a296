CONSTANTS
  Unit <- WrongUnitOf
  Units <- SiblingScopes
  LoopBound = 20
  Programs <- NoPrograms
  Inputs <- MCInputs
  Names <- MCNames
  IntMax = 127
  Junk <- MCJunk
SPECIFICATION CompilerSpec
INVARIANTS ScopesApart
