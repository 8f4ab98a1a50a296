CONSTANTS
  Unit <- UnitOf
  Units <- AllUnits
  LoopBound = 20
  Programs <- NoPrograms
  Inputs <- MCInputs
  Names <- MCNames
  IntMax = 127
  Junk <- MCJunk
SPECIFICATION CompilerSpec
INVARIANTS MeaningPreserved JumpsStayInside WellTypedCode
PROPERTIES Completes
