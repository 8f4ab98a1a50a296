\* Every program of the families and the written-out ones.
CONSTANTS
  Programs <- AllPrograms
  Inputs <- MCInputs
  Names <- MCNames
  IntMax <- MCIntMax
  Junk <- MCJunk
SPECIFICATION Spec
INVARIANTS TypeOK CallOrder CallerWaits TypeSafe Answers
PROPERTIES SecondReturnIsSilent FrameIsolation CallsAreNested Terminates
