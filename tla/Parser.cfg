SPECIFICATION ParserSpec
CONSTANT Streams <- MCStreams
INVARIANTS
  TreeHoldsTheTokens
  SentencesParsed
  OnlyClosingsUnchecked
