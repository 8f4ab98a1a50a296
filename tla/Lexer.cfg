CONSTANTS
  Sources <- MCSources
SPECIFICATION LexerSpec
INVARIANTS ScansTheSource CutsTheText NothingLost
