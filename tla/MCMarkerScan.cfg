SPECIFICATION ScanSpec
CONSTANTS
  m = m
  n = n
  newline = newline
  Symbols <- MCSymbols
  Breaks = {newline}
  marker <- MCMarker
  ChunkSize = 2
  MaxOutput = 6
INVARIANTS
  WindowExhaustive
  GivesUpOnlyWithoutLine
