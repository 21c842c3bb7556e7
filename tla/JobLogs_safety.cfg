SPECIFICATION Spec
CONSTANTS
  a = a
  b = b
  Mark = mark
  Promoted = promoted
  Symbol <- MCSymbol
  Secrets <- MCSecrets
  Lines <- MCLines
  MinLen = 2
  MaxInput = 3
  MaxChunk = 2
  MaxLines = 1
  Reader = {r1}
INVARIANTS
  ScrubbedLog
  StreamFaithful
  OrphanOnlyByOverlap
 
CHECK_DEADLOCK FALSE
