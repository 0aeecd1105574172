CONSTANTS
  Docs = {d1, d2, d3}
  NoDoc = NoDoc
  MaxRev = 2
  MaxToken = 1
  InOrder = TRUE
SPECIFICATION Spec
PROPERTIES ConflictStopsSaving
