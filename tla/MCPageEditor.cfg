CONSTANTS
  Docs = {d1, d2, d3}
  NoDoc = NoDoc
  MaxRev = 2
  MaxToken = 1
  InOrder = FALSE
SPECIFICATION Spec
INVARIANTS TypeOK EditsAccountedFor NoEditStranded
PROPERTIES PublishesWhatTheOwnerSees ResetOwnsTheOrder WorkSettles
  ResetAlwaysEnds
