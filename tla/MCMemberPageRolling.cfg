CONSTANTS
  plain = plain
  card = card
  rich = rich
  retro = retro
  faded = faded
  NoDoc = NoDoc
  Nobody = Nobody
  Calls = {c1, c2}
  Accounts = {u1, u2}
  Docs = {plain, card, rich}
  Assets = {a1}
  Refs <- MCRefs
  Theme <- MCTheme
  Retired = {"retro", "faded"}
  LegacyDocs <- MCLegacyDocs
  RateLimit <- MCRateLimit
  MaxRev = 2
  MaxToken = 2
  DrainedRollout = FALSE
SPECIFICATION Spec
SYMMETRY Symmetry
PROPERTIES LegacyKeepsV2Content
