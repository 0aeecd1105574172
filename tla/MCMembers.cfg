CONSTANTS
  d1 = d1
  d2 = d2
  m1 = m1
  m2 = m2
  t1 = t1
  t2 = t2
  a1 = a1
  a2 = a2
  r1 = r1
  r2 = r2
  BlockTypes = {"featuredProject", "gallery", "richText", "additionalLinks"}
  MinItems <- MCMinItems
  MaxItems = 2
  MaxBlocks = 4
  MaxFeatured = 1
  NoUndo = NoUndo
  NoSnapshotYet = NoSnapshotYet
  MaxIds = 6
  MaxResets = 1
  Docs = {d1, d2}
  NoDoc = NoDoc
  MaxRev = 2
  MaxToken = 2
  InOrder <- MCInOrder
  NoRequest = NoRequest
  MaxTrouble = 2
  Members = {m1, m2}
  BrowserTabs = {t1, t2}
  Denied = Denied
  NoAnswer = NoAnswer
  MaxAttempts = 2
  MaxGames = 1
  Assets = {a1, a2}
  PendingLimit = 2
  ReadyLimit = 1
  Refreshes = {r1, r2}
  NoAsset = NoAsset
  NoUpload = NoUpload
  NoListing = NoListing
  NoCall = NoCall
  Unread = Unread
  MaxFiles = 2
  MaxUnderWay = 2
  MaxUnheard = 1
  MaxParts <- MCMaxParts
  MaxRest <- MCMaxRest
  MaxEntries <- MCMaxEntries
  Metas <- MCMetas
  NoMeta = NoMeta
  Contents = {still, moving, text}
  StaticOnes = {still}
  BadFromTheStart = {text}
  Lengths = {1, 2, 6}
  MaxPrefix = 4
  NoContent = NoContent
  MaxDepth = 5
  MaxNodes = 6
  MaxChars = 2
  Nodes <- MCNodes
  MaxGiven = 6
SPECIFICATION MCSpec
SYMMETRY MCSymmetry
INVARIANTS
  SignInsBound
  PicturesAccounted
PROPERTIES
  DocumentsSound
  SessionsHonest
\* A bound that is used up stops a machine for good.
CHECK_DEADLOCK FALSE
