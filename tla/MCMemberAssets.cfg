SPECIFICATION Spec
CONSTANTS
  a1 = a1  a2 = a2  r1 = r1  r2 = r2  good = good  bad = bad  None = None
  Assets <- MCAssets
  Requests <- MCRequests
  Contents <- MCContents
  Valid <- MCValid
  PendingLimit = 1
  ReadyLimit = 1
  Batch = 1
  Lifetime = 1
  MaxTime = 2
  MaxUploads = 2
SYMMETRY Symmetry
INVARIANTS
  TypeOK
  CountersExact
  OnlyVerifiedIsServed
  UploadedOnceStaysIntact
  ObjectsAccounted
PROPERTY ImplementsShelf
