CONSTANTS
  u1 = u1
  WordLength = 3
  MaxAttempts = 2
  Letters = {"A", "B", "C"}
  Words <- MCWords
  SignedOutAnswer = SignedOutAnswer
  NoRow = NoRow
  StatCap = 4
  Accounts = {u1, u2}
  Tabs = {t1}
  TargetOf <- MCTargetOf
  NoAccount = NoAccount
  NoGuess = NoGuess
  NoSnapshot = NoSnapshot
  MaxDay = 3
  MaxGiveUps = 1
  Elsewhere = {u1}
  MaxSignIns = 1
  Totals <- MCTotals
  MaxPosts = 2
  NoSave = NoSave
  MaxGames = 2
  MaxTime = 1
  MaxCuts = 1
  Cols = 3
  Rows = 3
  StartingLength = 2
  WordLengths = {1, 2}
  WordsToEndless = 2
  TierCount = 3
  DropTierCount = 2
  Jackpot = 9
  RefillSteps = 1
  GraceSteps = 1
  OverflowSteps = 1
  MaxDrops = 4
  Widths = {8, 16}
  BirdX <- MCBirdX
  FirstX <- MCFirstX
  Spacing <- MCSpacing
  GateCount = 4
  GateWidth = 1
  Radius = 0
  Margin = 1
  Moves = {1, 2}
  MaxScore = 5
  MaxResizes = 2
  Kinds = {"queued", "direct"}
  RunScores = {0, 5, 10}
  NoScoreRow = NoScoreRow
  MaxRuns = 2
  MaxInstant = 1
  MaxFaults = 1
SPECIFICATION MCSpec
INVARIANTS
  AnswersTruthful
  ScoresAccounted
  EnginesSound
  BoardsKeepScores
PROPERTIES
  PendingSettles
  BoardsOnlyGrow
\* A run that is over, and a bound that is used up, stop a game for good.
CHECK_DEADLOCK FALSE
