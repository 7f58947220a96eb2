CONSTANTS
  Calls = {c1, c2}
  Orders <- MCOrders
  MaxCodes = 3
  MaxSends = 2
  Helpers = {h1, h2}
  MaxStrays = 2
  MaxAttempts = 3
  Assets = {a1, a2}
  DefaultAsset = a1
  NoAsset = NoAsset
  MaxGeneration = 2
  MaxUnderway = 3
  Quantities = {1, 2}
  MaxOrders = 2
  Queries = {"", "a", "b"}
  Classes = {"stock", "fund"}
  MaxSearches = 4
  Jobs = {j1, j2}
  MaxLogin = 3
  MaxChecks = 2
  Posts = {p1, p2}
  Triggers = {"schedule", "workflow_dispatch"}
  MaxRunAttempts = 2
  Requested <- MCRequested
  Outcomes <- MCOutcomes
  Publish = "publish"
  MAX_FAILURES = 1
  NoReport = NoReport
SYMMETRY Symmetric
SPECIFICATION ToolsSpec
INVARIANTS
  SentAsConfirmed
  KeptAlive
  QrNeverStuck
  DashboardHasSession
  ShownIsSelected
  NothingSentTrue
  ResultsMatchQuery
  LatestCovers
PROPERTIES
  AnsweredIsStored
  BadgeTruthful
  ApprovalInWindow
  SecretMovesForward
