SPECIFICATION HistorySpec
CONSTANTS
  c1 = c1  c2 = c2  p1 = p1  n1 = n1  n2 = n2  n3 = n3  al1 = al1
  None = None
  Subjects = {1, 2}
  Cases = {c1, c2, p1}
  Allegations = {al1}
  Networks = {n2}
  NetworkType <- SplitType
  SharedEvidence <- NoPairs
  NetworkEvidence <- NoPairs
  SplitEvidence <- SplitPairs
  GuiltyEvidence <- CoupleGuilty
  HubEvidence = {1}
  AttributedTo <- WagePair
  WageEvidence <- WagePair
  AllegationCase <- NoAllegationCase
  LoadedIn <- MergeLoaded
  MergedInto <- MergePair
  PrimaryOf <- CouplePrimary
  OpenCases = {c1}
  FastTrackable = {c1}
  Scope <- Everyone
  EnabledRules = {"Rule_07", "Rule_08", "Rule_09", "Rule_10", "Rule_11", "Rule_12", "Rule_13"}
  Investigators = {i1}
  Runners = {w1}
  Reviewable = {"Rule_07", "Rule_08", "Rule_09", "Rule_10", "Rule_11", "Rule_12", "Rule_13"}
  Operations = {"reject", "revert"}
  MaxWalkDepth = 2
  MaxRequests = 2
  MaxRuns = 2
  MaxFailures = 0
PROPERTIES RunsRespectReview
CHECK_DEADLOCK FALSE
