SPECIFICATION HistorySpec
CONSTANTS
  c1 = c1  c2 = c2  p1 = p1  n1 = n1  n2 = n2  n3 = n3  al1 = al1
  None = None
  Subjects = {1, 2, 3}
  Cases = {c1, p1}
  Allegations = {}
  Networks = {n1}
  NetworkType <- OnlyEmployer
  SharedEvidence <- TriangleShared
  NetworkEvidence <- TriangleShared
  SplitEvidence <- NoPairs
  GuiltyEvidence = {}
  HubEvidence = {}
  AttributedTo = {}
  WageEvidence = {}
  AllegationCase <- NoAllegationCase
  LoadedIn <- ChainLoaded
  MergedInto = {}
  PrimaryOf <- CouplePrimary
  OpenCases = {c1}
  FastTrackable = {c1}
  Scope <- Everyone
  EnabledRules = {"Rule_01", "Rule_02"}
  Investigators = {i1, i2}
  Runners = {w1}
  Reviewable = {"Rule_01", "Rule_02"}
  Operations = {"reject"}
  MaxWalkDepth = 2
  MaxRequests = 3
  MaxRuns = 1
  MaxFailures = 0
INVARIANTS MembershipsFounded
CHECK_DEADLOCK FALSE
