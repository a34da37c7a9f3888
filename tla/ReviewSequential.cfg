SPECIFICATION HistorySpec
CONSTANTS
  c1 = c1  c2 = c2  p1 = p1  n1 = n1  n2 = n2  n3 = n3  al1 = al1
  None = None
  Subjects = {1, 2}
  Cases = {c1, c2, p1}
  Allegations = {}
  Networks = {n1}
  NetworkType <- OnlyEmployer
  SharedEvidence <- CoupleShared
  NetworkEvidence <- CoupleShared
  SplitEvidence <- NoPairs
  GuiltyEvidence <- CoupleGuilty
  HubEvidence = {}
  AttributedTo = {}
  WageEvidence = {}
  AllegationCase <- NoAllegationCase
  LoadedIn <- TwoCasesLoaded
  MergedInto = {}
  PrimaryOf <- TwoCasesPrimary
  OpenCases = {c1, c2}
  FastTrackable = {c1}
  Scope <- Everyone
  EnabledRules = {"Rule_01", "Rule_02", "Rule_07", "Rule_08"}
  Investigators = {i1}
  Runners = {w1}
  Reviewable = {"Rule_01", "Rule_02", "Rule_07", "Rule_08"}
  Operations = {"reject", "revert"}
  MaxWalkDepth = 2
  MaxRequests = 4
  MaxRuns = 1
  MaxFailures = 0
INVARIANTS TypeOK EscalationsFounded VetoesMatchVerdicts
PROPERTIES ManualRejectionOutlivesCascade
CHECK_DEADLOCK FALSE
