SPECIFICATION ViewSpec
CONSTANTS
  CampaignIds = {k1}
  Admins = {adm}
  Farmers = {far}
  Investors = {i1, i2}
  Tokens = {usd}
  Registries = {}
  NoOne = NoOne
  Amounts <- UpToThree
  I64Max = 3
  I128Max = 9
  MaxTranches = 1
  MaxTime = 2
  MaxVault = 1
  Polls = {}
  PageLimit = 1
  MaxPages = 3
  StartLedger = 1
  MaxEvents = 8
  MaxFaults = 0
  MaxCrashes = 0
  Lookback = 5
  LoadCap = 6
  MaxSafe = 2
INVARIANTS
  AnalyticsFollowContract
  PortfolioNeverOverstates
  ClaimButtonsTruthful
  FormsMatchContract
  AdminPanelMatchesContract
PROPERTIES
  StepperMovesForward
  MutationsRefresh
CHECK_DEADLOCK FALSE
