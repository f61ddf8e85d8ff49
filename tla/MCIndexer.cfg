SPECIFICATION IndexSpec
CONSTANTS
  CampaignIds = {k1}
  Admins = {adm}
  Farmers = {far}
  Investors = {i1}
  Tokens = {usd}
  Registries = {}
  NoOne = NoOne
  Amounts <- UpToTwo
  I64Max = 2
  I128Max = 4
  MaxTranches = 0
  MaxTime = 1
  MaxVault = 1
  Polls = {p1, p2}
  PageLimit = 1
  MaxPages = 3
  StartLedger = 1
  MaxEvents = 3
  MaxFaults = 0
  MaxCrashes = 1
SYMMETRY PollSymmetry
INVARIANTS
  AuditedMeansApplied
  CountedOnce
  NothingSkipped
  FaithfulWhenUndisturbed
CHECK_DEADLOCK FALSE
