SPECIFICATION IndexSpec
CONSTANTS
  CampaignIds = {k1}
  Admins = {adm}
  Farmers = {far}
  Investors = {i1}
  Tokens = {usd}
  Registries = {}
  NoOne = NoOne
  Amounts <- UpToTwo
  I64Max = 2
  I128Max = 4
  MaxTranches = 0
  MaxTime = 1
  MaxVault = 0
  Polls = {p1}
  PageLimit = 1
  MaxPages = 3
  StartLedger = 1
  MaxEvents = 4
  MaxFaults = 0
  MaxCrashes = 0
INVARIANT
  TotalMatchesEscrow
CHECK_DEADLOCK FALSE
