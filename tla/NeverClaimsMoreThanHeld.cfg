SPECIFICATION Spec
CONSTANTS
  CampaignIds = {k1, k2}
  Admins = {adm}
  Farmers = {far}
  Investors = {i1}
  Tokens = {usd, eur}
  Registries = {}
  NoOne = NoOne
  Amounts <- PairAmounts
  I64Max = 2
  I128Max = 4
  MaxTranches = 0
  MaxTime = 1
  MaxVault = 1
INVARIANT
  NeverClaimsMoreThanHeld
CHECK_DEADLOCK FALSE
