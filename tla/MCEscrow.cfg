SPECIFICATION Spec
CONSTANTS
  CampaignIds = {k1}
  Admins = {adm}
  Farmers = {far}
  Investors = {i1, i2}
  Tokens = {usd}
  Registries = {reg}
  NoOne = NoOne
  Amounts <- SmallAmounts
  I64Max = 3
  I128Max = 9
  MaxTranches = 2
  MaxTime = 2
  MaxVault = 3
INVARIANTS
  TypeOK
  PoolsMatchStatus
  RecordsMatchStatus
  ContributionsBackTotal
  ClaimsWithinPool
  TrancheScheduleCovered
PROPERTIES
  NoLateFunding
  ImplementsLedger
CHECK_DEADLOCK FALSE
