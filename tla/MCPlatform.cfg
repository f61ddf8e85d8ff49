SPECIFICATION ReconcilingSpec
CONSTANTS
  CampaignIds = {k1}
  Admins = {adm}
  Farmers = {f1, f2}
  Investors = {i1}
  Tokens = {usd}
  Registries = {reg}
  NoOne = NoOne
  Amounts <- UpToTwo
  I64Max = 2
  I128Max = 4
  MaxTranches = 0
  MaxTime = 2
  MaxVault = 1
  RegistryAdmins = {off}
  Escrow = esc
  OtherContracts = {oth}
  Reportable = {"Active", "Funded", "Settled"}
  PageSize = 2
  MaxLog = 0
INVARIANTS
  MirrorLagsOnlyInFunding
  LinkedFarmersAgree
  LogTellsLifecycle
PROPERTY
  DriftHeals
