SPECIFICATION RegistryIndexSpec
CONSTANTS
  Ids = {c1, c2}
  Owners = {f1}
  Officers = {off}
  Escrow = esc
  Contracts = {esc, oth}
  Nobody = Nobody
  Statuses = {"Funded", "Failed"}
  Actions = {"FarmerRegistered"}
  PageSize = 2
  MaxLog = 3
  Titles = {"Maize"}
  Names = {"CampaignFunded"}
  NoText = NoText
SYMMETRY RegistrySymmetry
INVARIANTS
  ListsMatchRecords
  IndexFollowsRecord
  RowsMatchRegistration
  WireAgrees
PROPERTY
  LogOnlyGrows
