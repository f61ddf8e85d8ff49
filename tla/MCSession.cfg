SPECIFICATION SessionSpec
CONSTANTS
  Ids = {c1, c2}
  Owners = {f1, f2}
  Officers = {}
  Escrow = esc
  Contracts = {esc}
  Nobody = Nobody
  Statuses = {"Active"}
  Actions = {}
  PageSize = 2
  MaxLog = 0
  MaxSwitches = 1
  MaxLost = 1
SYMMETRY SessionSymmetry
INVARIANTS DisconnectLasts OneCampaignPerVisit RegistrationFollowsCreation IntegratedCreatesNothing
