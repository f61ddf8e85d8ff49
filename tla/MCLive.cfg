SPECIFICATION LiveSpec
CONSTANTS
  Campaigns = {c1}
  Clients = {browser, api}
  Browser = browser
  Subs = {s1, s2}
  AuthSecret = TRUE
  MaxNow = 1
  MaxChain = 2
  MaxPages = 2
  MaxWire = 2
INVARIANTS RoomsMatchPages ToldWhatIsCommitted TellingShows
PROPERTIES PrivateRoomsNeedLiveToken PagesJoinRooms
