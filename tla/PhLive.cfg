\* One player, two connections, restarts; or two players, whose parties may get one id, and
\* failing statements: nobody is left behind in a party, and every handler ends.
SPECIFICATION FairSpec
CONSTANTS
  p1 = p1
  p2 = p2
  c1 = c1
  c2 = c2
  k1 = k1
  k2 = k2
  Player = {p1, p2}
  Conn = {c1, c2}
  Settings <- OneOrEach
  Thread <- LoopsAndCleanups
  PartyId = {g1}
  Ext = {e1, e2}
  CreatedExt = e1
  Code = {k1, k2}
  NoThread = NoThread
  NoId = NoId
  NoPlayer = NoPlayer
  NoParty = NoParty
  NoRow = NoRow
  Null = Null
  DefaultExt = DefaultExt
  NoCode = NoCode
  MayFail = TRUE
\* Connections run out, clients need not come back: the system may stop.
CHECK_DEADLOCK FALSE
INVARIANTS HandlersTypeOK NoGhostMembers VersionNamesContents
PROPERTIES HandlersEnd LeaversLeaveTheirParties
