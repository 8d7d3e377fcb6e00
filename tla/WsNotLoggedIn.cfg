\* The offline branch runs for a player who is connected.
SPECIFICATION Spec
CONSTANTS
  p1 = p1
  r1 = r1
  r2 = r2
  NoConn = NoConn
  NoRequest = NoRequest
  Conn = {c1, c2}
  Request = {r1}
  Player <- OnePlayer
  Owner <- OwnerOne
  Posts <- TwoPosts
  Settings <- OneOverlapping
  MayFail = FALSE
  MayCrash = FALSE
\* Connections run out, clients need not come back: the system may stop.
CHECK_DEADLOCK FALSE
INVARIANT SavedMeansNotLoggedIn
