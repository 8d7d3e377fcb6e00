\* One player reconnects while his earlier connections are still up or being torn down.
SPECIFICATION Spec
CONSTANTS
  p1 = p1
  r1 = r1
  r2 = r2
  NoConn = NoConn
  NoRequest = NoRequest
  Conn = {c1, c2, c3}
  Request = {r1}
  Player <- OnePlayer
  Owner <- OwnerOne
  Posts <- TwoPosts
  Settings <- OneOverlapping
  MayFail = TRUE
  MayCrash = TRUE
SYMMETRY ConnSymmetry
\* Connections run out, clients need not come back: the system may stop.
CHECK_DEADLOCK FALSE
INVARIANTS
  TypeOK
  SequenceNumbersUnique
  SequenceNumbersDense
  RoutesOnlyToLive
  ResponseBeforeItsNotifications
  AtMostOncePerConnection
  NotificationsInOrder
  SavedIsUnsent
PROPERTIES
  RouteKept
