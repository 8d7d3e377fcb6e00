\* Two connections that overlap, or follow one another with more requests; crashes, failures.
SPECIFICATION FairSpec
CONSTANTS
  p1 = p1
  r1 = r1
  r2 = r2
  NoConn = NoConn
  NoRequest = NoRequest
  Conn = {c1, c2}
  Request = {r1, r2}
  Player <- OnePlayer
  Owner <- OwnerOne
  Posts <- TwoAndOnePosts
  Settings <- OverlappingOrInARow
  MayFail = TRUE
  MayCrash = TRUE
\* Connections run out, clients need not come back: the system may stop.
CHECK_DEADLOCK FALSE
INVARIANTS
  NotificationsInOrder
PROPERTIES
  SavedUntilSent
  PostSendNotificationsFollow
  QueuedIsSent
  WorkerEndsAfterClose
