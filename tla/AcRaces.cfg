\* One player, two logins that race and are repeated, bans and restarts.
SPECIFICATION Spec
CONSTANTS
  c1 = c1
  c2 = c2
  p1 = p1
  w1 = w1
  w2 = w2
  i1 = i1
  g1 = g1
  g2 = g2
  r1 = r1
  e1 = e1
  e2 = e2
  d0 = d0
  d1 = d1
  Player = {p1}
  Conn = {c1}
  Login = {l1, l2}
  Actor <- Threads
  Owner <- AllOfOne
  Default <- Defaults
  NoEdit = NoEdit
  LoadoutId = {w1}
  Loadout = {g1}
  Nobody = Nobody
  Context = {g1}
  Config = {g1}
  Rest = {r1}
  Endorsement = {e1}
  Discriminator = {d0}
  Item = {i1}
  Unknown = Unknown
  MaxRequests <- TwoAndOne
  NoPlayer = NoPlayer
  MaxLogins = 2
  MaxRestarts = 1
  MaxBans = 1
\* Everybody makes his requests and stops.
CHECK_DEADLOCK FALSE
INVARIANTS LinkedIsComplete NothingSavedIsLost
