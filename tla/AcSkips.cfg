\* One player who updates his items.
SPECIFICATION Spec
CONSTANTS
  c1 = c1
  c2 = c2
  p1 = p1
  w1 = w1
  w2 = w2
  i1 = i1
  g1 = g1
  g2 = g2
  r1 = r1
  e1 = e1
  e2 = e2
  d0 = d0
  d1 = d1
  Player = {p1}
  Conn = {c1}
  Login = {l1}
  Actor <- Threads
  Owner <- AllOfOne
  Default <- Defaults
  NoEdit = NoEdit
  LoadoutId = {w1, w2}
  Loadout = {g1, g2}
  Nobody = Nobody
  Context = {g1, g2}
  Config = {g1, g2}
  Rest = {r1}
  Endorsement = {e1, e2}
  Discriminator = {d0, d1}
  Item = {i1}
  Unknown = Unknown
  MaxRequests <- OneForEach
  NoPlayer = NoPlayer
  MaxLogins = 1
  MaxRestarts = 0
  MaxBans = 0
CHECK_DEADLOCK FALSE
INVARIANTS OnlyMissingItemsAreSkipped
