\* Two threads that call anything, any statement may fail.
SPECIFICATION Spec
CONSTANTS
  Thread = {t1, t2}
  p1 = p1
  p2 = p2
  e1 = e1
  e2 = e2
  k1 = k1
  Player = {p1, p2}
  PartyId = {g1, g2}
  Ext = {e1}
  Code = {k1}
  NoThread = NoThread
  NoId = NoId
  NoPlayer = NoPlayer
  NoParty = NoParty
  NoRow = NoRow
  Null = Null
  DefaultExt = DefaultExt
  NoCode = NoCode
  MayFail = TRUE
  Drafts <- OneDraft
SYMMETRY AllSymmetry
INVARIANTS MembersColumnSet LockFollowsCalls CleanupIsComplete
