\* A player asks for his settings, or saves others and asks for them.
SPECIFICATION Spec
CONSTANTS
  Player = {p1}
  Config <- Short
  Default <- ResourceFile
INVARIANT HandedIsStored
