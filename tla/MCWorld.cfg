SPECIFICATION WorldSpec
CONSTANTS
  lit = lit  burnt = burnt  idle = idle
  Item = {i1, i2}
  Kind = {lit, burnt, idle}
  Time <- Times
  To <- NextKind
  Worn <- AsWorn
  Stop = {idle}
  Gone = gone
  Never = never
  Left = {1400}
  MaxRefs = 3
  Player = {ann, ben, cid, dan}
  Address = {x, y, z}
  None = None
  hero = hero  rat = rat  wolf = wolf  nobody = nobody
  Acts = 5
INVARIANTS DecaySound PartiesSound CreaturesSound
SYMMETRY Exchanges
CHECK_DEADLOCK FALSE
