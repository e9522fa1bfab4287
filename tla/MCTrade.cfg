CONSTANTS
  ann = ann  ben = ben  cid = cid
  helmet = helmet  bag = bag  pouch = pouch  gold1 = gold1  gold2 = gold2
  head = head  back = back  left = left
  Player <- ThreePlayers
  Item <- Items
  Container <- Containers
  Stackable <- Gold
  Capacity = 1
  Slot <- Slots
  Fits <- MCFits
  SlotType <- MCSlotType
  Backpack = back
  None = None
  neck = neck  right = right
  ringOff = ringOff  ringOn = ringOn  bareRing = bareRing
  charmOff = charmOff  charmOn = charmOn  charm = charm  helmOn = helmOn  helm = helm
  sword = sword  blade = blade  mace = mace  spears = spears
  MaxLevel = 2
  MaxSpeed = 4
  Gone = Gone
SPECIFICATION GoodsSpec
CHECK_DEADLOCK FALSE
SYMMETRY PlayerSymmetry
INVARIANTS TradesSound EquipmentSound
PROPERTIES FailedTradeMovesNothing
