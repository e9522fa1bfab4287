SPECIFICATION Spec
CONSTANTS
  rats = rats
  dragon = dragon
  Raid = {rats, dragon}
  Repeated = {rats}
  Steps <- RaidSteps
  MaxLoads = 2
  MaxPath = 2
  MaxActs = 3
  Port = {game, login}
  MaxErrors = 2
  Block = {1, 2}
  BlockInterval <- Intervals
  Forcing = {1}
  RateSpawn = 1
  Monster = {m1, m2, m3}
  Timer = {save, raffle}
  Think = {imbue}
  FromLua = {raffle, imbue}
  MaxClears = 2
INVARIANTS RaidsSound WalkSound PortsSound SpawnsSound EventsSound
PROPERTIES AllEnd
CHECK_DEADLOCK FALSE
