SPECIFICATION GlobalSpec
CONSTANTS
  Timer = {save, raffle}
  Think = {imbue}
  FromLua = {raffle, imbue}
  MaxClears = 2
INVARIANTS TimersCome
CHECK_DEADLOCK FALSE
