SPECIFICATION ServicesSpec
CONSTANTS
  Port = {game}
  MaxErrors = 1
PROPERTY StartupEnds
CHECK_DEADLOCK FALSE
