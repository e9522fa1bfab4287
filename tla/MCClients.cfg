SPECIFICATION ClientsSpec
CONSTANTS
  Message = {m1, m2}
  MaxTimeouts = 2
  p1 = p1  p2 = p2  Protocol = {p1, p2}
  Gone = Gone  anna = anna  o1 = o1  o2 = o2  o3 = o3
  BufferSize = 2
  MaxWrites = 3
  MaxLogins = 2
  Client = {r1, r2, r3, premium}  Premium = {premium}  MaxPlayers = 2
INVARIANTS ConnectionSound AutosendSound
PROPERTIES SilentPeersAreDropped Flushed NobodyOvertaken SessionsSettle
CHECK_DEADLOCK FALSE
