SPECIFICATION ThreadsSpec
CONSTANTS
    t1 = t1  t2 = t2  t3 = t3  p1 = p1  p2 = p2
    q1 = q1  q2 = q2  q3 = q3  n1 = n1
    Task <- MCTask
    Expiring <- MCExpiring
    Poster <- MCPoster
    GameShutdown = GameShutdown
    Terminator = Terminator
    Query <- MCQuery
    Network <- MCNetwork
    NoQuery = NoQuery
    DispatcherThread = DispatcherThread
INVARIANTS InOrder NoLostWakeup DrainedAtExit QueriesSound
PROPERTIES WorkEnds QueriesSettle
