CONSTANTS
  t1 = t1  t2 = t2  t3 = t3
  Task <- MCTask
  NoTask = NoTask
  MaxId = 1
SPECIFICATION Spec
INVARIANTS TimersSound
PROPERTIES ImplementsEventService EventsSettle
