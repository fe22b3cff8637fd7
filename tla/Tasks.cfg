SPECIFICATION Spec
CONSTANTS
  a = a
  b = b
  c = c
  d = d
  NoName = NoName
  Names = {a, b, c, d}
  Graphs <- MCGraphs
  Concurrency = 2
  Budget = 2
INVARIANTS
  SortSound
  PrerequisitesDelivered
  BlockedNamesCause
  NothingLeftOut
  ReadingOrder
PROPERTIES
  ImplementsTaskOrder
  ScheduleReturns
