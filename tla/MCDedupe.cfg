CONSTANTS
  EventId = {e1, e2, e3, e4}
  Capacity = 2
  MaxAccepted = 7
SPECIFICATION Spec
INVARIANTS SetMatchesQueue RetriesDropped
PROPERTY ImplementsWindow
