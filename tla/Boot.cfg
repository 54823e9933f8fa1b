SPECIFICATION MCSpec
CONSTANTS
  None = None  Gone = Gone
  Async = {a1, a2}  Sync = {s1}  Bytes = {a2}
  Attempts = 5  NumMrs = 7
  Sizes = {2, 3, 4, 5}
  MaxMsgs = 2
INVARIANTS TypesOK OneCommand OwnAnswer NoBareLock UsableWhenUsed SizeRight NoneLeftOver
PROPERTIES Recovers Returns Ends
