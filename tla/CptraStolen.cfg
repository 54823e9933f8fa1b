SPECIFICATION Spec
CONSTANTS
  None = None  Gone = Gone
  Async = {a1, a2}  Sync = {}  Bytes = {a2}
PROPERTIES DrainedFirst
