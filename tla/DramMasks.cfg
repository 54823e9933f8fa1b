SPECIFICATION Spec
CONSTANTS
  Attempts = 2  NumMrs = 1
  Sizes = {3}
  MaxMsgs = 1
INVARIANT MasksRestored
