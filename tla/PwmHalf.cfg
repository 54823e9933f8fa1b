SPECIFICATION Spec
CONSTANTS
  Clock = 20000  Period = 256  DivMax = 15  Threshold = 1023  Minute = 60
  Percents = {0, 50}  Targets = {10}
  Rpms = {1000}  Pulses = {1}
INVARIANT HalfAfterFrequency
