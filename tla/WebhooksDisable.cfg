\* An administrator disables a registration while a pass works on it.
SPECIFICATION Spec
CONSTANTS
  h1 = h1  w1 = w1  w2 = w2  a = a  b = b
  Kind = {a, b}
  Hook = {h1}
  Worker = {w1, w2}
  Faulty = {w1}
  Filters <- OneFilter
  MaxEvents = 2
  PerPass = 1
  MaxFaults = 0
  MaxEdits = 1
PROPERTY DisableHolds
