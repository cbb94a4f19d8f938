\* One registration, two kinds of events, two workers, one fault, one edit.
SPECIFICATION FairSpec
CONSTANTS
  h1 = h1  w1 = w1  w2 = w2  a = a  b = b
  Kind = {a, b}
  Hook = {h1}
  Worker = {w1, w2}
  Faulty = {w1}
  Filters <- TwoFilters
  MaxEvents = 2
  PerPass = 1
  MaxFaults = 1
  MaxEdits = 1
INVARIANTS TypeOK NothingSkipped
PROPERTIES FirstInOrder RepeatsNeedFaults OwedAccepted
