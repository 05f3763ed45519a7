SPECIFICATION MCSpec
CONSTANTS
  k1 = k1  k2 = k2  k3 = k3  k4 = k4
  e1 = e1  e2 = e2  e3 = e3  e4 = e4
  Undefined = Undefined
  Key <- MCKey
  Entry <- MCEntry
  Value <- MCValue
  Truthy <- MCTruthy
  MaxLimit = 3
INVARIANTS WellFormed IterationSound NoOrphansAsUsed
PROPERTY ImplementsContract
