SPECIFICATION Spec
CONSTANTS
  Workers = {w1, w2}
  Groups = 5
  Updates = 4
  MaxFaults = 2
INVARIANTS UpdatesAnchored
PROPERTIES CloseDrains
CHECK_DEADLOCK FALSE
