SPECIFICATION Spec
CONSTANTS
  Directions = {"SIF0"}
  FifoSize = 4
  Chains <- EndChains
INVARIANTS
  StopsOnTag
