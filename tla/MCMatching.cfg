SPECIFICATION FairSpec
CONSTANTS
  Inputs <- SomeInputs
  Budgets = {12, 27}
CHECK_DEADLOCK FALSE
INVARIANTS
  TypeOK
  GreedyNeedsNoMore
  CheapestOfAll
  ProvedCheapest
PROPERTIES
  Terminates
