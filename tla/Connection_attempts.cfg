SPECIFICATION FairSpec
CONSTANTS
  MaxTries = 3
INVARIANTS
  TypeOK NothingForgotten Released
PROPERTIES
  BoundedPhasesEnd
