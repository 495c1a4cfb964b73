SPECIFICATION FairSpec
CONSTANT MaxTroubles = 4
CHECK_DEADLOCK FALSE
INVARIANTS
  TypeOK
  FewRestarts
PROPERTY CallComesBack
