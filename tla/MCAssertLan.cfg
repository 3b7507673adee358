SPECIFICATION FairSpec
CONSTANTS
  Routers = {1, 2}
  Downs = {3}
  Busy = {1}
  OneIif = {2}
  RpRank <- MCRpRank
  SrcRank <- MCSrcRank
  Mrib <- MCMrib
  DR = 2
  AssertTime = 3
  ResendTime = 2
  MaxQueue = 2
  Budgets <- MCBudgets
INVARIANTS
  SgLosersTrustAWinner
PROPERTIES
  DuplicatesEnd
  
  JoinsReachTheWinner
CHECK_DEADLOCK FALSE
