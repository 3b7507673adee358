SPECIFICATION FairSpec
CONSTANTS
  Downs = {d1, d2}
  Up = u
  Full = {d2}
  Prop = 1
  Override = 2
  Period = 5
  Suppress = {6}
  Hold = 14
  MaxChanges = 4
  MaxLosses = 1
INVARIANTS TypeOK WantedIsForwarded WantedSourceIsForwarded ShortGap
PROPERTY EndsAsAsked
