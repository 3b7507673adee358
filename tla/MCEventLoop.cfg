CONSTANTS
  TIMER_INTERVAL = 2
  Delays = {4}
  Rearms = {1}
  Handles = {1, 2, 3, 4}
  Lag = 1
SPECIFICATION Spec
INVARIANTS  NeverLate
PROPERTIES EarlyByASleepAtMost ImplementsAgenda EveryCalloutRuns 
