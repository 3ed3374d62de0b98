SPECIFICATION FairServiceSpec
CONSTANTS
  Files <- MCFiles
  Envs <- MCEnvs
  MaxSignals = 3
INVARIANTS TidyExit AcceptedBuilds OverridesHarmless
PROPERTIES SignalEnds
CHECK_DEADLOCK FALSE
