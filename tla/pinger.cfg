SPECIFICATION FairSpec
CONSTANTS
  N = 2
  MaxRetries = 2
  TimeoutPerRetry = 2
  Step = 1
  FirstSequence = 4
  SeqMod = 6
  Memory = 2
  Spurious = TRUE
  MaxLag = 2
  MaxLead = 2
VIEW View
INVARIANTS TypeOK IteratorsValid NoOversleep AnswersOwn
PROPERTIES ImplementsPing PingEnds StopReturns
