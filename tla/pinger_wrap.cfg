SPECIFICATION Spec
CONSTANTS
  N = 2
  MaxRetries = 2
  TimeoutPerRetry = 2
  Step = 1
  FirstSequence = 4
  SeqMod = 6
  Memory = 2
  Spurious = TRUE
  MaxLag = 0
  MaxLead = 1
VIEW View
INVARIANT AnswerCounts
