SPECIFICATION FairSpec
CONSTANTS
  h1 = h1
  Local = Local
  Hosts = {h1}
  Layouts <- SlotLayouts
  MaxBuilds = 2
  JobIDs = {1, 2}
  Pids = {1, 2, 3}
  BoolBytes = 1
  MaxJobNum = 3
INVARIANTS TypeOK ChildrenKnown AnswersMatch AnsweredIsOver OnlyAbortedHit
PROPERTIES ImplementsJobs BuildsAnswered
ACTION_CONSTRAINT LowestPid
VIEW View
CHECK_DEADLOCK FALSE
