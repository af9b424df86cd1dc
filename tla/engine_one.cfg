SPECIFICATION FairSpec
CONSTANTS
  s1 = s1  s2 = s2  f1 = f1  f2 = f2  f3 = f3  c1 = c1  c2 = c2
  NIL = NIL
  Sources = {s1, s2}
  Derived = {f1, f2}
  Inputs <- ChainInputs
  Stable = {}
  Clients = {c1}
  JobIDs = {1, 2}
  MaxJobs = 2
  KeepGoing = FALSE
  VerifyLevel = 2
  Absent = {}
  MaxVersion = 1
  Outcomes = {"ok", "warning", "error", "nofile", "abort"}
  MayInterrupt = {c1}
  MayDie = {}
  MayCrash = FALSE
VIEW View
INVARIANTS TypeOK DoneIsFresh NoStall FreshReply
PROPERTIES RequestsEnd
