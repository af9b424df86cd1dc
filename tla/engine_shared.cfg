SPECIFICATION FairSpec
CONSTANTS
  s1 = s1  s2 = s2  f1 = f1  f2 = f2  f3 = f3  c1 = c1  c2 = c2
  NIL = NIL
  Sources = {s1}
  Derived = {f1, f2}
  Inputs <- LineInputs
  Stable = {}
  Clients = {c1, c2}
  JobIDs = {1, 2}
  MaxJobs = 2
  KeepGoing = TRUE
  VerifyLevel = 0
  Absent = {1}
  MaxVersion = 1
  Outcomes = {"ok"}
  MayInterrupt = {c2}
  MayDie = {c2}
  MayCrash = TRUE
VIEW View
INVARIANTS BusyHasOneJob
PROPERTIES RequestsEnd
