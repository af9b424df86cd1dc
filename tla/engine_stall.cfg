SPECIFICATION FairSpec
CONSTANTS
  s1 = s1  s2 = s2  f1 = f1  f2 = f2  f3 = f3  c1 = c1  c2 = c2
  NIL = NIL
  Sources = {s1}
  Derived = {f1, f2}
  Inputs <- LineInputs
  Stable = {}
  Clients = {c1, c2}
  JobIDs = {1, 2}
  MaxJobs = 2
  KeepGoing = FALSE
  VerifyLevel = 2
  Absent = {}
  MaxVersion = 0
  Outcomes = {"ok"}
  MayInterrupt = {}
  MayDie = {}
  MayCrash = FALSE
VIEW View
PROPERTIES RequestsEnd
