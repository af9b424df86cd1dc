SPECIFICATION Spec
CONSTANTS
  s1 = s1  s2 = s2  f1 = f1  f2 = f2  f3 = f3  c1 = c1  c2 = c2
  NIL = NIL
  Sources = {s1, s2}
  Derived = {f1, f2, f3}
  Inputs <- JoinInputs
  Stable = {}
  Clients = {c1}
  JobIDs = {1, 2, 3}
  MaxJobs = 1
  KeepGoing = FALSE
  VerifyLevel = 0
  Absent = {}
  MaxVersion = 0
  Outcomes = {"ok"}
  MayInterrupt = {c1}
  MayDie = {}
  MayCrash = TRUE
VIEW View
INVARIANTS DispatchedDepOK
