SPECIFICATION Spec
CONSTANTS
  s1 = s1  s2 = s2  f1 = f1  f2 = f2  f3 = f3  c1 = c1  c2 = c2
  NIL = NIL
  Sources = {s1}
  Derived = {f1, f2}
  Inputs <- LineInputs
  Stable = {f1}
  Clients = {c1, c2}
  JobIDs = {1, 2}
  MaxJobs = 2
  KeepGoing = TRUE
  VerifyLevel = 1
  Absent = {1}
  MaxVersion = 2
  Outcomes = {"ok", "error"}
  MayInterrupt = {c1}
  MayDie = {c2}
  MayCrash = FALSE
VIEW View
INVARIANTS BusyHasOneJob JobHasRequest DispatchedDepOK InputsUsable
