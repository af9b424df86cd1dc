--------------------------- MODULE MCOdinEngine ---------------------------
(***************************************************************************)
(* Small instances of OdinEngine for TLC: the dependency graphs, and a     *)
(* view of the state that makes the ever-growing dates finite.             *)
(***************************************************************************)
EXTENDS OdinEngine, TLC

CONSTANTS s1, s2, f1, f2, f3, c1, c2

\* f1 from s1; f2 from f1.
LineInputs == (f1 :> {s1}) @@ (f2 :> {f1})
\* f1 from s1; f2 from f1 and s2.
ChainInputs == (f1 :> {s1}) @@ (f2 :> {f1, s2})
\* f1 from s1, f2 from s2, f3 from both.
JoinInputs == (f1 :> {s1}) @@ (f2 :> {s2}) @@ (f3 :> {f1, f2})

(***************************************************************************)
(* The dates are compared with each other, with 0 and with 1, and new ones *)
(* are larger than all of them.  So a state is determined up to            *)
(* bisimulation by the rank of each modification date, and by which files  *)
(* were verified since VerifyDate and since PendingDate.                   *)
(***************************************************************************)
Image(d, F) == {d[f] : f \in F}
Rank(D, d) == Cardinality({x \in D \cup {0, 1} : x < d})
RankedBy(D, d) == [f \in DOMAIN d |-> Rank(D, d[f])]

DateView ==
  LET deps == [f \in Derived |-> IF Dispatched(f) THEN DepModDate[f] ELSE 0]
      D == Image(ModDate, Files) \cup Image(ConfirmDate, Derived) \cup Image(deps, Derived)
  IN <<RankedBy(D, ModDate), RankedBy(D, ConfirmDate), RankedBy(D, deps),
       {f \in Files : FileVerify[f] >= VerifyDate},
       {f \in Files : FileVerify[f] >= PendingDate}>>

SavedView ==
  LET D == Image(saved.ModDate, Files) \cup Image(saved.ConfirmDate, Derived)
  IN <<saved.seen, saved.Status, saved.ErrStatus,
       RankedBy(D, saved.ModDate), RankedBy(D, saved.ConfirmDate),
       {f \in Files : saved.FileVerify[f] >= saved.VerifyDate}>>

View == <<disk, seen, data, Status, ErrStatus, DepStatus, DateView, ToBroadcast,
          jobVars, clientVars, loopVars, SavedView>>
=============================================================================
