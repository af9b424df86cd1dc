---------------------------- MODULE OdinStatus ----------------------------
(***************************************************************************)
(* The update status of a file in the Odin cache (odin/inc/Status_.h) and  *)
(* the two pure functions on it that decide what a build step does.  The   *)
(* codes are ordered: a file is "done" above STAT_Busy, and usable as the  *)
(* input of a tool above STAT_Error.                                       *)
(***************************************************************************)
EXTENDS FiniteSetsExt

STAT_Unknown     == 1
STAT_Pending     == 2
STAT_Ready       == 3
STAT_Busy        == 4
STAT_SysAbort    == 5
STAT_NoFile      == 6
STAT_Circular    == 7
STAT_ElmCircular == 8
STAT_Error       == 9
STAT_TgtValError == 10
STAT_Warning     == 11
STAT_OK          == 12

Statuses == STAT_Unknown .. STAT_OK

Is_PendingReadyOrBusy_Status(st) == st \in {STAT_Pending, STAT_Ready, STAT_Busy}

\* The status an external tool's output inherits from the minimum status of
\* its inputs: wait for unfinished ones, refuse to run on failed ones.
Get_ToolStatus(st) ==
  IF Is_PendingReadyOrBusy_Status(st) THEN STAT_Pending
  ELSE IF st > STAT_Error THEN st ELSE STAT_SysAbort

=============================================================================
