------------------------------ MODULE ChildRun ------------------------------
(***************************************************************************)
(* One evaluation run as a campaign sees it: a directory that is created   *)
(* once, the status in its state.json, and how the call of run_job ended.  *)
(* Campaign takes these steps for its child runs; RunJob implements them.  *)
(***************************************************************************)

VARIABLES dir,    \* what the run's directory holds
          ended   \* how run_job ended, if it has

childVars == <<dir, ended>>

FinalStates == {"completed", "partial"}
RunStates == {"absent", "empty", "running", "torn"} \cup FinalStates

ChildInit == dir \in RunStates /\ ended = "no"

\* The directory is created by this run or by nobody else.
Create ==
  /\ ended = "no"
  /\ dir = "absent"
  /\ dir' = "empty"
  /\ UNCHANGED ended

Open ==
  /\ ended = "no"
  /\ dir = "empty"
  /\ dir' = "running"
  /\ UNCHANGED ended

Finish ==
  /\ ended = "no"
  /\ dir = "running"
  /\ dir' \in FinalStates
  /\ UNCHANGED ended

\* A run returns only with a final status, and raises with whatever there is.
Return ==
  /\ ended = "no"
  /\ dir \in FinalStates
  /\ ended' = "returned"
  /\ UNCHANGED dir

Raise ==
  /\ ended = "no"
  /\ ended' = "raised"
  /\ UNCHANGED dir

\* A kill ends the run; one in the middle of a write leaves the file torn.
Kill ==
  /\ ended = "no"
  /\ ended' = "killed"
  /\ dir' = dir \/ (dir \in {"empty", "running"} /\ dir' = "torn")

ChildNext == Create \/ Open \/ Finish \/ Return \/ Raise \/ Kill

ChildSpec == ChildInit /\ [][ChildNext]_childVars
=============================================================================
