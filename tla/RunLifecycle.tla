---------------------------- MODULE RunLifecycle ----------------------------
(***************************************************************************)
(* What scan_history promises about a run: its row is created once, as       *)
(* "running", and is settled once, to one of the three terminal statuses.    *)
(***************************************************************************)
CONSTANT Runs
VARIABLE status

Outcomes == {"completed", "failed", "stopped"}

Init == status = [r \in Runs |-> "absent"]

Begin(r) ==
  /\ status[r] = "absent"
  /\ status' = [status EXCEPT ![r] = "running"]

Settle(r) ==
  /\ status[r] = "running"
  /\ \E o \in Outcomes : status' = [status EXCEPT ![r] = o]

Next == \E r \in Runs : Begin(r) \/ Settle(r)

Spec == Init /\ [][Next]_status
=============================================================================
