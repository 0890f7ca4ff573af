----------------------------- MODULE RunLifecycle -----------------------------
(***************************************************************************)
(* What the status endpoint of a background run promises its clients: a    *)
(* run is queued, runs, and ends completed or failed; the process may stop *)
(* and forget it, but a run once reported completed stays completed.       *)
(***************************************************************************)
CONSTANT Runs

VARIABLE report \* what the status endpoint answers for each run

Reports == {"unknown", "queued", "running", "completed", "failed"}

Init == report = [r \in Runs |-> "unknown"]

Move(r, from, to) ==
  /\ report[r] = from
  /\ report' = [report EXCEPT ![r] = to]

Submit(r) == Move(r, "unknown", "queued")
Start(r) == Move(r, "queued", "running")
Complete(r) == Move(r, "running", "completed")
Fail(r) == Move(r, "running", "failed")

\* A run whose last step was done but not yet reported may come back completed.
Restart ==
  /\ report' \in [Runs -> {"unknown", "completed"}]
  /\ \A r \in Runs :
       /\ report[r] = "completed" => report'[r] = "completed"
       /\ report'[r] = "completed" => report[r] \in {"running", "completed"}

Next ==
  \/ \E r \in Runs : Submit(r) \/ Start(r) \/ Complete(r) \/ Fail(r)
  \/ Restart

Spec == Init /\ [][Next]_report
=============================================================================
