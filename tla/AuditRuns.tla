------------------------------ MODULE AuditRuns ------------------------------
(***************************************************************************)
(* The audit runs of the API: POST /v1/audits/run hands out an id and       *)
(* leaves the work to a background task, which writes the documents of the  *)
(* run to a directory of that id and then publishes how it ended.  What a   *)
(* run's status is, only the memory of the process knows; what it left on   *)
(* disk stays.                                                              *)
(***************************************************************************)
EXTENDS FiniteSets

CONSTANTS
    Runs,      \* ids the server can hand out
    NoRun,     \* no run, or an id that is nobody's
    Recipes    \* what the recipes there are export

Exports   == {"graph", "sop"}
Dashboard == "dashboard"
Documents == Exports \cup {Dashboard}

ASSUME RunAssumption ==
    /\ NoRun \notin Runs
    /\ Recipes \subseteq SUBSET Exports

VARIABLES
    status,    \* _run_status, and whether the id was handed out at all
    exports,   \* what the recipe of the run exports
    written,   \* what there is in the directory of the run, written in full
    partial    \* whether what is due there has been opened and not filled

runs == <<status, exports, written, partial>>

(* "forgotten" is an id that a process before a restart handed out: the     *)
(* status endpoint knows it no more than an unused one.                     *)
Statuses == {"unused", "running", "completed", "failed", "forgotten"}

RunTypes ==
    /\ status \in [Runs -> Statuses]
    /\ exports \in [Runs -> SUBSET Exports]
    /\ written \in [Runs -> SUBSET Documents]
    /\ partial \in [Runs -> BOOLEAN]

RunInit ==
    /\ status = [r \in Runs |-> "unused"]
    /\ exports = [r \in Runs |-> {}]
    /\ written = [r \in Runs |-> {}]
    /\ partial = [r \in Runs |-> FALSE]

----------------------------------------------------------------------------
(* run_audit_endpoint                                                       *)
Submit(r, what) ==
    /\ status[r] = "unused"
    /\ status' = [status EXCEPT ![r] = "running"]
    /\ exports' = [exports EXCEPT ![r] = what]
    /\ UNCHANGED <<written, partial>>

(* run_audit, in the order of its code: what the recipe exports, and then   *)
(* the dashboard.  Documents that no page asks for are left out.            *)
Due(r) ==
    IF "graph" \in exports[r] \ written[r] THEN "graph"
    ELSE IF "sop" \in exports[r] \ written[r] THEN "sop"
    ELSE Dashboard

(* write_text opens the file, which empties it, and then fills it; whoever  *)
(* reads in between finds a part, and so does everybody for good if the run *)
(* ends there.                                                              *)
Truncate(r) ==
    /\ status[r] = "running"
    /\ Dashboard \notin written[r] /\ ~partial[r]
    /\ partial' = [partial EXCEPT ![r] = TRUE]
    /\ UNCHANGED <<status, exports, written>>

Write(r) ==
    /\ status[r] = "running"
    /\ partial[r]
    /\ written' = [written EXCEPT ![r] = @ \cup {Due(r)}]
    /\ partial' = [partial EXCEPT ![r] = FALSE]
    /\ UNCHANGED <<status, exports>>

MUT_Complete_BeforeDashboard(r) ==
    /\ status[r] = "running"
    /\ Due(r) = Dashboard
    /\ status' = [status EXCEPT ![r] = "completed"]
    /\ UNCHANGED <<exports, written, partial>>

Complete(r) ==
    /\ status[r] = "running"
    /\ Dashboard \in written[r]
    /\ status' = [status EXCEPT ![r] = "completed"]
    /\ UNCHANGED <<exports, written, partial>>

(* A path outside of the working directory, a recipe that cannot be loaded, *)
(* or an exception anywhere in run_audit, the saving of its manifest after  *)
(* the dashboard included.                                                  *)
Fail(r) ==
    /\ status[r] = "running"
    /\ status' = [status EXCEPT ![r] = "failed"]
    /\ UNCHANGED <<exports, written, partial>>

(* The process ends with its background tasks, and another one begins.      *)
Restart ==
    /\ status' = [r \in Runs |-> IF status[r] = "unused" THEN "unused" ELSE "forgotten"]
    /\ UNCHANGED <<exports, written, partial>>

RunNext ==
    \/ \E r \in Runs : \/ \E what \in Recipes : Submit(r, what)
                       \/ Truncate(r) \/ Write(r) \/ Complete(r) \/ Fail(r)
    \/ Restart

----------------------------------------------------------------------------
(* A GET of a document answers by what is in the directory of the id alone. *)
(* A part of a graph or of a dashboard cannot be parsed, which is an error  *)
(* like any other; a part of an SOP is a text.                              *)
Found(r, document) == r \in Runs /\ document \in written[r]
FoundInPart(r, document) == r \in Runs /\ partial[r] /\ document = Due(r)

(* A run that is reported as completed has everything its recipe exports,   *)
(* and its dashboard, and nothing of it in part.                            *)
CompletedHasResults ==
    \A r \in Runs : status[r] = "completed" =>
        exports[r] \cup {Dashboard} \subseteq written[r] /\ ~partial[r]
=============================================================================
