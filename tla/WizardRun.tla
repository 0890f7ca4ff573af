------------------------------ MODULE WizardRun ------------------------------
(***************************************************************************)
(* Execution of wizard runs: wizard/executor.py behind the endpoints of    *)
(* api/routers/wizard.py, and the progress page that polls them            *)
(* (frontend StepRunProgress.tsx).                                         *)
(*                                                                         *)
(* A run is a daemon thread of the API process.  Its status lives in the   *)
(* process (_WIZARD_RUNS); its outputs and wizard_meta.json are files of   *)
(* its own directory, and after a restart the status is read back from     *)
(* wizard_meta.json.  The thread is cut at every file it writes and at     *)
(* every status it publishes; the status endpoints read in one step, the   *)
(* results endpoint in two.  Run ids are fresh, so that no two runs share  *)
(* a directory.                                                            *)
(***************************************************************************)
EXTENDS Naturals, Sequences

CONSTANTS
  Runs,    \* ids new_run_id can return
  Formats, \* kinds of plan submitted
  Faults   \* what may go wrong

ASSUME KnownFormats == Formats \subseteq {"tabular", "xapi"}

\* "input": a missing or unreadable dataset or recipe; "disk": a file cannot be
\* written; "mkdir": the run's directory cannot be made; "crash": the process
\* stops and is started again; "network": a request for the status is lost.
ASSUME KnownFaults == Faults \subseteq {"input", "disk", "mkdir", "crash", "network"}

VARIABLES
  format,  \* kind of each run's plan, "none" before it is submitted
  memory,  \* status in _WIZARD_RUNS, "absent" without an entry
  worker,  \* how far each run's thread is
  written, \* how many of its outputs it has written
  meta,    \* its wizard_meta.json
  page,    \* the progress page that polls the run
  results  \* a request for its results

vars == <<format, memory, worker, written, meta, page, results>>

\* What each pipeline writes, in order.  "profiles" stands for the schema,
\* descriptive, temporal, concentration, coverage and fairness reports.
Outputs(f) ==
  IF f = "tabular"
    THEN <<"profiles", "metrics", "privacy_report", "data_card",
           "compliance_graph", "SOP">>
    ELSE <<"privacy_report", "normalized", "profiles", "metrics", "metrics_csv",
           "data_card", "compliance_graph", "SOP", "dashboard_payload",
           "audit_manifest">>

AllWritten(r) == written[r] = Len(Outputs(format[r]))

TypeOK ==
  /\ format \in [Runs -> Formats \cup {"none"}]
  /\ memory \in [Runs -> {"absent", "queued", "running", "completed", "failed"}]
  /\ worker \in [Runs -> {"none", "accepted", "writing", "saving", "opened",
                          "publishing", "ended"}]
  /\ written \in [Runs -> Nat]
  /\ meta \in [Runs -> {"none", "partial", "full"}]
  /\ page \in [Runs -> {"away", "polling", "completed", "failed", "error"}]
  /\ results \in [Runs -> {"none", "reading", "listed", "empty"}]

Init ==
  /\ format = [r \in Runs |-> "none"]
  /\ memory = [r \in Runs |-> "absent"]
  /\ worker = [r \in Runs |-> "none"]
  /\ written = [r \in Runs |-> 0]
  /\ meta = [r \in Runs |-> "none"]
  /\ page = [r \in Runs |-> "away"]
  /\ results = [r \in Runs |-> "none"]

-----------------------------------------------------------------------------
(* The run's thread *)

\* create_run, for a plan that was confirmed and validates.
Submit(r, f) ==
  /\ format[r] = "none"
  /\ format' = [format EXCEPT ![r] = f]
  /\ memory' = [memory EXCEPT ![r] = "queued"]
  /\ worker' = [worker EXCEPT ![r] = "accepted"]
  /\ page' = [page EXCEPT ![r] = "polling"]
  /\ UNCHANGED <<written, meta, results>>

At(r, from, to) ==
  /\ worker[r] = from
  /\ worker' = [worker EXCEPT ![r] = to]

Publish(r, status) == memory' = [memory EXCEPT ![r] = status]

MUT_Start_StatusKept(r) ==
  /\ At(r, "accepted", "writing")
  /\ UNCHANGED <<format, memory, written, meta, page, results>>

Start(r) ==
  /\ At(r, "accepted", "writing")
  /\ Publish(r, "running")
  /\ UNCHANGED <<format, written, meta, page, results>>

\* mkdir stands before the try block: its exception ends the thread unseen.
StartFails(r) ==
  /\ "mkdir" \in Faults
  /\ At(r, "accepted", "ended")
  /\ UNCHANGED <<format, memory, written, meta, page, results>>

Write(r) ==
  /\ worker[r] = "writing"
  /\ ~AllWritten(r)
  /\ written' = [written EXCEPT ![r] = @ + 1]
  /\ UNCHANGED <<format, memory, worker, meta, page, results>>

MUT_PublishTabular_BeforeOutputs(r) ==
  /\ format[r] = "tabular"
  /\ At(r, "writing", "saving")
  /\ Publish(r, "completed")
  /\ UNCHANGED <<format, written, meta, page, results>>

\* _run_tabular publishes the result before it saves wizard_meta.json ...
PublishTabular(r) ==
  /\ format[r] = "tabular"
  /\ AllWritten(r)
  /\ At(r, "writing", "saving")
  /\ Publish(r, "completed")
  /\ UNCHANGED <<format, written, meta, page, results>>

\* write_text first truncates the file, then fills it.
OpenMeta(r) ==
  /\ \/ format[r] = "tabular" /\ At(r, "saving", "opened")
     \/ format[r] = "xapi" /\ AllWritten(r) /\ At(r, "writing", "opened")
  /\ meta' = [meta EXCEPT ![r] = "partial"]
  /\ UNCHANGED <<format, memory, written, page, results>>

MUT_CloseMeta_ErrorSwallowed(r) ==
  /\ At(r, "opened", IF format[r] = "tabular" THEN "ended" ELSE "publishing")
  /\ UNCHANGED <<format, memory, written, meta, page, results>>

CloseMeta(r) ==
  /\ At(r, "opened", IF format[r] = "tabular" THEN "ended" ELSE "publishing")
  /\ meta' = [meta EXCEPT ![r] = "full"]
  /\ UNCHANGED <<format, memory, written, page, results>>

\* ... and the recipe branch of _run_background after.
PublishXapi(r) ==
  /\ At(r, "publishing", "ended")
  /\ Publish(r, "completed")
  /\ UNCHANGED <<format, written, meta, page, results>>

MUT_Fail_GoesOn(r) ==
  /\ \/ worker[r] = "writing" /\ Faults \cap {"input", "disk"} # {}
     \/ worker[r] \in {"saving", "opened"} /\ "disk" \in Faults
  /\ Publish(r, "failed")
  /\ UNCHANGED <<format, worker, written, meta, page, results>>

\* Any exception up to the last write of the thread.
Fail(r) ==
  /\ \/ worker[r] = "writing" /\ Faults \cap {"input", "disk"} # {}
     \/ worker[r] \in {"saving", "opened"} /\ "disk" \in Faults
  /\ worker' = [worker EXCEPT ![r] = "ended"]
  /\ Publish(r, "failed")
  /\ UNCHANGED <<format, written, meta, page, results>>

Crash ==
  /\ "crash" \in Faults
  /\ memory' = [r \in Runs |-> "absent"]
  /\ worker' = [r \in Runs |-> IF format[r] = "none" THEN "none" ELSE "ended"]
  /\ results' = [r \in Runs |->
                   IF results[r] = "reading" THEN "none" ELSE results[r]]
  /\ UNCHANGED <<format, written, meta, page>>

-----------------------------------------------------------------------------
(* The endpoints and the page *)

\* An unfinished wizard_meta.json is no JSON: the run is not found.
MUT_Reported_AnyMeta(r) ==
  IF memory[r] # "absent" THEN memory[r]
  ELSE IF meta[r] # "none" THEN "completed" ELSE "unknown"

Reported(r) ==
  IF memory[r] # "absent" THEN memory[r]
  ELSE IF meta[r] = "full" THEN "completed" ELSE "unknown"

\* The page stops on a final status and on an error (a 404 included).
MUT_Poll_ErrorIgnored(r) ==
  /\ page[r] = "polling"
  /\ Reported(r) \in {"completed", "failed"}
  /\ page' = [page EXCEPT ![r] = Reported(r)]
  /\ UNCHANGED <<format, memory, worker, written, meta, results>>

Poll(r) ==
  /\ page[r] = "polling"
  /\ Reported(r) \in {"completed", "failed", "unknown"}
  /\ page' = [page EXCEPT ![r] =
                IF Reported(r) = "unknown" THEN "error" ELSE Reported(r)]
  /\ UNCHANGED <<format, memory, worker, written, meta, results>>

\* Any exception ends the polling, whatever becomes of the run.
PollLost(r) ==
  /\ "network" \in Faults
  /\ page[r] = "polling"
  /\ page' = [page EXCEPT ![r] = "error"]
  /\ UNCHANGED <<format, memory, worker, written, meta, results>>

\* The effect depends on onComplete, which every render of the wizard makes anew: the
\* next one polls a run again whose end or error is on show.
PollAgain(r) ==
  /\ page[r] \in {"completed", "failed", "error"}
  /\ page' = [page EXCEPT ![r] = "polling"]
  /\ UNCHANGED <<format, memory, worker, written, meta, results>>

\* get_run_results looks at the status; unless it is completed ...
AskResults(r) ==
  /\ results[r] # "reading"
  /\ Reported(r) # "unknown"
  /\ results' = [results EXCEPT ![r] =
                   IF Reported(r) = "completed" THEN "listed" ELSE "reading"]
  /\ UNCHANGED <<format, memory, worker, written, meta, page>>

\* ... it answers without results, with the status as it is by then.
AnswerResults(r) ==
  /\ results[r] = "reading"
  /\ results' = [results EXCEPT ![r] =
                   IF memory[r] = "completed" THEN "empty" ELSE "none"]
  /\ UNCHANGED <<format, memory, worker, written, meta, page>>

-----------------------------------------------------------------------------
ThreadStep(r) ==
  \/ Start(r) \/ StartFails(r) \/ Write(r) \/ PublishTabular(r) \/ OpenMeta(r)
  \/ CloseMeta(r) \/ PublishXapi(r) \/ Fail(r)

Next ==
  \/ \E r \in Runs, f \in Formats : Submit(r, f)
  \/ \E r \in Runs :
       \/ ThreadStep(r) \/ Poll(r) \/ PollLost(r) \/ PollAgain(r)
       \/ AskResults(r) \/ AnswerResults(r)
  \/ Crash

Spec == Init /\ [][Next]_vars

\* A thread that can go on does, and the page asks again every 2.5 seconds and gets
\* its answer; nothing makes a request be lost.
FairSpec ==
  Spec /\ \A r \in Runs : WF_vars(ThreadStep(r)) /\ WF_vars(Poll(r))

-----------------------------------------------------------------------------
(* Correctness *)

\* Whenever a run is reported completed, by the process that ran it or by one
\* that found its wizard_meta.json, its pipeline had written every output.
CompletedHasOutputs ==
  \A r \in Runs : Reported(r) = "completed" => AllWritten(r)

\* A run reported failed never comes back completed: no later write of its
\* thread and no restart turns it into a result.
FailedStaysFailed ==
  [][\A r \in Runs : Reported(r) = "failed" => Reported(r)' # "completed"]_vars

\* The inductive invariant: where the thread is tells what it has written and
\* published, and wizard_meta.json is complete only after every output.
RunSound(r) ==
  /\ format[r] = "none" <=> worker[r] = "none"
  /\ format[r] = "none" => memory[r] = "absent" /\ page[r] = "away"
  /\ worker[r] = "accepted" => memory[r] = "queued"
  /\ worker[r] \in {"writing", "publishing"} => memory[r] = "running"
  /\ worker[r] \in {"saving", "opened", "publishing"} => AllWritten(r)
  /\ worker[r] = "saving" => format[r] = "tabular"
  /\ worker[r] \in {"saving", "opened"} =>
       memory[r] = IF format[r] = "tabular" THEN "completed" ELSE "running"
  /\ worker[r] = "publishing" => format[r] = "xapi" /\ meta[r] = "full"
  /\ memory[r] = "completed" => AllWritten(r)
  /\ memory[r] = "failed" => worker[r] = "ended"
  /\ memory[r] \in {"queued", "failed"} => meta[r] # "full"
  /\ meta[r] = "full" => AllWritten(r) /\ worker[r] \in {"publishing", "ended"}
  /\ memory[r] = "completed" => meta[r] = "full" \/ worker[r] \in {"saving", "opened"}

IInv == TypeOK /\ \A r \in Runs : RunSound(r)

\* Reported completed, but not yet saved in wizard_meta.json.
Unsaved(r) == format[r] = "tabular" /\ worker[r] \in {"saving", "opened"}

\* A completed run is forgotten or turns out failed in one window only: a tabular
\* run whose thread has published it and has not saved wizard_meta.json yet.
LostOnlyUnsaved ==
  [][\A r \in Runs : Reported(r) = "completed" /\ Reported(r)' # "completed" => Unsaved(r)]_vars

\* Once the page showed a run as completed, the server keeps saying so, across
\* restarts too: the results the page goes on to fetch are there.
CompletedSurvives ==
  \A r \in Runs : page[r] = "completed" => Reported(r) = "completed"

\* The same of the runs that go through the recipe runner, which saves first.
XapiSurvives ==
  \A r \in Runs : format[r] = "xapi" /\ page[r] = "completed" => Reported(r) = "completed"

\* A completed run of the recipe runner left the files that the guide lists as
\* always produced.
PromisedArtifacts ==
  \A r \in Runs : format[r] = "xapi" /\ Reported(r) = "completed" =>
    \A a \in {"metrics", "metrics_csv", "dashboard_payload", "audit_manifest",
              "SOP", "data_card", "compliance_graph"} :
      \E i \in 1..written[r] : Outputs(format[r])[i] = a

\* The progress page comes to an end, the run's result or its error is shown, but
\* where the thread has died before its try block, with the run still queued.
PageSettles ==
  \A r \in Runs :
    page[r] = "polling" ~>
      \/ page[r] \in {"completed", "failed", "error"}
      \/ worker[r] = "ended" /\ memory[r] = "queued"

\* The status endpoint, but for what it says too early.
Report == [r \in Runs |-> IF Unsaved(r) THEN "running" ELSE Reported(r)]

Lifecycle == INSTANCE RunLifecycle WITH report <- Report

\* The status endpoint implements RunLifecycle, restarts and faults included, if a
\* completed run that is not saved yet is taken to be running still.
ImplementsRunLifecycle == Lifecycle!Spec
=============================================================================
