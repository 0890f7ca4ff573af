--------------------------- MODULE WizardRunProofs ---------------------------
(***************************************************************************)
(* Proofs about WizardRun, for any number of runs and any set of faults.   *)
(***************************************************************************)
EXTENDS WizardRun, TLAPS

\* Every step keeps the variables in their types.
LEMMA NextType == TypeOK /\ [Next]_vars => TypeOK'
<1> SUFFICES ASSUME TypeOK, [Next]_vars PROVE TypeOK'
  OBVIOUS
<1> USE DEF TypeOK
<1>1. ASSUME NEW r \in Runs, NEW f \in Formats, Submit(r, f) PROVE TypeOK'
  BY <1>1 DEF Submit
<1>2. ASSUME NEW r \in Runs, Start(r) \/ StartFails(r) PROVE TypeOK'
  BY <1>2 DEF Start, StartFails, At, Publish
<1>3. ASSUME NEW r \in Runs, Write(r) PROVE TypeOK'
  BY <1>3 DEF Write
<1>4. ASSUME NEW r \in Runs, PublishTabular(r) \/ PublishXapi(r) \/ Fail(r)
      PROVE  TypeOK'
  BY <1>4 DEF PublishTabular, PublishXapi, Fail, At, Publish
<1>5. ASSUME NEW r \in Runs, OpenMeta(r) \/ CloseMeta(r) PROVE TypeOK'
  BY <1>5 DEF OpenMeta, CloseMeta, At
<1>6. ASSUME NEW r \in Runs, Poll(r) \/ PollLost(r) \/ PollAgain(r) PROVE TypeOK'
  BY <1>6 DEF Poll, PollLost, PollAgain
<1>7. ASSUME NEW r \in Runs, AskResults(r) \/ AnswerResults(r) PROVE TypeOK'
  BY <1>7 DEF AskResults, AnswerResults
<1>8. CASE Crash
  BY <1>8 DEF Crash
<1>9. CASE UNCHANGED vars
  BY <1>9 DEF vars
<1> QED
  BY <1>1, <1>2, <1>3, <1>4, <1>5, <1>6, <1>7, <1>8, <1>9 DEF Next, ThreadStep

\* Every step keeps each run sound: the one it is about, and the others because
\* no two runs share anything.
LEMMA StepInv == IInv /\ [Next]_vars => IInv'
<1> SUFFICES ASSUME IInv, [Next]_vars PROVE IInv'
  OBVIOUS
<1>1. TypeOK'
  BY NextType DEF IInv
<1>2. ASSUME NEW r \in Runs PROVE RunSound(r)'
  <2>1. RunSound(r) /\ TypeOK
    BY DEF IInv
  <2> USE <2>1 DEF RunSound, AllWritten, TypeOK
  <2>2. ASSUME NEW q \in Runs, NEW f \in Formats, Submit(q, f) PROVE RunSound(r)'
    <3>1. f # "none"
      BY KnownFormats
    <3> QED
      BY <2>2, <3>1 DEF Submit
  <2>3. ASSUME NEW q \in Runs, Start(q) \/ StartFails(q) PROVE RunSound(r)'
    BY <2>3 DEF Start, StartFails, At, Publish
  <2>4. ASSUME NEW q \in Runs, Write(q) PROVE RunSound(r)'
    BY <2>4 DEF Write
  <2>5. ASSUME NEW q \in Runs, PublishTabular(q) PROVE RunSound(r)'
    BY <2>5 DEF PublishTabular, At, Publish
  <2>6. ASSUME NEW q \in Runs, OpenMeta(q) PROVE RunSound(r)'
    BY <2>6 DEF OpenMeta, At
  <2>7. ASSUME NEW q \in Runs, CloseMeta(q) PROVE RunSound(r)'
    <3>1. format[q] \in {"none", "tabular", "xapi"}
      BY KnownFormats
    <3> QED
      BY <2>7, <3>1 DEF CloseMeta, At
  <2>8. ASSUME NEW q \in Runs, PublishXapi(q) PROVE RunSound(r)'
    BY <2>8 DEF PublishXapi, At, Publish
  <2>9. ASSUME NEW q \in Runs, Fail(q) PROVE RunSound(r)'
    BY <2>9 DEF Fail, Publish
  <2>10. ASSUME NEW q \in Runs,
                \/ Poll(q) \/ PollLost(q) \/ PollAgain(q)
                \/ AskResults(q) \/ AnswerResults(q)
         PROVE  RunSound(r)'
    <3>1. format[r] = "none" => page'[r] = page[r]
      BY <2>10 DEF Poll, PollLost, PollAgain, AskResults, AnswerResults
    <3> QED
      BY <2>10, <3>1 DEF Poll, PollLost, PollAgain, AskResults, AnswerResults
  <2>11. CASE Crash
    BY <2>11 DEF Crash
  <2>12. CASE UNCHANGED vars
    BY <2>12 DEF vars
  <2> QED
    BY <2>2, <2>3, <2>4, <2>5, <2>6, <2>7, <2>8, <2>9, <2>10, <2>11, <2>12
       DEF Next, ThreadStep
<1> QED
  BY <1>1, <1>2 DEF IInv

\* A server that has run nothing yet satisfies the invariant.
LEMMA InitInv == Init => IInv
BY KnownFormats DEF Init, IInv, TypeOK, RunSound, AllWritten

\* What a thread has written and published is as its position says, for every
\* run in every reachable state.
THEOREM InvariantHolds == Spec => []IInv
BY InitInv, StepInv, PTL DEF Spec

\* Every run reported completed has all the outputs of its pipeline, whatever
\* faults and restarts came before.
THEOREM CompletedComplete == Spec => []CompletedHasOutputs
<1>1. IInv => CompletedHasOutputs
  BY DEF IInv, RunSound, CompletedHasOutputs, Reported
<1> QED
  BY <1>1, InvariantHolds, PTL

\* A completed run of the recipe runner left every file that the guide lists as
\* always produced: each is one of that pipeline's outputs.
THEOREM PromisesKept == Spec => []PromisedArtifacts
<1>1. IInv => PromisedArtifacts
  <2> SUFFICES ASSUME IInv, NEW r \in Runs, format[r] = "xapi", Reported(r) = "completed"
               PROVE  \A a \in {"metrics", "metrics_csv", "dashboard_payload",
                                "audit_manifest", "SOP", "data_card",
                                "compliance_graph"} :
                        \E i \in 1..written[r] : Outputs(format[r])[i] = a
    BY DEF PromisedArtifacts
  <2>1. AllWritten(r)
    BY DEF IInv, RunSound, TypeOK, Reported
  <2> DEFINE out == <<"privacy_report", "normalized", "profiles", "metrics",
                      "metrics_csv", "data_card", "compliance_graph", "SOP",
                      "dashboard_payload", "audit_manifest">>
  <2>2. Outputs(format[r]) = out /\ written[r] = Len(out)
    BY <2>1 DEF AllWritten, Outputs
  <2>3. /\ out[4] = "metrics" /\ out[5] = "metrics_csv" /\ out[6] = "data_card"
        /\ out[7] = "compliance_graph" /\ out[8] = "SOP"
        /\ out[9] = "dashboard_payload" /\ out[10] = "audit_manifest"
        /\ Len(out) = 10
    OBVIOUS
  <2> HIDE DEF out
  <2> QED
    BY <2>2, <2>3
<1> QED
  BY <1>1, InvariantHolds, PTL

\* A failed run never turns into a result later.
THEOREM FailureFinal == Spec => FailedStaysFailed
<1>1. IInv /\ [Next]_vars =>
        [\A r \in Runs : Reported(r) = "failed" => Reported(r)' # "completed"]_vars
  <2> SUFFICES ASSUME IInv, Next, NEW r \in Runs, Reported(r) = "failed"
               PROVE  Reported(r)' # "completed"
    OBVIOUS
  <2>1. /\ memory[r] = "failed" /\ worker[r] = "ended" /\ meta[r] # "full"
        /\ format[r] # "none" /\ TypeOK
    BY DEF IInv, RunSound, Reported
  <2> USE <2>1 DEF Reported, TypeOK
  <2>2. memory'[r] \in {"failed", "absent"} /\ meta'[r] = meta[r]
    BY DEF Next, ThreadStep, Submit, Start, StartFails, Write, PublishTabular,
         OpenMeta, CloseMeta, PublishXapi, Fail, Poll, PollLost, PollAgain, AskResults,
         AnswerResults, Crash, At, Publish
  <2> QED
    BY <2>2
<1> QED
  BY <1>1, InvariantHolds, PTL DEF Spec, FailedStaysFailed

\* What is completed is lost only between the two halves of _run_tabular's end,
\* _set_run(status="completed") and the write of wizard_meta.json: whatever the
\* plans, the faults and the restarts.
THEOREM LossWindow == Spec => LostOnlyUnsaved
<1>1. IInv /\ [Next]_vars =>
        [\A r \in Runs : Reported(r) = "completed" /\ Reported(r)' # "completed" =>
           Unsaved(r)]_vars
  <2> SUFFICES ASSUME IInv, Next, NEW r \in Runs, Reported(r) = "completed", ~Unsaved(r)
               PROVE  Reported(r)' = "completed"
    OBVIOUS
  <2>1. /\ RunSound(r) /\ TypeOK /\ memory[r] \in {"absent", "completed"}
        /\ memory[r] = "completed" \/ meta[r] = "full"
    BY DEF IInv, Reported
  <2>2. meta[r] = "full" /\ worker[r] \in {"publishing", "ended"}
    BY <2>1 DEF RunSound, Unsaved
  <2>3. meta'[r] = "full"
    BY <2>1, <2>2 DEF Next, ThreadStep, Submit, Start, StartFails, Write, PublishTabular,
         OpenMeta, CloseMeta, PublishXapi, Fail, Poll, PollLost, PollAgain, AskResults, AnswerResults,
         Crash, At, TypeOK, RunSound
  <2>4. memory'[r] \in {memory[r], "completed", "absent"}
    BY <2>1, <2>2 DEF Next, ThreadStep, Submit, Start, StartFails, Write, PublishTabular,
         OpenMeta, CloseMeta, PublishXapi, Fail, Poll, PollLost, PollAgain, AskResults, AnswerResults,
         Crash, At, Publish, TypeOK, RunSound
  <2> QED
    BY <2>1, <2>3, <2>4 DEF Reported
<1> QED
  BY <1>1, InvariantHolds, PTL DEF Spec, LostOnlyUnsaved

-----------------------------------------------------------------------------
(* Runs that go through the recipe runner *)

\* No step changes what kind of run it is.
LEMMA FormatKept ==
  ASSUME TypeOK, [Next]_vars, NEW r \in Runs, format[r] # "none"
  PROVE  format'[r] = format[r]
BY DEF Next, ThreadStep, Submit, Start, StartFails, Write, PublishTabular, OpenMeta, CloseMeta,
     PublishXapi, Fail, Poll, PollLost, PollAgain, AskResults, AnswerResults, Crash, vars, TypeOK

\* No step takes back a completed report of such a run: its thread has nothing left
\* to do, and wizard_meta.json outlives the process.
LEMMA CompletedKept ==
  ASSUME IInv, [Next]_vars, NEW r \in Runs, format[r] = "xapi", Reported(r) = "completed"
  PROVE  Reported(r)' = "completed"
<1>1. meta[r] = "full" /\ worker[r] \in {"publishing", "ended"}
  <2>1. RunSound(r) /\ (memory[r] = "completed" \/ meta[r] = "full")
    BY DEF IInv, Reported
  <2> QED
    BY <2>1 DEF RunSound
<1>2. meta'[r] = "full"
  BY <1>1 DEF Next, ThreadStep, Submit, Start, StartFails, Write, PublishTabular,
       OpenMeta, CloseMeta, PublishXapi, Fail, Poll, PollLost, PollAgain, AskResults, AnswerResults,
       Crash, At, vars, IInv, TypeOK
<1>3. memory'[r] \in {memory[r], "completed", "absent"}
  BY <1>1 DEF Next, ThreadStep, Submit, Start, StartFails, Write, PublishTabular,
       OpenMeta, CloseMeta, PublishXapi, Fail, Poll, PollLost, PollAgain,
       AskResults, AnswerResults, Crash, At, Publish, vars, IInv, TypeOK
<1> QED
  BY <1>2, <1>3 DEF Reported

\* What the page showed as completed of a run of the recipe runner stays completed,
\* whatever faults and restarts follow and whatever other runs there are.
THEOREM CompletionDurable == Spec => []XapiSurvives
<1>1. Init => XapiSurvives
  BY DEF Init, XapiSurvives
<1>2. IInv /\ XapiSurvives /\ [Next]_vars => XapiSurvives'
  <2> SUFFICES ASSUME IInv, XapiSurvives, [Next]_vars, NEW r \in Runs,
                      format'[r] = "xapi", page'[r] = "completed"
               PROVE  Reported(r)' = "completed"
    BY DEF XapiSurvives
  <2>0. page[r] # "away" => format[r] = "xapi"
    BY FormatKept DEF IInv, RunSound
  <2>1. CASE page[r] = "completed"
    BY <2>0, <2>1, CompletedKept DEF XapiSurvives
  <2>2. CASE page[r] # "completed"
    <3>1. Poll(r)
      BY <2>2 DEF Next, ThreadStep, Submit, Start, StartFails, Write,
           PublishTabular, OpenMeta, CloseMeta, PublishXapi, Fail, Poll, PollLost, PollAgain,
           AskResults, AnswerResults, Crash, vars, IInv, TypeOK
    <3>2. Reported(r) = "completed" /\ page[r] = "polling"
      BY <3>1 DEF Poll, IInv, TypeOK
    <3> QED
      BY <2>0, <3>2, CompletedKept
  <2> QED
    BY <2>1, <2>2
<1> QED
  BY <1>1, <1>2, InvariantHolds, PTL DEF Spec

-----------------------------------------------------------------------------
(* Refinement *)

\* A step that leaves the statuses, wizard_meta.json and the threads alone is a
\* stuttering step of RunLifecycle.
LEMMA Stutters ==
  ASSUME UNCHANGED <<format, memory, worker, meta>> PROVE UNCHANGED Report
BY DEF Report, Reported, Unsaved

\* A step about run r changes the report of r alone.
LEMMA OneReport ==
  ASSUME NEW r \in Runs, NEW status,
         \A q \in Runs \ {r} : /\ format'[q] = format[q] /\ memory'[q] = memory[q]
                               /\ worker'[q] = worker[q] /\ meta'[q] = meta[q],
         Report'[r] = status
  PROVE  Report' = [Report EXCEPT ![r] = status]
<1>1. \A q \in Runs : Report'[q] = IF q = r THEN status ELSE Report[q]
  BY DEF Report, Reported, Unsaved
<1>2. /\ Report = [q \in Runs |-> Report[q]]
      /\ Report' = [q \in Runs |-> Report'[q]]
  BY DEF Report
<1> QED
  BY <1>1, <1>2

\* A step of a thread or of create_run touches nothing of other runs.
LEMMA Alone ==
  ASSUME TypeOK, NEW r \in Runs, ThreadStep(r) \/ \E f \in Formats : Submit(r, f)
  PROVE  \A q \in Runs \ {r} : /\ format'[q] = format[q] /\ memory'[q] = memory[q]
                               /\ worker'[q] = worker[q] /\ meta'[q] = meta[q]
BY DEF ThreadStep, Submit, Start, StartFails, Write, PublishTabular, OpenMeta, CloseMeta,
     PublishXapi, Fail, At, Publish, TypeOK

\* What a step of a thread does to the report of its run: it starts, completes or
\* fails it, or nobody sees a difference.
LEMMA ThreadReports ==
  ASSUME IInv, NEW r \in Runs, ThreadStep(r)
  PROVE  \/ Report[r] = "queued" /\ Report'[r] = "running"
         \/ Report[r] = "running" /\ Report'[r] \in {"running", "completed", "failed"}
         \/ Report'[r] = Report[r]
<1>1. RunSound(r) /\ TypeOK /\ format[r] \in {"none", "tabular", "xapi"}
  BY KnownFormats DEF IInv, TypeOK
<1> USE <1>1 DEF Report, Reported, Unsaved, RunSound, TypeOK
<1>2. CASE Start(r)
  BY <1>2 DEF Start, At, Publish
<1>3. CASE StartFails(r) \/ Write(r)
  BY <1>3 DEF StartFails, Write, At
<1>4. CASE PublishTabular(r)
  BY <1>4 DEF PublishTabular, At, Publish
<1>5. CASE OpenMeta(r)
  BY <1>5 DEF OpenMeta, At
<1>6. CASE CloseMeta(r)
  BY <1>6 DEF CloseMeta, At
<1>7. CASE PublishXapi(r)
  BY <1>7 DEF PublishXapi, At, Publish
<1>8. CASE Fail(r)
  BY <1>8 DEF Fail, Publish
<1> QED
  BY <1>2, <1>3, <1>4, <1>5, <1>6, <1>7, <1>8 DEF ThreadStep

\* Whatever the plans and the faults, the status endpoint implements RunLifecycle if
\* a run published and not yet saved counts as running: a run is queued, runs, ends
\* once, and a restart forgets it or finds it completed, the latter for good.
THEOREM LifecycleImplemented == Spec => ImplementsRunLifecycle
<1>1. Init => Lifecycle!Init
  BY DEF Init, Lifecycle!Init, Report, Reported, Unsaved
<1>2. IInv /\ [Next]_vars => [Lifecycle!Next]_Report
  <2> SUFFICES ASSUME IInv, [Next]_vars PROVE [Lifecycle!Next]_Report
    OBVIOUS
  <2>1. TypeOK /\ \A r \in Runs : RunSound(r)
    BY DEF IInv
  <2>2. ASSUME NEW r \in Runs, NEW f \in Formats, Submit(r, f)
        PROVE  Lifecycle!Submit(r)
    <3>1. Report[r] = "unknown" /\ Report'[r] = "queued"
      BY <2>1, <2>2 DEF Submit, RunSound, TypeOK, Report, Reported, Unsaved
    <3> QED
      BY <2>1, <2>2, <3>1, Alone, OneReport DEF Lifecycle!Submit, Lifecycle!Move
  <2>3. ASSUME NEW r \in Runs, ThreadStep(r) PROVE Lifecycle!Next \/ UNCHANGED Report
    <3>1. Report' = [Report EXCEPT ![r] = Report'[r]]
      BY <2>1, <2>3, Alone, OneReport
    <3>2. Report'[r] = Report[r] => UNCHANGED Report
      BY <3>1 DEF Report
    <3> QED
      BY <2>3, <3>1, <3>2, ThreadReports
         DEF Lifecycle!Start, Lifecycle!Complete, Lifecycle!Fail, Lifecycle!Move, Lifecycle!Next
  <2>4. ASSUME NEW r \in Runs,
               \/ Poll(r) \/ PollLost(r) \/ PollAgain(r)
               \/ AskResults(r) \/ AnswerResults(r)
        PROVE  UNCHANGED Report
    BY <2>4, Stutters DEF Poll, PollLost, PollAgain, AskResults, AnswerResults
  <2>5. CASE Crash
    <3>1. \A r \in Runs : Report'[r] = IF meta[r] = "full" THEN "completed" ELSE "unknown"
      BY <2>5 DEF Crash, Report, Reported, Unsaved
    <3>2. ASSUME NEW r \in Runs, Report[r] = "completed" PROVE meta[r] = "full"
      <4>1. ~Unsaved(r) /\ (memory[r] = "completed" \/ meta[r] = "full")
        BY <3>2 DEF Report, Reported
      <4> QED
        BY <2>1, <4>1 DEF RunSound, Unsaved
    <3>3. ASSUME NEW r \in Runs, meta[r] = "full"
          PROVE  Report[r] \in {"running", "completed"}
      <4>1. memory[r] \in {"absent", "running", "completed"}
        BY <2>1, <3>3 DEF RunSound, TypeOK
      <4> QED
        BY <3>3, <4>1 DEF Report, Reported
    <3>4. Lifecycle!Restart
      BY <3>1, <3>2, <3>3 DEF Lifecycle!Restart, Report
    <3> QED
      BY <3>4 DEF Lifecycle!Next
  <2>6. CASE UNCHANGED vars
    BY <2>6, Stutters DEF vars
  <2> QED
    BY <2>2, <2>3, <2>4, <2>5, <2>6 DEF Next, Lifecycle!Next
<1> QED
  BY <1>1, <1>2, InvariantHolds, PTL
     DEF Spec, ImplementsRunLifecycle, Lifecycle!Spec

=============================================================================
