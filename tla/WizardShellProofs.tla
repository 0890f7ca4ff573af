------------------------- MODULE WizardShellProofs -------------------------
(***************************************************************************)
(* What is proved of the wizard's page, for every set of datasets, files   *)
(* and overrides and any number of calls in flight, and of the recommender *)
(* and the guardrails, for every plan.                                     *)
(***************************************************************************)
EXTENDS WizardShell, WizardPlanProofs, TLAPS

(* Only analyses of the registry are recommended. *)
LEMMA RecommendedKnown == \A r : Recommended(r) \in SUBSET Analyses
BY DEF Recommended

LEMMA VerdictValues == \A p : Verdict(p) \in {"fail", "warn", "pass"}
BY DEF Verdict

(* buildPlan makes plans of the type assumed of them. *)
LEMMA PlanTyped == TypeOK => Plan \in Plans
<1>1. ASSUME TypeOK PROVE /\ {"dataset_path"} \cup {InputKey[e] : e \in extras}
                               \cup {k \in {"has_probability_output"} : probable}
                                 \in SUBSET ({"dataset_path", "has_probability_output"}
                                                \cup {InputKey[e] : e \in Extras})
                          /\ Given \in SUBSET Extras
  BY <1>1 DEF TypeOK, PageOK, Given
<1>2. ASSUME TypeOK PROVE (IF inspection \in {"null", "unsupported"} THEN "generic_csv_tabular"
                           ELSE inspection) \in KnownFormats \cup {"unset", "none"}
  BY <1>2 DEF TypeOK, PageOK, Outcomes, KnownFormats, AllFormats, TabularFormats
<1> QED BY <1>1, <1>2 DEF TypeOK, PageOK, Plan, PlanOf, Plans

LEMMA NoPlanTyped == NoPlan \in Plans
BY DEF NoPlan, PlanOf, Plans, Unmapped, FieldValues

(* A plan of the page is never the empty one. *)
LEMMA PlanIsNotNone == TypeOK => Plan # NoPlan
<1> SUFFICES ASSUME TypeOK PROVE Plan.format # NoPlan.format
  OBVIOUS
<1>1. Plan.format = IF inspection \in {"null", "unsupported"} THEN "generic_csv_tabular"
                    ELSE inspection
  BY DEF Plan, PlanOf
<1>2. inspection # "none"
  BY DEF TypeOK, PageOK, Outcomes, KnownFormats, AllFormats, TabularFormats, XapiFormats
<1> QED BY <1>1, <1>2 DEF NoPlan, PlanOf

LEMMA IdleOK == accepted \in Nat => CallOK(Idle)
BY NoPlanTyped DEF CallOK, Idle, Kinds, StepOf

(* Initially the invariant holds. *)
LEMMA InitInvariant == Init => IInv
<1> SUFFICES ASSUME Init PROVE IInv
  OBVIOUS
<1>1. PageOK
  <2>1. Unmapped \in [Roles -> FieldValues]
    BY DEF Unmapped, FieldValues
  <2>2. step \in Steps /\ completed \in SUBSET (1..9)
    BY DEF Init, Steps
  <2>3. extras \in SUBSET Extras /\ scope \in SUBSET Analyses /\ selected \in SUBSET Analyses
    BY DEF Init
  <2>4. accepted \in Nat /\ run \in 0..accepted /\ results \in 0..accepted /\ edits \in Nat
    BY DEF Init
  <2> QED BY <2>1, <2>2, <2>3, <2>4, NoPlanTyped DEF Init, PageOK
<1>2. CallsOK
  <2>1. calls = [s \in Slots |-> Idle] /\ accepted = 0
    BY DEF Init
  <2>2. CallOK(Idle)
    BY <2>1, IdleOK
  <2> QED BY <2>1, <2>2 DEF CallsOK
<1>3. AnswersFit
  BY DEF Init, AnswersFit, InFlight, Idle
<1>4. InStep
  BY DEF Init, InStep, Busy, Idle, InFlight
<1>5. UpToDate
  BY DEF Init, UpToDate, Idle, InFlight
<1> QED BY <1>1, <1>2, <1>3, <1>4, <1>5 DEF IInv, TypeOK

(* A call that advances the page names a step before the last. *)
LEMMA CallFrom == \A c : CallOK(c) /\ c.kind # "idle" => c.from \in 1..9
BY DEF CallOK, StepOf, Kinds

LEMMA AdvanceTyped ==
  ASSUME step \in Steps, completed \in SUBSET (1..9), NEW from \in 1..9, Advance(from)
  PROVE  step' \in Steps /\ completed' \in SUBSET (1..9)
BY DEF Advance, Steps

-----------------------------------------------------------------------------
(* The calls in flight stay well formed. *)

LEMMA CallsKept ==
  ASSUME CallsOK, UNCHANGED <<calls, accepted>>
  PROVE  CallsOK'
BY DEF CallsOK, CallOK

LEMMA BeginCalls ==
  ASSUME TypeOK, NEW kind \in Kinds \ {"idle"}, NEW p \in Plans, NEW r \in 0..accepted,
         Begin(kind, p, r), StepOf[kind] = step,
         kind \in {"inspect", "retry"} => p.dataset \in Datasets,
         kind = "contract" => p # NoPlan,
         kind = "results" => r # 0
  PROVE  CallsOK'
<1>1. accepted' = accepted
  BY DEF Begin
<1>2. PICK s \in Slots : calls' = [calls EXCEPT ![s] = Call(kind, p, r)]
  BY DEF Begin
<1>3. step \in 0..9
  BY DEF Kinds, StepOf
<1>4. CallOK(Call(kind, p, r))
  BY <1>3 DEF CallOK, Call
<1>5. \A t \in Slots : calls'[t] = IF t = s THEN Call(kind, p, r) ELSE calls[t]
  BY <1>2 DEF TypeOK, CallsOK
<1>6. \A t \in Slots : CallOK(calls'[t])
  BY <1>4, <1>5 DEF TypeOK, CallsOK
<1>7. calls' = [t \in Slots |-> calls'[t]]
  BY <1>2 DEF TypeOK, CallsOK
<1> QED BY <1>1, <1>6, <1>7 DEF CallsOK, CallOK

LEMMA EndsCalls ==
  ASSUME CallsOK, accepted \in Nat, NEW s \in Slots, Ends(s),
         accepted' \in {accepted, accepted + 1}
  PROVE  CallsOK'
<1>1. calls' = [calls EXCEPT ![s] = Idle]
  BY DEF Ends
<1>2. \A t \in Slots : calls'[t] = IF t = s THEN Idle ELSE calls[t]
  BY <1>1 DEF CallsOK
<1>3. 0..accepted \subseteq 0..accepted'
  OBVIOUS
<1>4. \A t \in Slots : CallOK(calls'[t])
  BY <1>2, IdleOK DEF CallsOK
<1>5. \A t \in Slots : CallOK(calls[t])'
  <2> SUFFICES ASSUME NEW t \in Slots PROVE CallOK(calls[t])'
    OBVIOUS
  <2> QED BY <1>3, <1>4 DEF CallOK
<1>6. calls' = [t \in Slots |-> calls'[t]]
  BY <1>1 DEF CallsOK
<1> QED BY <1>5, <1>6 DEF CallsOK

(* Every step keeps the types. *)
LEMMA TypeInvariant == TypeOK /\ [Next]_vars => TypeOK'
<1> SUFFICES ASSUME TypeOK, [Next]_vars PROVE TypeOK'
  OBVIOUS
<1> USE DEF TypeOK, vars, place, form, answers
<1>1. ASSUME NEW d \in Datasets \cup {"none"}, EnterDataset(d) PROVE TypeOK'
  BY <1>1, CallsKept DEF EnterDataset, Edit, Act, PageOK
<1>e. ASSUME NEW m \in Modes, ChooseMode(m) PROVE TypeOK'
  BY <1>e, ShellAssumption, CallsKept DEF ChooseMode, Edit, Act, PageOK
<1>p. ASSUME ToggleProbability PROVE TypeOK'
  BY <1>p, CallsKept DEF ToggleProbability, Edit, Act, PageOK
<1>t. ASSUME NEW t \in Tickable \cap Plots, TogglePlot(t) PROVE TypeOK'
  BY <1>t, CallsKept DEF TogglePlot, Toggled, Edit, Act, PageOK
<1>2. ASSUME NEW e \in Extras, ToggleExtra(e) PROVE TypeOK'
  BY <1>2, CallsKept DEF ToggleExtra, Toggled, Edit, Act, PageOK
<1>3. ASSUME NEW fmt \in Overrides, OverrideFormat(fmt) PROVE TypeOK'
  BY <1>3, CallsKept, ShellAssumption DEF OverrideFormat, Outcomes, Edit, Act, PageOK
<1>4. ASSUME NEW m \in Remapped, MapField(m[1], m[2]) PROVE TypeOK'
  BY <1>4, CallsKept, ShellAssumption DEF MapField, Edit, Act, PageOK
<1>5. ASSUME Acknowledge PROVE TypeOK'
  BY <1>5, CallsKept DEF Acknowledge, Edit, Act, PageOK
<1>6. ASSUME NEW a \in Tickable \cap Analyses, ToggleAnalysis(a) PROVE TypeOK'
  BY <1>6, CallsKept DEF ToggleAnalysis, Toggled, Edit, Act, PageOK
<1>7. ASSUME Confirm PROVE TypeOK'
  BY <1>7, CallsKept DEF Confirm, Edit, Act, PageOK
<1>8. ASSUME Back PROVE TypeOK'
  BY <1>8, CallsKept DEF Back, MoveTo, Steps, Edit, Act, PageOK
<1>9. ASSUME NEW t \in Steps, JumpTo(t) PROVE TypeOK'
  BY <1>9, CallsKept DEF JumpTo, MoveTo, Edit, Act, PageOK
<1>10. ASSUME ContinueAtOnce PROVE TypeOK'
  BY <1>10, CallsKept DEF ContinueAtOnce, Advance, Steps, Edit, Act, PageOK
<1>11. ASSUME Inspect PROVE TypeOK'
  <2>1. [NoPlan EXCEPT !.dataset = dataset] \in Plans
    BY NoPlanTyped DEF PageOK, Plans
  <2>2. dataset \in Datasets /\ [NoPlan EXCEPT !.dataset = dataset].dataset = dataset
    BY <1>11 DEF Inspect, PageOK, NoPlan, PlanOf
  <2>3. CASE Begin("inspect", [NoPlan EXCEPT !.dataset = dataset], 0) /\ step = 1
    <3>1. StepOf["inspect"] = step /\ 0 \in 0..accepted /\ "inspect" \in Kinds \ {"idle"}
      BY <2>3 DEF StepOf, PageOK, Kinds
    <3>2. CallsOK'
      BY <2>1, <2>2, <2>3, <3>1, BeginCalls
    <3> QED BY <1>11, <2>3, <3>2 DEF Inspect, Begin, Act, PageOK
  <2>4. CASE Begin("retry", [NoPlan EXCEPT !.dataset = dataset], 0) /\ step = 2
    <3>1. StepOf["retry"] = step /\ 0 \in 0..accepted /\ "retry" \in Kinds \ {"idle"}
      BY <2>4 DEF StepOf, PageOK, Kinds
    <3>2. CallsOK'
      BY <2>1, <2>2, <2>4, <3>1, BeginCalls
    <3> QED BY <1>11, <2>4, <3>2 DEF Inspect, Begin, Act, PageOK
  <2> QED BY <1>11, <2>3, <2>4 DEF Inspect
<1>12. ASSUME GetRecommendation PROVE TypeOK'
  <2>1. Begin("recommend", Plan, 0) /\ StepOf["recommend"] = step
    BY <1>12 DEF GetRecommendation, StepOf
  <2>2. CallsOK'
    BY <2>1, PlanTyped, PlanIsNotNone, BeginCalls DEF PageOK, Kinds
  <2> QED BY <1>12, <2>1, <2>2 DEF GetRecommendation, Begin, Act, PageOK
<1>13. ASSUME BuildContract PROVE TypeOK'
  <2>1. Begin("contract", Plan, 0) /\ StepOf["contract"] = step
    BY <1>13 DEF BuildContract, StepOf
  <2>2. CallsOK'
    BY <2>1, PlanTyped, PlanIsNotNone, BeginCalls DEF PageOK, Kinds
  <2> QED BY <1>13, <2>1, <2>2 DEF BuildContract, Begin, Act, PageOK
<1>14. ASSUME Run PROVE TypeOK'
  <2>1. Begin("run", Plan, 0) /\ StepOf["run"] = step
    BY <1>14 DEF Run, StepOf
  <2>2. CallsOK'
    BY <2>1, PlanTyped, PlanIsNotNone, BeginCalls DEF PageOK, Kinds
  <2> QED BY <1>14, <2>1, <2>2 DEF Run, Begin, Act, PageOK
<1>15. ASSUME RunComplete PROVE TypeOK'
  <2>1. Begin("results", NoPlan, run) /\ StepOf["results"] = step /\ run # 0
    BY <1>15 DEF RunComplete, StepOf
  <2>2. CallsOK'
    BY <2>1, NoPlanTyped, BeginCalls DEF PageOK, Kinds
  <2> QED BY <1>15, <2>1, <2>2 DEF RunComplete, Begin, Act, PageOK
<1>16. ASSUME NEW s \in Slots, Answered(s) PROVE TypeOK'
  <2> USE DEF Ends
  <2>1. Ends(s) /\ accepted' \in {accepted, accepted + 1} => CallsOK'
    BY EndsCalls DEF PageOK
  <2>2. CallOK(calls[s])
    BY DEF CallsOK
  <2>3. CASE InspectAnswered(s)
    <3>1. Detected[calls[s].plan.dataset].format \in Outcomes
      BY <2>2, <2>3, ShellAssumption DEF InspectAnswered, CallOK
    <3>2. PreMapped(Detected[calls[s].plan.dataset]) \in [Roles -> FieldValues]
      BY DEF PreMapped, FieldValues
    <3>3. step' \in Steps /\ completed' \in SUBSET (1..9)
      <4>1. CASE calls[s].kind = "inspect"
        BY <2>2, <2>3, <4>1, CallFrom, AdvanceTyped DEF InspectAnswered, PageOK
      <4>2. CASE calls[s].kind = "retry"
        BY <2>3, <4>2 DEF InspectAnswered, PageOK
      <4> QED BY <2>3, <4>1, <4>2 DEF InspectAnswered
    <3> QED BY <2>1, <2>3, <3>1, <3>2, <3>3 DEF InspectAnswered, PageOK
  <2>4. CASE RecommendAnswered(s)
    <3>1. step' \in Steps /\ completed' \in SUBSET (1..9)
      BY <2>2, <2>4, CallFrom, AdvanceTyped DEF RecommendAnswered, PageOK
    <3>2. \A f : DefaultPlots(f) \in SUBSET Plots
      BY DEF DefaultPlots, Plots, TemporalPlots
    <3> QED BY <2>1, <2>4, <3>1, <3>2, RecommendedKnown DEF RecommendAnswered, PageOK
  <2>5. CASE ContractAnswered(s)
    <3>1. step' \in Steps /\ completed' \in SUBSET (1..9)
      BY <2>2, <2>5, CallFrom, AdvanceTyped DEF ContractAnswered, PageOK
    <3>2. calls[s].plan \in Plans
      BY <2>2 DEF CallOK
    <3> QED BY <2>1, <2>5, <3>1, <3>2, VerdictValues DEF ContractAnswered, PageOK
  <2>6. CASE RunAccepted(s)
    BY <2>1, <2>6 DEF RunAccepted, PageOK
  <2>7. CASE ResultsAnswered(s)
    <3>1. step' \in Steps /\ completed' \in SUBSET (1..9)
      BY <2>2, <2>7, CallFrom, AdvanceTyped DEF ResultsAnswered, PageOK
    <3>2. calls[s].run \in 0..accepted
      BY <2>2 DEF CallOK
    <3> QED BY <2>1, <2>7, <3>1, <3>2 DEF ResultsAnswered, PageOK
  <2>8. CASE CallFails(s)
    BY <2>1, <2>8 DEF CallFails, PageOK
  <2> QED BY <1>16, <2>3, <2>4, <2>5, <2>6, <2>7, <2>8 DEF Answered
<1>17. CASE UNCHANGED vars
  BY <1>17, CallsKept DEF PageOK
<1> QED BY <1>1, <1>2, <1>3, <1>4, <1>5, <1>6, <1>7, <1>8, <1>9, <1>10, <1>11, <1>12, <1>13, <1>14,
           <1>15, <1>16, <1>17, <1>e, <1>p, <1>t DEF Next

-----------------------------------------------------------------------------
(* What is on show fits together, in whatever order the answers come. *)
LEMMA AnswersInvariant == TypeOK /\ AnswersFit /\ [Next]_vars => AnswersFit'
<1> SUFFICES ASSUME TypeOK, AnswersFit, [Next]_vars PROVE AnswersFit'
  OBVIOUS
<1> USE DEF AnswersFit, InFlight, vars, place, form, answers
<1>0. step \in 1..10 /\ completed \subseteq 1..9
  BY DEF TypeOK, PageOK, Steps
<1>f. "null" \notin Outcomes /\ "null" \notin Overrides
  BY ShellAssumption DEF Outcomes, KnownFormats, AllFormats, TabularFormats, XapiFormats
<1>1. ASSUME NEW d \in Datasets \cup {"none"}, EnterDataset(d) PROVE AnswersFit'
  BY <1>1, <1>0 DEF EnterDataset, Edit, Act
<1>e. ASSUME NEW m \in Modes, ChooseMode(m) PROVE AnswersFit'
  BY <1>e, <1>0 DEF ChooseMode, Edit, Act
<1>p. ASSUME ToggleProbability PROVE AnswersFit'
  BY <1>p, <1>0 DEF ToggleProbability, Edit, Act
<1>t. ASSUME NEW t \in Tickable \cap Plots, TogglePlot(t) PROVE AnswersFit'
  BY <1>t, <1>0 DEF TogglePlot, Toggled, Edit, Act
<1>2. ASSUME NEW e \in Extras, ToggleExtra(e) PROVE AnswersFit'
  BY <1>2, <1>0 DEF ToggleExtra, Edit, Act
<1>3. ASSUME NEW fmt \in Overrides, OverrideFormat(fmt) PROVE AnswersFit'
  BY <1>3, <1>0, <1>f DEF OverrideFormat, Edit, Act
<1>4. ASSUME NEW m \in Remapped, MapField(m[1], m[2]) PROVE AnswersFit'
  BY <1>4, <1>0 DEF MapField, Edit, Act
<1>5. ASSUME Acknowledge PROVE AnswersFit'
  BY <1>5, <1>0 DEF Acknowledge, Edit, Act
<1>6. ASSUME NEW a \in Tickable \cap Analyses, ToggleAnalysis(a) PROVE AnswersFit'
  BY <1>6, <1>0 DEF ToggleAnalysis, Toggled, Edit, Act
<1>7. ASSUME Confirm PROVE AnswersFit'
  BY <1>7, <1>0 DEF Confirm, Edit, Act
<1>8. ASSUME Back PROVE AnswersFit'
  BY <1>8, <1>0 DEF Back, MoveTo, Edit, Act
<1>9. ASSUME NEW t \in Steps, JumpTo(t) PROVE AnswersFit'
  BY <1>9, <1>0 DEF JumpTo, MoveTo, Edit, Act
<1>10. ASSUME ContinueAtOnce PROVE AnswersFit'
  BY <1>10, <1>0 DEF ContinueAtOnce, Advance, Edit, Act
<1>11. ASSUME Inspect PROVE AnswersFit'
  <2>1. PICK s \in Slots, k \in {"inspect", "retry"} :
          /\ calls' = [calls EXCEPT ![s] = Call(k, [NoPlan EXCEPT !.dataset = dataset], 0)]
          /\ k = "retry" => inspection # "null"
    BY <1>11 DEF Inspect, Begin
  <2>2. \A t \in Slots : calls'[t].kind = IF t = s THEN k ELSE calls[t].kind
    BY <2>1 DEF TypeOK, CallsOK, Call
  <2> QED BY <1>11, <2>1, <2>2 DEF Inspect, Begin
<1>12. ASSUME GetRecommendation PROVE AnswersFit'
  <2>1. inspection # "null"
    BY <1>12 DEF GetRecommendation
  <2> QED BY <1>12, <2>1 DEF GetRecommendation, Begin
<1>13. ASSUME BuildContract PROVE AnswersFit'
  <2>1. inspection # "null"
    BY <1>13 DEF BuildContract
  <2> QED BY <1>13, <2>1 DEF BuildContract, Begin
<1>14. ASSUME Run PROVE AnswersFit'
  <2>1. inspection # "null"
    BY <1>14 DEF Run
  <2> QED BY <1>14, <2>1 DEF Run, Begin
<1>15. ASSUME RunComplete PROVE AnswersFit'
  <2>1. inspection # "null"
    BY <1>15 DEF RunComplete
  <2> QED BY <1>15, <2>1 DEF RunComplete, Begin
<1>16. ASSUME NEW s \in Slots, Answered(s) PROVE AnswersFit'
  <2>1. CallOK(calls[s])
    BY DEF TypeOK, CallsOK
  <2>2. Ends(s) => \A k \in Slots : calls'[k].kind = IF k = s THEN "idle" ELSE calls[k].kind
    BY DEF Ends, TypeOK, CallsOK, Idle
  <2>3. CASE InspectAnswered(s)
    <3>1. calls[s].from \in {1, 2} /\ Detected[calls[s].plan.dataset].format # "null"
      BY <2>1, <2>3, <1>f, ShellAssumption DEF InspectAnswered, CallOK, StepOf
    <3> QED BY <2>3, <3>1 DEF InspectAnswered, Advance
  <2>4. CASE RecommendAnswered(s)
    <3>1. calls[s].from = 5 /\ inspection # "null"
      BY <2>1, <2>4 DEF RecommendAnswered, CallOK, StepOf, Kinds
    <3> QED BY <2>4, <3>1 DEF RecommendAnswered, Advance
  <2>5. CASE ContractAnswered(s)
    <3>1. calls[s].from = 7 /\ calls[s].plan # NoPlan /\ inspection # "null"
      BY <2>1, <2>5 DEF ContractAnswered, CallOK, StepOf, Kinds
    <3> QED BY <2>5, <3>1 DEF ContractAnswered, Advance
  <2>6. CASE RunAccepted(s)
    BY <2>2, <2>6 DEF RunAccepted
  <2>7. CASE ResultsAnswered(s)
    <3>1. calls[s].run # 0 /\ inspection # "null"
      BY <2>1, <2>7 DEF ResultsAnswered, CallOK, Kinds
    <3> QED BY <2>7, <3>1 DEF ResultsAnswered, Advance
  <2>8. CASE CallFails(s)
    BY <2>2, <2>8 DEF CallFails
  <2> QED BY <1>16, <2>3, <2>4, <2>5, <2>6, <2>7, <2>8 DEF Answered
<1>17. CASE UNCHANGED vars
  BY <1>17
<1> QED BY <1>1, <1>2, <1>3, <1>4, <1>5, <1>6, <1>7, <1>8, <1>9, <1>10, <1>11, <1>12, <1>13, <1>14,
           <1>15, <1>16, <1>17, <1>e, <1>p, <1>t DEF Next

(* A page that waits for every answer stays in step. *)
LEMMA InStepInvariant == TypeOK /\ AnswersFit /\ InStep /\ [Next]_vars => InStep'
<1> SUFFICES ASSUME TypeOK, AnswersFit, InStep, [Next]_vars, ~overlapped' PROVE InStep'
  BY DEF InStep
<1> USE DEF InStep, vars, place, form, answers
<1>0. step \in 1..10 /\ completed \subseteq 1..9
  BY DEF TypeOK, PageOK, Steps
<1>a. Act => Busy = {} /\ ~overlapped
  BY DEF Act
<1>b. Busy = {} /\ UNCHANGED calls => Busy' = {} /\ \A k : InFlight(k)' = InFlight(k)
  BY DEF Busy, InFlight
<1>1. ASSUME NEW d \in Datasets \cup {"none"}, EnterDataset(d) PROVE InStep'
  BY <1>1, <1>0, <1>a, <1>b DEF EnterDataset, Edit
<1>e. ASSUME NEW m \in Modes, ChooseMode(m) PROVE InStep'
  BY <1>e, <1>0, <1>a, <1>b DEF ChooseMode, Edit
<1>p. ASSUME ToggleProbability PROVE InStep'
  BY <1>p, <1>0, <1>a, <1>b DEF ToggleProbability, Edit
<1>t. ASSUME NEW t \in Tickable \cap Plots, TogglePlot(t) PROVE InStep'
  BY <1>t, <1>0, <1>a, <1>b DEF TogglePlot, Toggled, Edit
<1>2. ASSUME NEW e \in Extras, ToggleExtra(e) PROVE InStep'
  BY <1>2, <1>0, <1>a, <1>b DEF ToggleExtra, Edit
<1>3. ASSUME NEW fmt \in Overrides, OverrideFormat(fmt) PROVE InStep'
  BY <1>3, <1>0, <1>a, <1>b DEF OverrideFormat, Edit
<1>4. ASSUME NEW m \in Remapped, MapField(m[1], m[2]) PROVE InStep'
  BY <1>4, <1>0, <1>a, <1>b DEF MapField, Edit
<1>5. ASSUME Acknowledge PROVE InStep'
  BY <1>5, <1>0, <1>a, <1>b DEF Acknowledge, Edit
<1>6. ASSUME NEW a \in Tickable \cap Analyses, ToggleAnalysis(a) PROVE InStep'
  BY <1>6, <1>0, <1>a, <1>b DEF ToggleAnalysis, Toggled, Edit
<1>7. ASSUME Confirm PROVE InStep'
  BY <1>7, <1>0, <1>a, <1>b DEF Confirm, Edit
<1>8. ASSUME Back PROVE InStep'
  BY <1>8, <1>0, <1>a, <1>b DEF Back, MoveTo, Edit
<1>9. ASSUME NEW t \in Steps, JumpTo(t) PROVE InStep'
  BY <1>9, <1>0, <1>a, <1>b DEF JumpTo, MoveTo, Edit
<1>10. ASSUME ContinueAtOnce PROVE InStep'
  BY <1>10, <1>0, <1>a, <1>b DEF ContinueAtOnce, Advance, Edit
<1>c. ASSUME NEW kind, NEW p, NEW r, Begin(kind, p, r), kind = "results" => r = run
      PROVE  InStep'
  <2>1. Busy = {} /\ ~overlapped
    BY <1>c, <1>a DEF Begin
  <2>2. PICK s \in Slots : calls' = [calls EXCEPT ![s] = Call(kind, p, r)]
    BY <1>c DEF Begin
  <2>3. \A t \in Slots : calls'[t] = IF t = s THEN Call(kind, p, r) ELSE Idle
    BY <2>1, <2>2 DEF Busy, TypeOK, CallsOK
  <2>4. Busy' \subseteq {s}
    BY <2>3 DEF Busy
  <2>5. \A t \in Busy' : calls'[t].from = step
    BY <2>3, <2>4 DEF Call
  <2>6. \A t \in Slots : calls'[t].kind = "results" => calls'[t].run = run
    BY <1>c, <2>3 DEF Call, Idle
  <2> QED BY <1>c, <2>1, <2>4, <2>5, <2>6 DEF Begin, InFlight
<1>11. ASSUME Inspect PROVE InStep'
  BY <1>11, <1>c DEF Inspect
<1>12. ASSUME GetRecommendation PROVE InStep'
  BY <1>12, <1>c DEF GetRecommendation
<1>13. ASSUME BuildContract PROVE InStep'
  BY <1>13, <1>c DEF BuildContract
<1>14. ASSUME Run PROVE InStep'
  BY <1>14, <1>c DEF Run
<1>15. ASSUME RunComplete PROVE InStep'
  BY <1>15, <1>c DEF RunComplete
<1>16. ASSUME NEW s \in Slots, Answered(s) PROVE InStep'
  <2>1. CallOK(calls[s])
    BY DEF TypeOK, CallsOK
  <2>2. Ends(s) /\ s \in Busy => ~overlapped /\ Busy' = {} /\ calls[s].from = step
    <3> SUFFICES ASSUME Ends(s), s \in Busy
                 PROVE  ~overlapped /\ Busy' = {} /\ calls[s].from = step
      OBVIOUS
    <3>1. ~overlapped /\ \A t \in Slots : t # s => calls[t] = Idle
      BY DEF Ends, Busy
    <3>2. \A t \in Slots : calls'[t] = Idle
      BY <3>1 DEF Ends, TypeOK, CallsOK
    <3> QED BY <3>1, <3>2 DEF Busy
  <2>3. Busy' = {} => InFlight({"results"})' = {}
    BY DEF Busy, InFlight, Idle
  <2>4. calls[s].kind # "idle" => s \in Busy
    BY DEF Busy, Idle
  <2>5. CASE InspectAnswered(s)
    <3>1. Ends(s) /\ s \in Busy
      BY <2>4, <2>5 DEF InspectAnswered
    <3>2. CASE calls[s].kind = "inspect"
      <4>1. step = 1 /\ calls[s].from = 1
        BY <2>1, <2>2, <3>1, <3>2 DEF CallOK, StepOf
      <4>2. completed' = completed \cup {1} /\ step' = 2
        BY <2>5, <3>2, <4>1 DEF InspectAnswered, Advance
      <4> QED BY <2>2, <2>3, <2>5, <3>1, <4>2 DEF InspectAnswered
    <3>3. CASE calls[s].kind = "retry"
      <4>1. step = 2
        BY <2>1, <2>2, <3>1, <3>3 DEF CallOK, StepOf
      <4>2. completed' = completed \cup {1} /\ step' = 2
        BY <2>5, <3>3, <4>1 DEF InspectAnswered
      <4> QED BY <2>2, <2>3, <2>5, <3>1, <4>2 DEF InspectAnswered
    <3> QED BY <2>5, <3>2, <3>3 DEF InspectAnswered
  <2>6. CASE RecommendAnswered(s)
    <3>1. Ends(s) /\ s \in Busy
      BY <2>4, <2>6 DEF RecommendAnswered
    <3>2. step = 5
      BY <2>1, <2>2, <2>6, <3>1 DEF RecommendAnswered, CallOK, StepOf
    <3> QED BY <1>0, <2>2, <2>3, <2>6, <3>1, <3>2 DEF RecommendAnswered, Advance
  <2>7. CASE ContractAnswered(s)
    <3>1. Ends(s) /\ s \in Busy
      BY <2>4, <2>7 DEF ContractAnswered
    <3>2. step = 7
      BY <2>1, <2>2, <2>7, <3>1 DEF ContractAnswered, CallOK, StepOf
    <3> QED BY <1>0, <2>2, <2>3, <2>7, <3>1, <3>2 DEF ContractAnswered, Advance
  <2>8. CASE RunAccepted(s)
    <3>1. Ends(s) /\ s \in Busy
      BY <2>4, <2>8 DEF RunAccepted
    <3>2. step = 9
      BY <2>1, <2>2, <2>8, <3>1 DEF RunAccepted, CallOK, StepOf
    <3> QED BY <2>2, <2>3, <2>8, <3>1, <3>2 DEF RunAccepted
  <2>9. CASE ResultsAnswered(s)
    <3>1. Ends(s) /\ s \in Busy
      BY <2>4, <2>9 DEF ResultsAnswered
    <3>2. step = 9 /\ calls[s].run = run /\ run # 0
      BY <2>1, <2>2, <2>9, <3>1 DEF ResultsAnswered, CallOK, StepOf, InFlight
    <3> QED BY <1>0, <2>2, <2>3, <2>9, <3>1, <3>2 DEF ResultsAnswered, Advance
  <2>10. CASE CallFails(s)
    <3>1. Ends(s) /\ s \in Busy
      BY <2>10 DEF CallFails
    <3> QED BY <2>2, <2>3, <2>10, <3>1 DEF CallFails
  <2> QED BY <1>16, <2>5, <2>6, <2>7, <2>8, <2>9, <2>10 DEF Answered
<1>17. CASE UNCHANGED vars
  BY <1>17 DEF Busy, InFlight
<1> QED BY <1>1, <1>2, <1>3, <1>4, <1>5, <1>6, <1>7, <1>8, <1>9, <1>10, <1>11, <1>12, <1>13, <1>14,
           <1>15, <1>16, <1>17, <1>e, <1>p, <1>t DEF Next

(* To a user who waits no answer comes but the one to what the form says, and the step *)
(* at which he is.                                                                      *)
LEMMA PatientAnswer ==
  ASSUME TypeOK, InStep, NEW s \in Slots, Answered(s), ~overlapped'
  PROVE  /\ s \in Busy /\ ~overlapped /\ Busy' = {} /\ calls[s].from = step
         /\ CallOK(calls[s]) /\ calls[s].kind # "idle"
<1>1. calls[s].kind # "idle" => s \in Busy
  BY DEF Busy, Idle
<1>2. CallOK(calls[s])
  BY DEF TypeOK, CallsOK
<1>3. s \in Busy /\ Ends(s)
  BY <1>1 DEF Answered, InspectAnswered, RecommendAnswered, ContractAnswered, RunAccepted,
     ResultsAnswered, CallFails
<1>4. ~overlapped /\ calls[s].from = step /\ \A t \in Slots : t # s => calls[t] = Idle
  BY <1>3 DEF Ends, InStep, Busy
<1>5. \A t \in Slots : calls'[t] = Idle
  BY <1>3, <1>4 DEF Ends, TypeOK, CallsOK
<1>6. calls[s].kind # "idle"
  BY <1>2, <1>3 DEF Busy, CallOK
<1> QED BY <1>2, <1>3, <1>4, <1>5, <1>6 DEF Busy

LEMMA UpToDateInvariant == TypeOK /\ InStep /\ UpToDate /\ [Next]_vars => UpToDate'
<1> SUFFICES ASSUME TypeOK, InStep, UpToDate, [Next]_vars, ~overlapped' PROVE UpToDate'
  BY DEF UpToDate
<1> USE DEF vars, place, form, answers
<1>0. step \in 1..10 /\ completed \subseteq 1..9
  BY DEF TypeOK, PageOK, Steps
<1>a. Act => Busy = {} /\ ~overlapped
  BY DEF Act
<1>b. Busy' = {} => \A k \in SUBSET (Kinds \ {"idle"}) : InFlight(k)' = {}
  BY DEF Busy, InFlight, Idle
<1>c. Busy' = {} /\ (step' = 9 /\ 9 \notin completed' => confirmed') => UpToDate'
  <2>1. {"inspect", "retry"} \in SUBSET (Kinds \ {"idle"})
        /\ {"recommend", "contract", "run"} \in SUBSET (Kinds \ {"idle"})
        /\ {"run"} \in SUBSET (Kinds \ {"idle"})
    BY DEF Kinds
  <2> QED BY <1>b, <2>1 DEF UpToDate
<1>d. Busy = {} /\ UNCHANGED calls => Busy' = {}
  BY DEF Busy
<1>1. CASE \/ \E d \in Datasets \cup {"none"} : EnterDataset(d)
           \/ \E m \in Modes : ChooseMode(m)
           \/ \E e \in Extras : ToggleExtra(e)
           \/ \E fmt \in Overrides : OverrideFormat(fmt)
           \/ \E m \in Remapped : MapField(m[1], m[2])
           \/ Acknowledge \/ ToggleProbability \/ Confirm
           \/ \E a \in Tickable \cap Analyses : ToggleAnalysis(a)
           \/ \E t \in Tickable \cap Plots : TogglePlot(t)
  <2>1. Act /\ UNCHANGED <<place, calls>> /\ (confirmed' = confirmed \/ step = 8)
    BY <1>1 DEF EnterDataset, ChooseMode, ToggleExtra, OverrideFormat, MapField, Acknowledge,
       ToggleProbability, ToggleAnalysis, TogglePlot, Confirm, Edit
  <2> QED BY <1>a, <1>c, <1>d, <2>1 DEF UpToDate
<1>2. CASE Back \/ (\E t \in Steps : JumpTo(t))
  <2>1. Act /\ UNCHANGED <<completed, calls>>
    BY <1>2 DEF Back, JumpTo, MoveTo, Edit
  <2>2. step' \in completed
    BY <1>0, <1>2, <1>a, <2>1 DEF Back, JumpTo, MoveTo, InStep
  <2> QED BY <1>a, <1>c, <1>d, <2>1, <2>2
<1>3. CASE ContinueAtOnce
  <2>1. Act /\ UNCHANGED <<form, calls>> /\ (step = 8 => confirmed) /\ step' = step + 1
    BY <1>0, <1>3 DEF ContinueAtOnce, Advance
  <2> QED BY <1>0, <1>a, <1>c, <1>d, <2>1
<1>4. CASE Inspect \/ GetRecommendation \/ BuildContract \/ Run \/ RunComplete
  <2>1. PICK kind, p, r : /\ Begin(kind, p, r)
                          /\ kind \in {"inspect", "retry"} => p.dataset = dataset
                          /\ kind \in {"recommend", "contract", "run"} => p = Plan
                          /\ kind = "run" => validation # "fail"
    <3>1. [NoPlan EXCEPT !.dataset = dataset].dataset = dataset
      BY DEF NoPlan, PlanOf
    <3> DEFINE asked == [NoPlan EXCEPT !.dataset = dataset]
    <3>2. CASE Inspect
      <4>1. \E k \in {"inspect", "retry"} : Begin(k, asked, 0)
        BY <3>2 DEF Inspect
      <4>2. asked.dataset = dataset
        BY <3>1
      <4> HIDE DEF asked
      <4> QED BY <4>1, <4>2
    <3>3. CASE GetRecommendation
      BY <3>3 DEF GetRecommendation
    <3>4. CASE BuildContract
      BY <3>4 DEF BuildContract
    <3>5. CASE Run
      BY <3>5 DEF Run
    <3>6. CASE RunComplete
      BY <3>6 DEF RunComplete
    <3> QED BY <1>4, <3>2, <3>3, <3>4, <3>5, <3>6
  <2>2. Busy = {} /\ ~overlapped /\ UNCHANGED <<place, form, inspection, validation>> /\ Plan' = Plan
    BY <1>a, <2>1 DEF Begin, Plan, Given
  <2>3. PICK s \in Slots : calls' = [calls EXCEPT ![s] = Call(kind, p, r)]
    BY <2>1 DEF Begin
  <2>4. \A t \in Slots : calls'[t] = IF t = s THEN Call(kind, p, r) ELSE Idle
    BY <2>2, <2>3 DEF Busy, TypeOK, CallsOK
  <2>5. \A t \in Slots : calls'[t].kind \in Kinds \ {"idle"}
          => calls'[t].kind = kind /\ calls'[t].plan = p
    BY <2>4 DEF Call, Idle
  <2> QED BY <2>1, <2>2, <2>5 DEF UpToDate, InFlight, Kinds
<1>5. ASSUME NEW s \in Slots, Answered(s) PROVE UpToDate'
  <2>1. /\ ~overlapped /\ Busy' = {} /\ calls[s].from = step
        /\ CallOK(calls[s]) /\ calls[s].kind # "idle"
    BY <1>5, PatientAnswer
  <2>2. CASE RunAccepted(s) \/ CallFails(s)
    BY <1>c, <2>1, <2>2 DEF RunAccepted, CallFails, UpToDate
  <2>3. CASE InspectAnswered(s)
    <3>1. step \in {1, 2} /\ step' = 2
      BY <2>1, <2>3 DEF InspectAnswered, Advance, CallOK, StepOf
    <3> QED BY <1>c, <2>1, <3>1
  <2>4. CASE RecommendAnswered(s) \/ ContractAnswered(s) \/ ResultsAnswered(s)
    <3>1. step \in {5, 7, 9} /\ step' = step + 1
      BY <2>1, <2>4 DEF RecommendAnswered, ContractAnswered, ResultsAnswered, Advance, CallOK, StepOf
    <3> QED BY <1>c, <2>1, <3>1
  <2> QED BY <1>5, <2>2, <2>3, <2>4 DEF Answered
<1>6. CASE UNCHANGED vars
  BY <1>6 DEF UpToDate, InFlight, Plan, Given
<1> QED BY <1>1, <1>2, <1>3, <1>4, <1>5, <1>6 DEF Next

(* The invariant is inductive. *)
THEOREM InvariantHolds == Spec => []IInv
<1>1. IInv /\ [Next]_vars => IInv'
  BY TypeInvariant, AnswersInvariant, InStepInvariant, UpToDateInvariant DEF IInv
<1> QED BY <1>1, InitInvariant, PTL DEF Spec

(* However many calls may be in flight, a user who waits for each is never past a step *)
(* he has not been through.                                                            *)
THEOREM StepsInOrder == Spec => []NoStepSkipped
<1>1. IInv => NoStepSkipped
  BY DEF IInv, InStep, NoStepSkipped
<1> QED BY <1>1, InvariantHolds, PTL

-----------------------------------------------------------------------------
(* With a dataset, and neither model, predictions nor a curve, the page's plans pass   *)
(* the guardrails whenever they are made of what is offered for them.                  *)
LEMMA DatasetOnlyPasses ==
  ASSUME NEW p \in Plans, p.has \subseteq {"ground_truth"}, "roc_curve" \notin p.plots,
         p # NoPlan, p.format # "none",
         p.analyses # {}, p.analyses \subseteq Recommended(Request(p))
  PROVE  Verdict(p) # "fail"
<1>1. ~p.sensitive /\ p.plots \subseteq Plots
  BY DEF Plans
<1>2. {"predictions", "model"} \cap Request(p).has = {}
  BY DEF Request
<1>3. Request(p).mappings = p.mappings
  BY DEF Request
<1>4. Request(p).format = "maskott_csv_v1" => p.format = "maskott_csv_v1"
  BY DEF Request
<1>5. p.format \notin UnsupportedFormats
  BY DEF Plans, UnsupportedFormats, KnownFormats, AllFormats, TabularFormats, XapiFormats
<1> QED BY <1>1, <1>2, <1>3, <1>4, <1>5, OfferedPlanPasses

(* Without a model, predictions or a curve, whatever the user maps, clears and      *)
(* overrides and whenever the answers come, what is offered is not blocked.         *)
THEOREM OfferPasses == Spec => []RecommendedPasses
<1>1. IInv => RecommendedPasses
  <2> SUFFICES ASSUME TypeOK, AnswersFit, contract # NoPlan, contract.analyses # {},
                      contract.has \subseteq {"ground_truth"}, "roc_curve" \notin contract.plots,
                      contract.analyses \subseteq Recommended(Request(contract))
               PROVE  validation # "fail"
    BY DEF IInv, RecommendedPasses
  <2>1. contract \in Plans /\ validation = Verdict(contract)
    BY DEF TypeOK, PageOK, AnswersFit
  <2>2. contract.format # "none"
    <3> SUFFICES ASSUME contract.format = "none" PROVE FALSE
      OBVIOUS
    <3>1. Request(contract).format = "none"
      BY DEF Request
    <3>2. \A a \in Analyses : "none" \notin Registry[a].formats
      BY DEF Analyses, Registry, Entry, AllFormats, TabularFormats, XapiFormats
    <3> QED BY <3>1, <3>2 DEF Recommended, Available
  <2> QED BY <2>1, <2>2, DatasetOnlyPasses
<1> QED BY <1>1, InvariantHolds, PTL

-----------------------------------------------------------------------------
(* Whatever files are at hand. *)

(* A plan of the page names none of the keys the guardrails look up.                   *)
LEMMA PlansNameNoModel ==
  ASSUME NEW p \in Plans
  PROVE  p.inputs \cap ModelKeys = {} /\ ~p.sensitive /\ p.plots \subseteq Plots
<1>1. {InputKey[e] : e \in Extras} \subseteq {"model_path", "prediction_path", "ground_truth_path"}
  BY ShellAssumption DEF InputKey
<1>2. /\ p.inputs \subseteq {"dataset_path", "has_probability_output"}
                             \cup {InputKey[e] : e \in Extras}
      /\ ~p.sensitive /\ p.plots \subseteq Plots
  BY DEF Plans
<1> QED BY <1>1, <1>2 DEF ModelKeys

(* What the page asks the recommender about a plan is what the plan says.              *)
LEMMA RequestOfPlan ==
  ASSUME NEW p \in Plans, p.analyses # {}, p.analyses \subseteq Recommended(Request(p))
  PROVE  /\ Request(p).mappings = p.mappings
         /\ Request(p).format = "maskott_csv_v1" => p.format = "maskott_csv_v1"
         /\ "group" \in Request(p).has => Mapped(p, "group_field")
         /\ p.format \notin UnsupportedFormats
<1>1. "group" \in Request(p).has => Mapped(p, "group_field")
  BY ShellAssumption DEF Request, Plans
<1>2. p.format \notin UnsupportedFormats
  BY DEF Plans, UnsupportedFormats, KnownFormats, AllFormats, TabularFormats, XapiFormats
<1> QED BY <1>1, <1>2 DEF Request

(* Step 8 blocks of what was offered what RefusedOffer names and nothing else, whatever *)
(* the user has at hand, maps, clears and overrides, and whenever the answers come.     *)
THEOREM OffersJudged == Spec => []OfferJudged
<1>1. IInv => OfferJudged
  <2> SUFFICES ASSUME TypeOK, AnswersFit, contract # NoPlan, contract.analyses # {},
                      contract.analyses \subseteq Recommended(Request(contract))
               PROVE  validation = "fail" <=> RefusedOffer(contract)
    BY DEF IInv, OfferJudged
  <2>1. contract \in Plans /\ validation = Verdict(contract)
    BY DEF TypeOK, PageOK, AnswersFit
  <2> QED BY <2>1, PlansNameNoModel, RequestOfPlan, OfferBlockedIff
<1> QED BY <1>1, InvariantHolds, PTL

(* The analyses for which a recommender's predictions or a model is needed never run   *)
(* from this page, however its calls overlap: create_run validates again.              *)
THEOREM ModelAnalysesNeverRun ==
  Spec => [][accepted' # accepted =>
               \E s \in Slots : /\ calls[s].kind = "run"
                               /\ (Recommender \cup {"model_comparison"})
                                      \cap calls[s].plan.analyses = {}]_vars
<1>1. ASSUME TypeOK, [Next]_vars, accepted' # accepted
      PROVE  \E s \in Slots : /\ calls[s].kind = "run"
                             /\ (Recommender \cup {"model_comparison"})
                                    \cap calls[s].plan.analyses = {}
  <2>1. PICK s \in Slots : RunAccepted(s)
    BY <1>1 DEF Next, EnterDataset, ChooseMode, ToggleExtra, OverrideFormat, MapField, Acknowledge,
       ToggleProbability, ToggleAnalysis, TogglePlot, Confirm, Back, JumpTo, MoveTo, ContinueAtOnce, Inspect, GetRecommendation, BuildContract, Run,
       RunComplete, Begin, Answered, InspectAnswered, RecommendAnswered, ContractAnswered,
       ResultsAnswered, CallFails, vars
  <2>2. calls[s].plan \in Plans /\ calls[s].kind = "run" /\ ~Blocked(calls[s].plan)
    BY <1>1, <2>1 DEF RunAccepted, TypeOK, CallsOK, CallOK, Verdict
  <2>3. calls[s].plan.inputs \cap ModelKeys = {}
    BY <2>2, PlansNameNoModel
  <2>4. check_recommender_requires_predictions(calls[s].plan)
          /\ check_model_explanation_requires_model(calls[s].plan)
    BY <2>2 DEF Blocked
  <2> QED BY <2>2, <2>3, <2>4 DEF check_recommender_requires_predictions,
             check_model_explanation_requires_model, ModelKeys
<1>2. IInv /\ [Next]_vars =>
        [accepted' # accepted =>
           \E s \in Slots : /\ calls[s].kind = "run"
                           /\ (Recommender \cup {"model_comparison"})
                                  \cap calls[s].plan.analyses = {}]_vars
  BY <1>1 DEF IInv
<1> QED BY <1>2, InvariantHolds, PTL DEF Spec

-----------------------------------------------------------------------------
(* The guide of the user who waits. *)

PlanKeys ==
  {"dataset", "format", "mappings", "analyses", "plots", "inputs", "has", "sensitive",
   "acknowledged"}

LEMMA PlanFields ==
  /\ DOMAIN Plan = PlanKeys
  /\ Plan.dataset = dataset /\ Plan.mappings = mappings /\ Plan.analyses = selected
  /\ Plan.format = (IF KnownFormat THEN inspection ELSE "generic_csv_tabular")
  /\ Plan.inputs = {"dataset_path"} \cup {InputKey[e] : e \in extras}
                     \cup {k \in {"has_probability_output"} : probable}
  /\ Plan.plots = plots /\ Plan.has = Given
  /\ Plan.sensitive = FALSE /\ Plan.acknowledged = acked
BY DEF Plan, Given, PlanOf, PlanKeys, KnownFormat

LEMMA PlanFieldsNext ==
  /\ DOMAIN Plan' = PlanKeys
  /\ Plan'.dataset = dataset' /\ Plan'.mappings = mappings' /\ Plan'.analyses = selected'
  /\ Plan'.format = (IF KnownFormat' THEN inspection' ELSE "generic_csv_tabular")
  /\ Plan'.inputs = {"dataset_path"} \cup {InputKey[e] : e \in extras'}
                     \cup {k \in {"has_probability_output"} : probable'}
  /\ Plan'.plots = plots' /\ Plan'.has = Given'
  /\ Plan'.sensitive = FALSE /\ Plan'.acknowledged = acked'
BY DEF Plan, Given, PlanOf, PlanKeys, KnownFormat

(* Which records a plan with other fields is equal to. *)
LEMMA PlanExcept ==
  ASSUME NEW p, NEW q, p = [x \in PlanKeys |-> p[x]], q = [x \in PlanKeys |-> q[x]]
  PROVE  /\ \A a, c : q = [p EXCEPT !.analyses = a, !.plots = c]
               <=> /\ q.analyses = a /\ q.plots = c
                   /\ \A x \in PlanKeys \ {"analyses", "plots"} : q[x] = p[x]
         /\ \A f, m : q = [p EXCEPT !.format = f, !.mappings = m]
               <=> /\ q.format = f /\ q.mappings = m
                   /\ \A x \in PlanKeys \ {"format", "mappings"} : q[x] = p[x]
         /\ \A f, k : q = [p EXCEPT !.format = f, !.inputs = k]
               <=> /\ q.format = f /\ q.inputs = k
                   /\ \A x \in PlanKeys \ {"format", "inputs"} : q[x] = p[x]
BY DEF PlanKeys

LEMMA PlansAreRecords ==
  /\ Plan = [x \in PlanKeys |-> Plan[x]] /\ Plan' = [x \in PlanKeys |-> Plan'[x]]
  /\ NoPlan = [x \in PlanKeys |-> NoPlan[x]]
BY DEF Plan, Given, NoPlan, PlanOf, PlanKeys

LEMMA GuideBegins == Init => Guide!Init
<1> SUFFICES ASSUME Init PROVE Guide!Init
  OBVIOUS
<1>1. {"dataset_path"} \cup {InputKey[e] : e \in extras}
         \cup {k \in {"has_probability_output"} : probable} = {"dataset_path"}
  BY DEF Init
<1>2. /\ NoPlan.dataset = "none" /\ NoPlan.mappings = Unmapped /\ NoPlan.analyses = {}
      /\ NoPlan.sensitive = FALSE /\ NoPlan.acknowledged = FALSE
      /\ NoPlan.plots = {} /\ NoPlan.has = {}
  BY DEF NoPlan, PlanOf
<1>3. /\ Plan.dataset = "none" /\ Plan.mappings = Unmapped /\ Plan.analyses = {}
      /\ Plan.format = "generic_csv_tabular" /\ Plan.inputs = {"dataset_path"}
      /\ Plan.sensitive = FALSE /\ Plan.acknowledged = FALSE
      /\ Plan.plots = {} /\ Plan.has = {}
  BY <1>1, PlanFields DEF Init, KnownFormat, Given
<1>4. \A x \in PlanKeys \ {"format", "inputs"} : Plan[x] = NoPlan[x]
  BY <1>2, <1>3 DEF PlanKeys
<1>5. Plan = [NoPlan EXCEPT !.format = "generic_csv_tabular", !.inputs = {"dataset_path"}]
  BY <1>3, <1>4, PlansAreRecords, PlanExcept
<1> QED BY <1>5 DEF Init, Guide!Init, KnownFormat

(* Which fields of the plan a step leaves alone. *)
LEMMA FieldsKept ==
  /\ DOMAIN Plan = PlanKeys
  /\ dataset' = dataset => Plan'.dataset = Plan.dataset
  /\ mappings' = mappings => Plan'.mappings = Plan.mappings
  /\ selected' = selected => Plan'.analyses = Plan.analyses
  /\ plots' = plots => Plan'.plots = Plan.plots
  /\ acked' = acked => Plan'.acknowledged = Plan.acknowledged
  /\ Plan'.sensitive = Plan.sensitive
  /\ inspection' = inspection => Plan'.format = Plan.format /\ KnownFormat' = KnownFormat
  /\ extras' = extras /\ probable' = probable => Plan'.inputs = Plan.inputs
  /\ extras' = extras /\ mode' = mode => Plan'.has = Plan.has
<1>1. extras' = extras /\ probable' = probable => Plan'.inputs = Plan.inputs
  <2> DEFINE Keys(x, b) == {"dataset_path"} \cup {InputKey[e] : e \in x}
                             \cup {k \in {"has_probability_output"} : b}
  <2>1. Plan.inputs = Keys(extras, probable) /\ Plan'.inputs = Keys(extras', probable')
    BY PlanFields, PlanFieldsNext
  <2> HIDE DEF Keys
  <2> QED BY <2>1
<1>2. extras' = extras /\ mode' = mode => Plan'.has = Plan.has
  BY PlanFields, PlanFieldsNext DEF Given
<1>3. inspection' = inspection => Plan'.format = Plan.format /\ KnownFormat' = KnownFormat
  BY PlanFields, PlanFieldsNext DEF KnownFormat
<1> QED BY <1>1, <1>2, <1>3, PlanFields, PlanFieldsNext

(* What the user does without a call. *)
LEMMA GuideByHand ==
  ASSUME IInv, ~overlapped, ~overlapped',
         \/ \E d \in Datasets \cup {"none"} : EnterDataset(d)
         \/ \E m \in Modes : ChooseMode(m)
         \/ \E e \in Extras : ToggleExtra(e)
         \/ \E fmt \in Overrides : OverrideFormat(fmt)
         \/ \E m \in Remapped : MapField(m[1], m[2])
         \/ Acknowledge \/ ToggleProbability
         \/ \E a \in Tickable \cap Analyses : ToggleAnalysis(a)
         \/ \E t \in Tickable \cap Plots : TogglePlot(t)
  PROVE  Guide!Fill
<1> USE FieldsKept DEF place, answers, PlanKeys, Guide!Changes
<1>1. CASE \E d \in Datasets \cup {"none"} : EnterDataset(d)
  BY <1>1 DEF EnterDataset, Guide!Fill
<1>m. CASE \E m \in Modes : ChooseMode(m)
  BY <1>m DEF ChooseMode, Guide!Fill
<1>e. CASE \E e \in Extras : ToggleExtra(e)
  BY <1>e DEF ToggleExtra, Guide!Fill
<1>2. CASE \E fmt \in Overrides : OverrideFormat(fmt)
  <2>1. "null" \notin Overrides /\ "unsupported" \notin Overrides
    BY ShellAssumption DEF KnownFormats, AllFormats, TabularFormats, XapiFormats
  <2>2. KnownFormat /\ KnownFormat' /\ step = 2 /\ UNCHANGED form
        /\ UNCHANGED <<place, scope, contract, validation, run, results>>
    BY <1>2, <2>1 DEF OverrideFormat, KnownFormat
  <2> QED BY <2>2 DEF form, Guide!Fill
<1>3. CASE \E m \in Remapped : MapField(m[1], m[2])
  <2>1. /\ step = 3 /\ KnownFormat
        /\ UNCHANGED <<place, dataset, mode, extras, acked, probable, selected, plots,
                       confirmed, answers>>
    BY <1>3 DEF MapField, KnownFormat
  <2> QED BY <2>1 DEF Guide!Fill
<1>p. CASE ToggleProbability
  BY <1>p DEF ToggleProbability, Guide!Fill
<1>t. CASE \E t \in Tickable \cap Plots : TogglePlot(t)
  BY <1>t DEF TogglePlot, Guide!Fill
<1>4. CASE Acknowledge
  BY <1>4 DEF Acknowledge, Guide!Fill
<1>5. CASE \E a \in Tickable \cap Analyses : ToggleAnalysis(a)
  <2>1. selected \subseteq scope
    BY DEF IInv, AnswersFit
  <2>2. selected' \subseteq scope /\ Plan'.analyses = selected'
    BY <1>5, <2>1, PlanFieldsNext DEF ToggleAnalysis, Toggled
  <2> QED BY <1>5, <2>2 DEF ToggleAnalysis, Guide!Fill
<1> QED BY <1>1, <1>m, <1>e, <1>2, <1>3, <1>4, <1>5, <1>p, <1>t

(* Continue, Back and the list of steps. *)
LEMMA GuideMoves ==
  ASSUME IInv, ~overlapped, Confirm \/ Back \/ (\E t \in Steps : JumpTo(t)) \/ ContinueAtOnce
  PROVE  Guide!Confirm \/ Guide!Revisit \/ Guide!Proceed
<1> USE DEF place, form, answers
<1>0. step \in 1..10
  BY DEF IInv, TypeOK, PageOK, Steps
<1>1. CASE Confirm
  BY <1>1 DEF Confirm, Guide!Confirm, Plan, Given, KnownFormat
<1>2. CASE Back \/ (\E t \in Steps : JumpTo(t))
  <2>1. step' \in completed
    BY <1>0, <1>2 DEF Back, JumpTo, MoveTo, IInv, InStep
  <2> QED BY <1>2, <2>1 DEF Back, JumpTo, MoveTo, Guide!Revisit, Plan, Given, KnownFormat
<1>3. CASE ContinueAtOnce
  <2>1. Plan' = Plan /\ KnownFormat' = KnownFormat
    BY <1>3 DEF ContinueAtOnce, Plan, Given, KnownFormat
  <2>2. Guide!GoOn
    BY <1>0, <1>3 DEF ContinueAtOnce, Advance, Guide!GoOn
  <2> QED BY <1>3, <2>1, <2>2, PlanFields DEF ContinueAtOnce, KnownFormat, Guide!Proceed
<1> QED BY <1>1, <1>2, <1>3

(* A handler does the rest of its work as if it were still at the click. *)
LEMMA GuideAnswers ==
  ASSUME IInv, ~overlapped', NEW s \in Slots, Answered(s)
  PROVE  Guide!Next \/ UNCHANGED Guide!vars
<1> USE DEF form
<1>0. /\ ~overlapped /\ calls[s].from = step /\ CallOK(calls[s]) /\ step \in 1..10
      /\ s \in Busy
  BY PatientAnswer DEF IInv, TypeOK, PageOK, Steps
<1>g. Advance(calls[s].from) /\ step \in 1..9 => Guide!GoOn
  BY <1>0 DEF Advance, Guide!GoOn
<1>p. calls[s].kind \in {"recommend", "contract", "run"} => calls[s].plan = Plan
  BY <1>0 DEF IInv, UpToDate, InFlight
<1>1. CASE InspectAnswered(s)
  <2> DEFINE outcome == Detected[dataset].format
  <2>1. calls[s].plan.dataset = dataset /\ dataset \in Datasets
    BY <1>0, <1>1 DEF InspectAnswered, IInv, UpToDate, InFlight, CallOK
  <2>2. outcome \in Outcomes /\ outcome # "null"
    BY <2>1, ShellAssumption DEF Outcomes, KnownFormats, AllFormats, TabularFormats, XapiFormats
  <2>3. /\ inspection' = outcome /\ mappings' = PreMapped(Detected[dataset])
        /\ UNCHANGED <<dataset, mode, extras, acked, probable, selected, plots, confirmed, scope, contract, validation,
                       run, results>>
    BY <1>1, <2>1 DEF InspectAnswered
  <2>4. KnownFormat' = FoundIn(dataset).known
    BY <2>2, <2>3 DEF KnownFormat, FoundIn
  <2>5. Plan' = [Plan EXCEPT !.format = FoundIn(dataset).format, !.mappings = FoundIn(dataset).mappings]
    <3>1. FoundIn(dataset).mappings = mappings'
          /\ FoundIn(dataset).format = (IF KnownFormat' THEN inspection' ELSE "generic_csv_tabular")
      BY <2>2, <2>3 DEF KnownFormat, FoundIn
    <3>2. \A x \in PlanKeys \ {"format", "mappings"} : Plan'[x] = Plan[x]
      BY <2>3, PlanFields, PlanFieldsNext DEF PlanKeys, Given
    <3>3. Plan'.format = FoundIn(dataset).format /\ Plan'.mappings = FoundIn(dataset).mappings
      BY <3>1, PlanFieldsNext
    <3> DEFINE p == Plan
               q == Plan'
               f == FoundIn(dataset).format
               m == FoundIn(dataset).mappings
    <3>4. /\ p = [x \in PlanKeys |-> p[x]] /\ q = [x \in PlanKeys |-> q[x]]
          /\ q.format = f /\ q.mappings = m
          /\ \A x \in PlanKeys \ {"format", "mappings"} : q[x] = p[x]
      BY <3>2, <3>3, PlansAreRecords
    <3>5. q = [p EXCEPT !.format = f, !.mappings = m]
      <4> HIDE DEF p, q, f, m
      <4> QED BY <3>4, PlanExcept
    <3> QED BY <3>5
  <2>6. \/ step = 1 /\ Guide!GoOn
        \/ step = 2 /\ UNCHANGED <<step, completed>>
    <3>1. CASE calls[s].kind = "inspect"
      BY <1>0, <1>1, <1>g, <3>1 DEF InspectAnswered, CallOK, StepOf
    <3>2. CASE calls[s].kind = "retry"
      <4>1. step = 2 /\ 1 \in completed
        BY <1>0, <3>2 DEF CallOK, StepOf, IInv, InStep
      <4> QED BY <1>1, <3>2, <4>1 DEF InspectAnswered
    <3> QED BY <1>1, <3>1, <3>2 DEF InspectAnswered
  <2>7. Plan.dataset # [NoPlan EXCEPT !.format = "generic_csv_tabular",
                                      !.inputs = {"dataset_path"}].dataset
    BY <2>1, PlanFields, ShellAssumption DEF NoPlan, PlanOf
  <2> QED BY <2>3, <2>4, <2>5, <2>6, <2>7, PlanFields DEF Guide!Inspect, Guide!Next
<1>2. CASE RecommendAnswered(s)
  <2>1. step = 5 /\ Guide!GoOn /\ scope' = OfferFor(Plan) /\ selected' = OfferFor(Plan)
        /\ plots' = PlotsFor(Plan)
    BY <1>0, <1>2, <1>g, <1>p DEF RecommendAnswered, CallOK, StepOf, OfferFor, PlotsFor
  <2>2. Plan' = [Plan EXCEPT !.analyses = OfferFor(Plan), !.plots = PlotsFor(Plan)]
    <3>1. \A x \in PlanKeys \ {"analyses", "plots"} : Plan'[x] = Plan[x]
      BY <1>2, PlanFields, PlanFieldsNext DEF RecommendAnswered, KnownFormat, PlanKeys, Given
    <3>2. Plan'.analyses = OfferFor(Plan) /\ Plan'.plots = PlotsFor(Plan)
      BY <2>1, PlanFieldsNext
    <3> DEFINE p == Plan
               q == Plan'
               a == OfferFor(Plan)
               c == PlotsFor(Plan)
    <3>3. /\ p = [x \in PlanKeys |-> p[x]] /\ q = [x \in PlanKeys |-> q[x]]
          /\ q.analyses = a /\ q.plots = c
          /\ \A x \in PlanKeys \ {"analyses", "plots"} : q[x] = p[x]
      BY <3>1, <3>2, PlansAreRecords
    <3>4. q = [p EXCEPT !.analyses = a, !.plots = c]
      <4> HIDE DEF p, q, a, c
      <4> QED BY <3>3, PlanExcept
    <3> QED BY <3>4
  <2> QED BY <1>2, <2>1, <2>2 DEF RecommendAnswered, KnownFormat, Guide!Recommend, Guide!Next
<1>3. CASE ContractAnswered(s)
  <2>1. step = 7 /\ Guide!GoOn /\ contract' = Plan /\ validation' = Verdict(Plan) /\ Plan' = Plan
    BY <1>0, <1>3, <1>g, <1>p DEF ContractAnswered, CallOK, StepOf, Plan, Given
  <2> QED BY <1>3, <2>1 DEF ContractAnswered, KnownFormat, Guide!Contract, Guide!Next
<1>4. CASE RunAccepted(s)
  <2>1. /\ step = 9 /\ validation # "fail" /\ Verdict(Plan) # "fail" /\ Plan' = Plan
        /\ (9 \notin completed => confirmed)
    BY <1>0, <1>4, <1>p DEF RunAccepted, CallOK, StepOf, Plan, Given, place, IInv, UpToDate, InFlight
  <2>2. run' = run \/ run' > run
    BY <1>4 DEF RunAccepted, IInv, TypeOK, PageOK
  <2> QED BY <1>4, <2>1, <2>2 DEF RunAccepted, place, KnownFormat, Guide!Run, Guide!Next
<1>5. CASE ResultsAnswered(s)
  <2>1. step = 9 /\ Guide!GoOn /\ results' = run /\ run # 0 /\ Plan' = Plan
    BY <1>0, <1>5, <1>g DEF ResultsAnswered, CallOK, StepOf, Plan, Given, IInv, InStep, InFlight
  <2> QED BY <1>5, <2>1 DEF ResultsAnswered, KnownFormat, Guide!Results, Guide!Next
<1>6. CASE CallFails(s)
  BY <1>6 DEF CallFails, place, Plan, Given, KnownFormat, Guide!vars
<1> QED BY <1>1, <1>2, <1>3, <1>4, <1>5, <1>6, PatientAnswer DEF Answered

(* A page whose user waits for every answer is WizardGuide, with each of its calls one *)
(* step: WizardShell.tsx, handleInspect, handleGetRecommendation, handleBuildContract, *)
(* handleRun and handleRunComplete.                                                    *)
THEOREM GuideImplemented == PatientSpec => ImplementsGuide
<1>1. Init => Guide!Init
  BY GuideBegins
<1>2. IInv /\ ~overlapped /\ [Next /\ ~overlapped']_vars => [Guide!Next]_(Guide!vars)
  <2> SUFFICES ASSUME IInv, ~overlapped, [Next /\ ~overlapped']_vars
               PROVE  Guide!Next \/ UNCHANGED Guide!vars
    OBVIOUS
  <2>1. CASE UNCHANGED vars
    BY <2>1 DEF vars, place, form, answers, Plan, Given, KnownFormat, Guide!vars
  <2>2. CASE Inspect \/ GetRecommendation \/ BuildContract \/ Run \/ RunComplete
    BY <2>2 DEF Inspect, GetRecommendation, BuildContract, Run, RunComplete, Begin, place, form, Plan, Given,
       KnownFormat, Guide!vars
  <2>3. CASE Next /\ ~overlapped'
    BY <2>2, <2>3, GuideByHand, GuideMoves, GuideAnswers DEF Next, Guide!Next
  <2> QED BY <2>1, <2>3
<1>3. PatientSpec => Spec
  <2>1. [Next /\ ~overlapped']_vars => [Next]_vars
    OBVIOUS
  <2> QED BY <2>1, PTL DEF PatientSpec, Spec
<1>4. PatientSpec => []~overlapped
  <2>1. Init => ~overlapped
    BY DEF Init
  <2>2. ~overlapped /\ [Next /\ ~overlapped']_vars => ~overlapped'
    BY DEF vars
  <2> QED BY <2>1, <2>2, PTL DEF PatientSpec
<1> QED BY <1>1, <1>2, <1>3, <1>4, InvariantHolds, PTL DEF PatientSpec, ImplementsGuide, Guide!Spec
=============================================================================
