---------------------------- MODULE WizardShell ----------------------------
(***************************************************************************)
(* The page of the guided wizard (frontend/components/wizard/WizardShell). *)
(* Ten steps, a form spread over them, and five calls to the server whose  *)
(* handlers go on after an await: by then the user may have moved, edited  *)
(* the form or clicked again, since only the Run button is disabled while  *)
(* its call is in flight.  A handler that goes on uses the values of the   *)
(* render it was clicked in, except that setStep adds one to the step the  *)
(* page is at by then.                                                     *)
(*                                                                         *)
(* Left out: the texts, presets, plots that no guardrail looks at, and of  *)
(* the model context all but whether there are probabilities.              *)
(***************************************************************************)
EXTENDS WizardPlan, Naturals

CONSTANTS
  Datasets,   \* the paths a user may enter
  Detected,   \* what the inspector finds in each: a format, and standard columns
  Modes,      \* the modes the user may choose
  Extras,     \* of "model", "predictions", "ground_truth": the files at hand
  Overrides,  \* what the format override may be set to; "unset" is its ""
  Remapped,   \* the fields the user may map, and to what
  Tickable,   \* the analyses and plots the user may tick and untick
  Slots,      \* as many calls as there may be in flight at once
  MaxEdits,   \* bound: moves, and changes of dataset, files, format, mappings and analyses
  MaxRuns     \* bound: runs asked for

Outcomes == KnownFormats \cup {"unsupported"}

\* What the columns that the inspector knows by name stand for.
Standard == {"entity_field", "item_field", "timestamp_field", "session_field"}

ASSUME ShellAssumption ==
  /\ Detected \in [Datasets -> [format : Outcomes, columns : SUBSET Standard]]
  /\ Modes \subseteq {"dataset_only", "model_aware"}
  /\ Extras \subseteq {"model", "predictions", "ground_truth"}
  /\ Overrides \subseteq KnownFormats \cup {"unset"}
  /\ Remapped \subseteq Roles \X (FieldValues \ {"absent"})
  /\ Tickable \subseteq Analyses \cup Plots
  /\ "none" \notin Datasets
  /\ MaxEdits \in Nat
  /\ MaxRuns \in Nat

VARIABLES
  step, completed,
  dataset, mode, extras, mappings, acked, probable, selected, plots, confirmed,
  inspection, inspecting, scope, contract, validation, run, results,
  calls,       \* the handlers that wait for an answer
  accepted,    \* how many runs the server has accepted
  overlapped,  \* whether anything was done while a call was in flight
  edits

place == <<step, completed>>
form == <<dataset, mode, extras, mappings, acked, probable, selected, plots, confirmed>>
answers == <<inspection, inspecting, scope, contract, validation, run, results>>
vars == <<place, form, answers, calls, accepted, overlapped, edits>>

Steps == 1..10

\* "has" is what counts as given: model_context goes by it, and the recommender is told.
PlanOf(d, format, maps, chosen, charts, keys, given, ack) ==
  [dataset |-> d, format |-> format, mappings |-> maps, analyses |-> chosen, plots |-> charts,
   inputs |-> keys, has |-> given, sensitive |-> FALSE, acknowledged |-> ack]

NoPlan == PlanOf("none", "none", Unmapped, {}, {}, {}, {}, FALSE)

InputKey == [model |-> "model_path", predictions |-> "prediction_path",
             ground_truth |-> "ground_truth_path"]

\* hasModel, hasPredictions, hasGroundTruth: a file counts in the mode that shows its field.
Given == IF mode = "model_aware" THEN extras ELSE {}

\* buildPlan: what the form amounts to; a file is named in either mode.  None of the exports
\* it lists is sensitive.
Plan ==
  PlanOf(dataset,
         IF inspection \in {"null", "unsupported"} THEN "generic_csv_tabular" ELSE inspection,
         mappings, selected, plots,
         {"dataset_path"} \cup {InputKey[e] : e \in extras}
            \cup {k \in {"has_probability_output"} : probable},
         Given, acked)

\* What the recommender is asked about that form.
Request(p) ==
  [format |-> IF p.format = "unset" THEN "generic_csv_tabular" ELSE p.format,
   mappings |-> p.mappings,
   has |-> p.has \cup {g \in {"group"} : Mapped(p, "group_field")}]

\* The inspector maps by itself what a Maskott file has of the standard columns.
PreMapped(found) ==
  [f \in Roles |-> IF found.format = "maskott_csv_v1" /\ f \in found.columns
                   THEN "text" ELSE "absent"]

\* The plots of the catalogue each need one of these analyses.
PlotNeeds ==
  [event_frequency_timeline |-> {"event_frequency_profile", "temporal_density_profile"},
   temporal_density_histogram |-> {"temporal_density_profile"},
   session_density_histogram |-> {"session_density_profile"},
   roc_curve |-> {"classification_performance"}]

\* isAvailable.
PlotOffered(t) ==
  /\ PlotNeeds[t] \cap selected # {}
  /\ t \in TemporalPlots => Plan.format \in AllFormats
  /\ t = "roc_curve" => /\ Plan.format \in TabularFormats /\ probable
                        /\ {"predictions", "ground_truth"} \subseteq Given

Call(kind, p, r) == [kind |-> kind, from |-> step, plan |-> p, run |-> r]
Idle == [kind |-> "idle", from |-> 0, plan |-> NoPlan, run |-> 0]

InFlight(kinds) == {s \in Slots : calls[s].kind \in kinds}
Busy == {s \in Slots : calls[s] # Idle}

Init ==
  /\ step = 1 /\ completed = {}
  /\ dataset = "none" /\ mode = "dataset_only" /\ extras = {} /\ mappings = Unmapped
  /\ acked = FALSE /\ probable = FALSE /\ selected = {} /\ plots = {} /\ confirmed = FALSE
  /\ inspection = "null" /\ inspecting = FALSE /\ scope = {}
  /\ contract = NoPlan /\ validation = "null" /\ run = 0 /\ results = 0
  /\ calls = [s \in Slots |-> Idle]
  /\ accepted = 0 /\ overlapped = FALSE /\ edits = 0

-----------------------------------------------------------------------------
(* What the user does without a call. *)

Act == overlapped' = (overlapped \/ Busy # {})

Edit == edits < MaxEdits /\ edits' = edits + 1 /\ Act

Toggled(S, e) == IF e \in S THEN S \ {e} ELSE S \cup {e}

\* Step 1.
EnterDataset(d) ==
  /\ step = 1 /\ d # dataset /\ Edit
  /\ dataset' = d
  /\ UNCHANGED <<place, mode, extras, mappings, acked, probable, selected, plots,
                 confirmed, answers, calls, accepted>>

ChooseMode(m) ==
  /\ step = 1 /\ m # mode /\ Act
  /\ mode' = m
  /\ UNCHANGED <<place, dataset, extras, mappings, acked, probable, selected, plots,
                 confirmed, answers, calls, accepted, edits>>

ToggleExtra(e) ==
  /\ step = 1 /\ mode = "model_aware" /\ Edit
  /\ extras' = Toggled(extras, e)
  /\ UNCHANGED <<place, dataset, mode, mappings, acked, probable, selected, plots,
                 confirmed, answers, calls, accepted>>

\* Step 2, not while the spinner is there.  (The page offers the override only where the
\* inspector's confidence is low; the confidence is left out.)
OverrideFormat(fmt) ==
  /\ step = 2 /\ ~inspecting /\ inspection \notin {"null", "unsupported"} /\ Edit
  /\ inspection' = fmt
  /\ UNCHANGED <<place, form, inspecting, scope, contract, validation, run, results,
                 calls, accepted>>

\* Step 3; a field that is taken back stays in the mappings, as "".
MapField(f, v) ==
  /\ step = 3 /\ inspection \notin {"null", "unsupported"} /\ Edit
  /\ mappings' = [mappings EXCEPT ![f] = v]
  /\ UNCHANGED <<place, dataset, mode, extras, acked, probable, selected, plots, confirmed,
                 answers, calls, accepted>>

\* Step 4.
Acknowledge ==
  /\ step = 4 /\ Act
  /\ acked' = ~acked
  /\ UNCHANGED <<place, dataset, mode, extras, mappings, probable, selected, plots,
                 confirmed, answers, calls, accepted, edits>>

\* Step 5, with a model only.
ToggleProbability ==
  /\ step = 5 /\ "model" \in Given /\ Act
  /\ probable' = ~probable
  /\ UNCHANGED <<place, dataset, mode, extras, mappings, acked, selected, plots, confirmed,
                 answers, calls, accepted, edits>>

\* Step 6: only what is available now can be ticked.
ToggleAnalysis(a) ==
  /\ step = 6 /\ a \in scope /\ Edit
  /\ selected' = Toggled(selected, a)
  /\ UNCHANGED <<place, dataset, mode, extras, mappings, acked, probable, plots, confirmed,
                 answers, calls, accepted>>

\* Step 7: a plot that is not available cannot be unticked either.
TogglePlot(t) ==
  /\ step = 7 /\ PlotOffered(t) /\ Act
  /\ plots' = Toggled(plots, t)
  /\ UNCHANGED <<place, dataset, mode, extras, mappings, acked, probable, selected,
                 confirmed, answers, calls, accepted, edits>>

\* Step 8: the box is there with the contract, and dead when an issue blocks.
Confirm ==
  /\ step = 8 /\ contract # NoPlan /\ validation # "fail" /\ Act
  /\ confirmed' = ~confirmed
  /\ UNCHANGED <<place, dataset, mode, extras, mappings, acked, probable, selected, plots,
                 answers, calls, accepted, edits>>

MoveTo(s) ==
  /\ step' = s /\ Edit
  /\ UNCHANGED <<completed, form, answers, calls, accepted>>

Back == step \in 2..9 /\ MoveTo(step - 1)

JumpTo(s) == s \in completed /\ s # step /\ MoveTo(s)

-----------------------------------------------------------------------------
(* Continue.  canContinue is the guard; four of the steps only advance. *)

Advance(from) ==
  /\ completed' = completed \cup {from}
  /\ step' = IF step < 10 THEN step + 1 ELSE 10

MUT_ContinueAtOnce_Unguarded ==
  /\ step \in {2, 3, 4, 6, 8} /\ Act
  /\ step' = IF step = 4 THEN 6 ELSE step + 1
  /\ completed' = completed \cup {step}
  /\ UNCHANGED <<form, answers, calls, accepted, edits>>

ContinueAtOnce ==
  /\ \/ step = 2 /\ inspection \notin {"null", "unsupported"}
     \/ step = 3
     \/ step = 4 /\ acked
     \/ step = 6 /\ selected # {}
     \/ step = 8 /\ confirmed /\ validation # "fail"
  /\ Advance(step) /\ Act
  /\ UNCHANGED <<form, answers, calls, accepted, edits>>

Begin(kind, p, r) ==
  /\ \E s \in Slots : calls[s] = Idle /\ calls' = [calls EXCEPT ![s] = Call(kind, p, r)]
  /\ Act
  /\ UNCHANGED <<place, form, inspection, scope, contract, validation, run, results,
                 accepted, edits>>

\* Step 1, and the Re-inspect button of step 2, which does not advance.
Inspect ==
  /\ dataset # "none" /\ inspecting' = TRUE
  /\ \/ step = 1 /\ Begin("inspect", [NoPlan EXCEPT !.dataset = dataset], 0)
     \/ step = 2 /\ ~inspecting /\ inspection # "null"
          /\ Begin("retry", [NoPlan EXCEPT !.dataset = dataset], 0)

GetRecommendation ==
  step = 5 /\ inspection # "null" /\ Begin("recommend", Plan, 0) /\ UNCHANGED inspecting

BuildContract == step = 7 /\ Begin("contract", Plan, 0) /\ UNCHANGED inspecting

\* The button of step 9.  The page tells the server that the contract is confirmed.
Run ==
  /\ step = 9 /\ validation # "fail" /\ InFlight({"run"}) = {}
  /\ accepted < MaxRuns
  /\ Begin("run", Plan, 0) /\ UNCHANGED inspecting

\* StepRunProgress of step 9 finds the run completed: handleRunComplete.
RunComplete == step = 9 /\ run # 0 /\ Begin("results", NoPlan, run) /\ UNCHANGED inspecting

-----------------------------------------------------------------------------
(* Answers, in any order, to handlers of any age. *)

Ends(s) == calls' = [calls EXCEPT ![s] = Idle] /\ UNCHANGED <<overlapped, edits>>

MUT_InspectAnswered_KeepsMappings(s) ==
  LET c == calls[s]
      found == Detected[c.plan.dataset]
  IN /\ c.kind \in {"inspect", "retry"} /\ Ends(s)
     /\ inspection' = found.format /\ inspecting' = FALSE
     /\ mappings' = IF c.kind = "inspect" THEN PreMapped(found) ELSE mappings
     /\ IF c.kind = "inspect" THEN Advance(c.from)
                              ELSE completed' = completed \cup {1} /\ UNCHANGED step
     /\ UNCHANGED <<dataset, mode, extras, acked, probable, selected, plots, confirmed,
                    scope, contract, validation, run, results, accepted>>

InspectAnswered(s) ==
  LET c == calls[s]
      found == Detected[c.plan.dataset]
  IN /\ c.kind \in {"inspect", "retry"} /\ Ends(s)
     /\ inspection' = found.format /\ mappings' = PreMapped(found) /\ inspecting' = FALSE
     /\ IF c.kind = "inspect" THEN Advance(c.from)
                              ELSE completed' = completed \cup {1} /\ UNCHANGED step
     /\ UNCHANGED <<dataset, mode, extras, acked, probable, selected, plots, confirmed,
                    scope, contract, validation, run, results, accepted>>

MUT_RecommendAnswered_KeepsSelection(s) ==
  LET c == calls[s]
      offer == Recommended(Request(c.plan))
  IN /\ c.kind = "recommend" /\ Ends(s) /\ Advance(c.from)
     /\ scope' = offer /\ selected' = IF selected = {} THEN offer ELSE selected
     /\ plots' = DefaultPlots(c.plan.format)
     /\ UNCHANGED <<dataset, mode, extras, mappings, acked, probable, confirmed,
                    inspection, inspecting, contract, validation, run, results, accepted>>

RecommendAnswered(s) ==
  LET c == calls[s]
      offer == Recommended(Request(c.plan))
  IN /\ c.kind = "recommend" /\ Ends(s) /\ Advance(c.from)
     /\ scope' = offer /\ selected' = offer /\ plots' = DefaultPlots(c.plan.format)
     /\ UNCHANGED <<dataset, mode, extras, mappings, acked, probable, confirmed,
                    inspection, inspecting, contract, validation, run, results, accepted>>

\* validatePlan and getOutputContract of the same plan; the tick is left as it is.
ContractAnswered(s) ==
  LET c == calls[s]
  IN /\ c.kind = "contract" /\ Ends(s) /\ Advance(c.from)
     /\ contract' = c.plan /\ validation' = Verdict(c.plan)
     /\ UNCHANGED <<form, inspection, inspecting, scope, run, results, accepted>>

\* The server validates the plan again, and may be heard or not.
RunAccepted(s) ==
  LET c == calls[s]
  IN /\ c.kind = "run" /\ Verdict(c.plan) # "fail" /\ Ends(s)
     /\ accepted' = accepted + 1
     /\ run' \in {run, accepted + 1}
     /\ UNCHANGED <<place, form, inspection, inspecting, scope, contract, validation, results>>

ResultsAnswered(s) ==
  LET c == calls[s]
  IN /\ c.kind = "results" /\ Ends(s) /\ Advance(c.from)
     /\ results' = c.run
     /\ UNCHANGED <<form, inspection, inspecting, scope, contract, validation, run, accepted>>

\* An error, or no answer: the handler throws and nothing is set.
CallFails(s) ==
  /\ s \in Busy /\ Ends(s)
  /\ inspecting' = (inspecting /\ calls[s].kind \notin {"inspect", "retry"})
  /\ UNCHANGED <<place, form, inspection, scope, contract, validation, run, results, accepted>>

Answered(s) ==
  \/ InspectAnswered(s) \/ RecommendAnswered(s) \/ ContractAnswered(s)
  \/ RunAccepted(s) \/ ResultsAnswered(s) \/ CallFails(s)

Next ==
  \/ \E d \in Datasets \cup {"none"} : EnterDataset(d)
  \/ \E m \in Modes : ChooseMode(m)
  \/ \E e \in Extras : ToggleExtra(e)
  \/ \E fmt \in Overrides : OverrideFormat(fmt)
  \/ \E m \in Remapped : MapField(m[1], m[2])
  \/ Acknowledge
  \/ ToggleProbability
  \/ \E a \in Tickable \cap Analyses : ToggleAnalysis(a)
  \/ \E t \in Tickable \cap Plots : TogglePlot(t)
  \/ Confirm
  \/ Back
  \/ \E s \in Steps : JumpTo(s)
  \/ ContinueAtOnce
  \/ Inspect \/ GetRecommendation \/ BuildContract \/ Run \/ RunComplete
  \/ \E s \in Slots : Answered(s)

Spec == Init /\ [][Next]_vars

-----------------------------------------------------------------------------
(* The user who waits for every answer. *)

PatientSpec == Init /\ [][Next /\ ~overlapped']_vars

KnownFormat == inspection \notin {"null", "unsupported"}
FoundIn(d) ==
  [known |-> Detected[d].format # "unsupported",
   format |-> IF Detected[d].format = "unsupported" THEN "generic_csv_tabular"
              ELSE Detected[d].format,
   mappings |-> PreMapped(Detected[d])]
OfferFor(p) == Recommended(Request(p))
PlotsFor(p) == DefaultPlots(p.format)

Guide ==
  INSTANCE WizardGuide
  WITH at <- step, done <- completed, plan <- Plan, known <- KnownFormat, offer <- scope,
       verdict <- validation, Detect <- FoundIn, Offer <- OfferFor, Charts <- PlotsFor,
       Judge <- Verdict,
       Blank <- [NoPlan EXCEPT !.format = "generic_csv_tabular", !.inputs = {"dataset_path"}],
       NoContract <- NoPlan

\* To him the page does at the click all that it does: the handlers that go on after an
\* await find the form they left, and their answers come in the order of the guide.
ImplementsGuide == Guide!Spec

-----------------------------------------------------------------------------
(* Properties. *)

Kinds == {"idle", "inspect", "retry", "recommend", "contract", "run", "results"}

StepOf == [idle |-> 0, inspect |-> 1, retry |-> 2, recommend |-> 5, contract |-> 7,
           run |-> 9, results |-> 9]

Plans ==
  [dataset : Datasets \cup {"none"}, format : KnownFormats \cup {"unset", "none"},
   mappings : [Roles -> FieldValues], analyses : SUBSET Analyses, plots : SUBSET Plots,
   inputs : SUBSET ({"dataset_path", "has_probability_output"} \cup {InputKey[e] : e \in Extras}),
   has : SUBSET Extras, sensitive : {FALSE}, acknowledged : BOOLEAN]

PageOK ==
  /\ step \in Steps /\ completed \in SUBSET (1..9)
  /\ dataset \in Datasets \cup {"none"} /\ extras \in SUBSET Extras
  /\ mode \in {"dataset_only", "model_aware"} /\ plots \in SUBSET Plots /\ probable \in BOOLEAN
  /\ mappings \in [Roles -> FieldValues]
  /\ acked \in BOOLEAN /\ confirmed \in BOOLEAN /\ overlapped \in BOOLEAN
  /\ inspecting \in BOOLEAN
  /\ inspection \in Outcomes \cup {"null", "unset"}
  /\ scope \in SUBSET Analyses /\ selected \in SUBSET Analyses
  /\ contract \in Plans /\ validation \in {"null", "fail", "warn", "pass"}
  /\ accepted \in Nat /\ run \in 0..accepted /\ results \in 0..accepted /\ edits \in Nat

CallOK(c) ==
  /\ c \in [kind : Kinds, from : 0..9, plan : Plans, run : 0..accepted]
  /\ c.from = StepOf[c.kind]
  /\ c.kind = "idle" => c = Idle
  /\ c.kind \in {"inspect", "retry"} => c.plan.dataset \in Datasets
  /\ c.kind = "contract" => c.plan # NoPlan
  /\ c.kind = "results" => c.run # 0

CallsOK == /\ calls = [s \in Slots |-> calls[s]]
           /\ \A s \in Slots : CallOK(calls[s])

TypeOK == PageOK /\ CallsOK

\* In whatever order the answers come: the analyses ticked are among those offered, the
\* issues shown are those of the contract shown, and step 9 is done with its results.
AnswersFit ==
  /\ selected \subseteq scope
  /\ validation = IF contract = NoPlan THEN "null" ELSE Verdict(contract)
  /\ confirmed => contract # NoPlan
  /\ 9 \in completed => results # 0
  /\ step > 1 \/ completed # {} \/ InFlight(Kinds \ {"idle", "inspect"}) # {}
       => inspection # "null"

\* A page that waits for every answer: one call at most, of the step the page is at, and
\* nothing done beyond the step after the last one completed.
InStep ==
  ~overlapped =>
    /\ \A s, t \in Busy : s = t
    /\ \A s \in Busy : calls[s].from = step
    /\ \A s \in InFlight({"results"}) : calls[s].run = run
    /\ \A c \in completed : \A b \in 1..c : b \in completed
    /\ \A b \in 1..(step - 1) : b \in completed
    /\ step = 10 => results = run /\ run # 0

\* What such a page is asking is about the form as it is, and nobody comes to step 9 for
\* the first time without having confirmed.
UpToDate ==
  ~overlapped =>
    /\ \A s \in InFlight({"inspect", "retry"}) : calls[s].plan.dataset = dataset
    /\ \A s \in InFlight({"recommend", "contract", "run"}) : calls[s].plan = Plan
    /\ InFlight({"run"}) # {} => validation # "fail"
    /\ step = 9 /\ 9 \notin completed => confirmed

\* The invariant the others follow from.
IInv == TypeOK /\ AnswersFit /\ InStep /\ UpToDate

\* A user who waits for every answer never finds himself past a step he has not been
\* through: Continue, Back, the step list and the answers keep step and completedSteps
\* together.  (Two clicks on Continue while a call is in flight do skip a step.)
NoStepSkipped == ~overlapped => \A s \in 1..(step - 1) : s \in completed

\* Steps 6 to 8: a plan made of analyses the recommender offers for it, without a model,
\* predictions or a curve, is not blocked by the guardrails, which read other names and test
\* mappings in another way.
RecommendedPasses ==
  /\ contract # NoPlan /\ contract.analyses # {}
  /\ contract.has \subseteq {"ground_truth"} /\ "roc_curve" \notin contract.plots
  /\ contract.analyses \subseteq Recommended(Request(contract))
  => validation # "fail"

\* And with a model or predictions at hand: exactly what RefusedOffer names is blocked of
\* what is offered, by whatever detours the plan came about.
OfferJudged ==
  /\ contract # NoPlan /\ contract.analyses # {}
  /\ contract.analyses \subseteq Recommended(Request(contract))
  => (validation = "fail" <=> RefusedOffer(contract))

\* Step 8, "User must confirm before running" (docs/guided-analysis-wizard.md): what a user
\* runs who waits for every answer is the plan of the contract on show, and confirmed.
RunsAsConfirmed ==
  [][\A s \in Slots : ~overlapped /\ calls[s].kind # "run" /\ calls'[s].kind = "run"
        => confirmed /\ contract = calls'[s].plan]_vars
=============================================================================
