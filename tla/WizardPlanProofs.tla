-------------------------- MODULE WizardPlanProofs --------------------------
(***************************************************************************)
(* When the two judges of a plan agree: what the recommender offers passes *)
(* the guardrails, for every plan, under the conditions the two do not     *)
(* have in common.                                                         *)
(***************************************************************************)
EXTENDS WizardPlan, TLAPS

(* What an analysis that some guardrail looks at asks of the recommender's request. *)
LEMMA Requirements ==
  /\ "fairness_by_group" \in Analyses
  /\ Registry["fairness_by_group"].needs = {"predictions", "ground_truth", "group"}
  /\ Registry["fairness_by_group"].fields = Labelled \cup {"group_field"}
  /\ Registry["segment_performance"].needs = {"predictions", "ground_truth", "group"}
  /\ Registry["segment_performance"].fields = Labelled \cup {"group_field"}
  /\ Registry["classification_performance"].needs = {"predictions", "ground_truth"}
  /\ Registry["classification_performance"].fields = Labelled
  /\ Registry["regression_performance"].needs = {"predictions", "ground_truth"}
  /\ Registry["recommender_diversity"].needs = {"predictions"}
  /\ Registry["recommender_precision_at_k"].needs = {"predictions", "ground_truth"}
  /\ Registry["model_comparison"].needs = {"model"}
  /\ Registry["maskott_csv_to_xapi_transform"].formats = {"maskott_csv_v1"}
BY DEF Analyses, Registry, Entry

(* A plan made of analyses that are offered for it is not blocked, given that the inputs  *)
(* it names are those the guardrails look up, that no role it needs has been cleared,     *)
(* that the target is not text and that curves come with probabilities: of these the      *)
(* recommender knows nothing.                                                             *)
THEOREM OfferedPlanPasses ==
  ASSUME NEW p, NEW r,
         p.analyses # {}, p.analyses \subseteq Recommended(r),
         r.mappings = p.mappings,
         r.format = "maskott_csv_v1" => p.format = "maskott_csv_v1",
         p.format \notin UnsupportedFormats,
         p.sensitive => p.acknowledged, p.plots \subseteq Plots,
         "predictions" \in r.has =>
            /\ "predictions_reference" \in p.inputs
            /\ \A f \in Labelled \cup {"group_field"} : p.mappings[f] # "cleared"
            /\ p.mappings["target_field"] # "text",
         {"predictions", "ground_truth"} \subseteq r.has => "ground_truth_reference" \in p.inputs,
         "model" \in r.has => "model_reference" \in p.inputs,
         "roc_curve" \in p.plots => "has_probability_output" \in p.inputs
  PROVE  Verdict(p) # "fail"
<1>1. \A a \in p.analyses : /\ a \in Analyses
                            /\ r.format \in Registry[a].formats
                            /\ Registry[a].needs \subseteq r.has
                            /\ \A f \in Registry[a].fields : p.mappings[f] # "absent"
  BY DEF Recommended, Available
<1>2. check_fairness_requires_group(p)
  <2> SUFFICES ASSUME "fairness_by_group" \in p.analyses PROVE Mapped(p, "group_field")
    BY DEF check_fairness_requires_group
  <2>1. "predictions" \in r.has /\ p.mappings["group_field"] # "absent"
    BY <1>1, Requirements
  <2> QED BY <2>1 DEF Mapped
<1>3. check_classification_requires_labels(p)
  <2> SUFFICES ASSUME NEW a \in Judged,
                      a \in p.analyses, NEW f \in Labelled
               PROVE  Mapped(p, f)
    BY DEF check_classification_requires_labels
  <2>1. "predictions" \in r.has /\ p.mappings[f] # "absent"
    BY <1>1, Requirements DEF Judged
  <2> QED BY <2>1 DEF Mapped
<1>4. check_regression_requires_numeric(p)
  BY <1>1, Requirements DEF check_regression_requires_numeric
<1>5. check_recommender_requires_predictions(p)
  BY <1>1, Requirements DEF check_recommender_requires_predictions, Recommender
<1>6. check_model_explanation_requires_model(p)
  BY <1>1, Requirements DEF check_model_explanation_requires_model
<1>7. check_xapi_transform_requires_maskott(p)
  BY <1>1, Requirements DEF check_xapi_transform_requires_maskott
<1>8. check_raw_identifier_export(p)
  BY DEF check_raw_identifier_export
<1>9. p.analyses \subseteq Analyses
  BY <1>1
<1>10. ~Blocked(p)
  BY <1>2, <1>3, <1>4, <1>5, <1>6, <1>7, <1>8, <1>9
     DEF Blocked, check_roc_pr_requires_probabilities
<1> QED BY <1>10 DEF Verdict

(* The keys under which the guardrails look for a model or predictions. *)
ModelKeys == {"predictions_reference", "prediction_file", "model_reference", "model_file"}

(* Of an offer that names none of those keys, exactly what RefusedOffer says is blocked:  *)
(* _is_analysis_available against run_all_guardrails, for every request and plan.         *)
THEOREM OfferBlockedIff ==
  ASSUME NEW p, NEW r,
         p.analyses # {}, p.analyses \subseteq Recommended(r),
         r.mappings = p.mappings,
         r.format = "maskott_csv_v1" => p.format = "maskott_csv_v1",
         p.format \notin UnsupportedFormats,
         p.sensitive => p.acknowledged, p.plots \subseteq Plots,
         "group" \in r.has => Mapped(p, "group_field"),
         p.inputs \cap ModelKeys = {}
  PROVE  Verdict(p) = "fail" <=> RefusedOffer(p)
<1>1. \A a \in p.analyses : /\ a \in Analyses
                            /\ r.format \in Registry[a].formats
                            /\ Registry[a].needs \subseteq r.has
                            /\ \A f \in Registry[a].fields : p.mappings[f] # "absent"
  BY DEF Recommended, Available
<1>2. check_fairness_requires_group(p)
  BY <1>1, Requirements DEF check_fairness_requires_group
<1>3. ~check_classification_requires_labels(p)
        <=> /\ Judged \cap p.analyses # {}
            /\ \E f \in Labelled : p.mappings[f] = "cleared"
  <2> SUFFICES ASSUME NEW a \in Judged,
                      a \in p.analyses, NEW f \in Labelled
               PROVE  Mapped(p, f) <=> p.mappings[f] # "cleared"
    BY DEF check_classification_requires_labels
  <2> QED BY <1>1, Requirements DEF Mapped, Judged
<1>4. ~check_regression_requires_numeric(p)
        <=> "regression_performance" \in p.analyses /\ p.mappings["target_field"] = "text"
  BY DEF check_regression_requires_numeric
<1>5. ~check_recommender_requires_predictions(p) <=> Recommender \cap p.analyses # {}
  BY DEF check_recommender_requires_predictions, Recommender, ModelKeys
<1>6. ~check_model_explanation_requires_model(p) <=> "model_comparison" \in p.analyses
  BY DEF check_model_explanation_requires_model, ModelKeys
<1>7. check_xapi_transform_requires_maskott(p)
  BY <1>1, Requirements DEF check_xapi_transform_requires_maskott
<1>8. check_raw_identifier_export(p)
  BY DEF check_raw_identifier_export
<1>9. p.analyses \subseteq Analyses
  BY <1>1
<1>10. Blocked(p) <=> RefusedOffer(p)
  BY <1>2, <1>3, <1>4, <1>5, <1>6, <1>7, <1>8, <1>9
     DEF Blocked, RefusedOffer, check_roc_pr_requires_probabilities
<1> QED BY <1>10 DEF Verdict
=============================================================================
