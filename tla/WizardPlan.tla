----------------------------- MODULE WizardPlan -----------------------------
(***************************************************************************)
(* What can be analysed, twice over: the recommender (wizard/recommender)  *)
(* offers analyses for an input, the guardrails and the validator          *)
(* (capabilities/guardrails, wizard/validator) accept or refuse a plan.    *)
(* The two read different fields of different requests; a plan made of     *)
(* what the one offers should pass the other.                              *)
(*                                                                         *)
(* Each analysis here stands for all those of the registry that ask for    *)
(* the same and are judged alike; of the plots there are those that some   *)
(* guardrail looks at.  Exports that are not sensitive, and the texts of   *)
(* issues are left out.                                                    *)
(***************************************************************************)

XapiFormats ==
  {"maskott_csv_v1", "becomino_json", "generic_xapi_json", "generic_xapi_jsonl"}
TabularFormats == {"generic_csv_tabular", "parquet_tabular"}
AllFormats == XapiFormats \cup TabularFormats

\* FORMAT_BY_ID also holds formats that no analysis takes as a dataset.
KnownFormats == AllFormats \cup {"model_artifact_sklearn"}

\* (Nothing reads "verb_field", the eighth.)
Roles == {"entity_field", "item_field", "timestamp_field", "session_field",
          "target_field", "prediction_field", "group_field"}

\* The field a role is mapped to: no entry, an entry that was cleared (""), a
\* column of text, a column of numbers.
FieldValues == {"absent", "cleared", "text", "number"}

Unmapped == [f \in Roles |-> "absent"]

Entry(formats, needs, fields) ==
  [formats |-> formats, needs |-> needs, fields |-> fields]

Recommender == {"recommender_precision_at_k", "recommender_diversity"}
Labelled == {"target_field", "prediction_field"}

Registry ==
  [schema_validation |-> Entry(AllFormats, {}, {}),
   becomino_template_inference |-> Entry({"becomino_json"}, {}, {}),
   maskott_csv_to_xapi_transform |-> Entry({"maskott_csv_v1"}, {}, {}),
   verb_distribution |-> Entry(XapiFormats, {}, {}),
   temporal_density_profile |-> Entry(AllFormats, {}, {"timestamp_field"}),
   session_density_profile |->
     Entry(AllFormats, {}, {"session_field", "timestamp_field"}),
   event_frequency_profile |-> Entry(AllFormats, {}, {"entity_field"}),
   resource_type_distribution |-> Entry(AllFormats, {}, {"item_field"}),
   sparsity_analysis |-> Entry(AllFormats, {}, {"entity_field", "item_field"}),
   cooccurrence_summary |-> Entry(XapiFormats, {}, {"entity_field", "item_field"}),
   recommender_diversity |->
     Entry(AllFormats, {"predictions"}, {"entity_field", "item_field"}),
   recommender_precision_at_k |->
     Entry(AllFormats, {"predictions", "ground_truth"}, {"entity_field", "item_field"}),
   classification_performance |->
     Entry(AllFormats, {"predictions", "ground_truth"}, Labelled),
   regression_performance |->
     Entry(TabularFormats, {"predictions", "ground_truth"}, Labelled),
   segment_performance |->
     Entry(TabularFormats, {"predictions", "ground_truth", "group"},
           Labelled \cup {"group_field"}),
   fairness_by_group |->
     Entry(TabularFormats, {"predictions", "ground_truth", "group"},
           Labelled \cup {"group_field"}),
   model_comparison |-> Entry(TabularFormats, {"model"}, {})]

Analyses == DOMAIN Registry

TemporalPlots ==
  {"event_frequency_timeline", "temporal_density_histogram", "session_density_histogram"}

\* "roc_curve" stands for the three that need probabilities.
Plots == TemporalPlots \cup {"roc_curve"}

\* getDefaultPlotsForFormat: those ticked together with an offer.
DefaultPlots(format) ==
  CASE format = "maskott_csv_v1" -> {"temporal_density_histogram", "session_density_histogram"}
    [] format = "becomino_json" -> {"event_frequency_timeline"}
    [] format \in {"generic_xapi_json", "generic_xapi_jsonl"} -> {"temporal_density_histogram"}
    [] OTHER -> {}

-----------------------------------------------------------------------------
(* The recommender.  A request tells the format, the mappings, and what the *)
(* client says it has.                                                      *)

\* _is_analysis_available: a required role must be a key of the mappings.
Available(a, r) ==
  /\ r.format \in Registry[a].formats
  /\ Registry[a].needs \subseteq r.has
  /\ \A f \in Registry[a].fields : r.mappings[f] # "absent"

Recommended(r) == {a \in Analyses : Available(a, r)}

-----------------------------------------------------------------------------
(* The guardrails.  A plan tells the format, the mappings, the analyses, the *)
(* plots, the keys of its inputs, and the privacy settings.                  *)

\* An entry counts only when it names a column.
Mapped(p, f) == p.mappings[f] \notin {"absent", "cleared"}

check_fairness_requires_group(p) ==
  "fairness_by_group" \in p.analyses => Mapped(p, "group_field")

Judged == {"classification_performance", "segment_performance", "fairness_by_group"}

check_classification_requires_labels(p) ==
  Judged \cap p.analyses # {}
    => \A f \in Labelled : Mapped(p, f)

MUT_check_regression_requires_numeric_Mapped(p) ==
  "regression_performance" \in p.analyses => Mapped(p, "target_field")

check_regression_requires_numeric(p) ==
  "regression_performance" \in p.analyses => p.mappings["target_field"] # "text"

check_recommender_requires_predictions(p) ==
  /\ Recommender \cap p.analyses # {}
       => {"predictions_reference", "prediction_file"} \cap p.inputs # {}
  /\ "recommender_precision_at_k" \in p.analyses
       => "ground_truth_reference" \in p.inputs

check_model_explanation_requires_model(p) ==
  "model_comparison" \in p.analyses
    => {"model_reference", "model_file"} \cap p.inputs # {}

check_roc_pr_requires_probabilities(p) ==
  "roc_curve" \in p.plots => "has_probability_output" \in p.inputs

TemporalAnalyses ==
  {"temporal_density_profile", "session_density_profile", "event_frequency_profile"}

check_temporal_requires_timestamp(p) ==
  TemporalAnalyses \cap p.analyses # {} \/ TemporalPlots \cap p.plots # {}
    => Mapped(p, "timestamp_field")

check_xapi_transform_requires_maskott(p) ==
  "maskott_csv_to_xapi_transform" \in p.analyses => p.format = "maskott_csv_v1"

\* Of the guardrail and of the exports' own blocked_without_privacy_ack.
check_raw_identifier_export(p) == p.sensitive => p.acknowledged

\* Formats that are known not to be supported; one stands for all.
UnsupportedFormats == {"raw_image_dataset"}

Blocked(p) ==
  \/ ~check_fairness_requires_group(p)
  \/ ~check_classification_requires_labels(p)
  \/ ~check_regression_requires_numeric(p)
  \/ ~check_recommender_requires_predictions(p)
  \/ ~check_model_explanation_requires_model(p)
  \/ ~check_roc_pr_requires_probabilities(p)
  \/ ~check_xapi_transform_requires_maskott(p)
  \/ ~check_raw_identifier_export(p)
  \/ p.analyses = {}
  \/ ~(p.analyses \subseteq Analyses)
  \/ ~(p.plots \subseteq Plots)
  \/ p.format \in UnsupportedFormats

Warned(p) == ~check_temporal_requires_timestamp(p) \/ p.format \notin KnownFormats

\* validate_plan.
Verdict(p) == IF Blocked(p) THEN "fail" ELSE IF Warned(p) THEN "warn" ELSE "pass"

-----------------------------------------------------------------------------
\* What the guardrails refuse of an offer: what only a model or predictions make available
\* (the page never sends the keys they look up), what reads a column that was cleared or a
\* target that is text, which the recommender counts as mapped, and a curve that was ticked
\* while there were probabilities and cannot be unticked since there are none.
RefusedOffer(p) ==
  \/ (Recommender \cup {"model_comparison"}) \cap p.analyses # {}
  \/ /\ Judged \cap p.analyses # {}
     /\ \E f \in Labelled : p.mappings[f] = "cleared"
  \/ "regression_performance" \in p.analyses /\ p.mappings["target_field"] = "text"
  \/ "roc_curve" \in p.plots /\ "has_probability_output" \notin p.inputs
=============================================================================
