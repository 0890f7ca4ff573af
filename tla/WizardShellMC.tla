---------------------------- MODULE WizardShellMC ----------------------------
(* Instances of WizardShell for TLC. *)
EXTENDS WizardShell, TLC

CONSTANTS s1, s2

OneSlot == {s1}
TwoSlots == {s1, s2}
Paths == {"maskott.csv", "table.csv", "image.png"}
Found(f, c) == [format |-> f, columns |-> c]
\* One of the standard columns is missing.
InPaths ==
  [d \in Paths |->
     CASE d = "maskott.csv" -> Found("maskott_csv_v1", Standard \ {"session_field"})
       [] d = "table.csv" -> Found("generic_csv_tabular", {})
       [] OTHER -> Found("unsupported", {})]
TwoPaths == {"maskott.csv", "image.png"}
InTwo == [d \in TwoPaths |-> InPaths[d]]
TablePath == {"table.csv"}
InTable == [d \in TablePath |-> Found("generic_csv_tabular", {})]
DatasetOnly == {"dataset_only"}
BothModes == {"dataset_only", "model_aware"}
NoExtras == {}
OnlyModel == {"model"}
AllExtras == {"model", "predictions", "ground_truth"}
NoOverride == {}
OtherFormat == {"unset", "becomino_json"}
NoRemapping == {}
TimeOnly == {<<"timestamp_field", "cleared">>}
Labels ==
  ({"target_field"} \X {"text", "number"})
    \cup ({"prediction_field"} \X {"number", "cleared"})

SomeTicks == {"schema_validation", "temporal_density_profile"}
LabelTicks == {"regression_performance", "temporal_density_histogram", "roc_curve"}

SlotsInterchangeable == Permutations(TwoSlots)
=============================================================================
