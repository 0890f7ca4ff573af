----------------------------- MODULE WizardRunMC -----------------------------
(* Instances of WizardRun for TLC. *)
EXTENDS WizardRun

CONSTANTS r1, r2

OneRun == {r1}
TwoRuns == {r1, r2}
AnyFormat == {"tabular", "xapi"}
Tabular == {"tabular"}
AnyFault == {"input", "disk", "mkdir", "crash", "network"}
=============================================================================
