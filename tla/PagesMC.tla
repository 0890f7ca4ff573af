------------------------------- MODULE PagesMC -------------------------------
(* Small instances of Pages.                                               *)
EXTENDS Pages

CONSTANTS r1, r2, k1, k2, f1, f2, g1, g2, o1, o2, c1, c2

TwoRuns  == {r1, r2}
TwoLoops == {k1, k2}
TwoFiles == {f1, f2}
TwoItems == {g1, g2}
TwoLoads == {o1, o2}
TwoClicks == {c1, c2}

(* A run is audited and its documents looked at; the others share nothing.  *)
AuditTour == {{"audit", "compliance"}, {"datasets"}, {"lists"}, {"access"}}

(* Others fill the list.                                                    *)
EmptyList == {{}}

(* The recipe that exports all: a run that is still going, or has failed,   *)
(* stands for the ones that export less.                                    *)
FullRecipe == {Exports}
=============================================================================
