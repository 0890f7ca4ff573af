---------------------------- MODULE DatasetsPage ----------------------------
(***************************************************************************)
(* The datasets page: a file of the listing, or a path that is typed, is    *)
(* validated, and the verdict is shown under the path that is selected by   *)
(* then.  Only whose verdict it is matters here; a request that fails is a  *)
(* verdict too.                                                             *)
(***************************************************************************)
CONSTANTS
    Files,    \* paths that can be validated
    NoFile

ASSUME FileAssumption == NoFile \notin Files

VARIABLE datasets    \* the state of the page
(* datasets.selected    the path in the field, and above the verdict        *)
(* datasets.result      the path the verdict is about                       *)
(* datasets.validating  whether the buttons are disabled                    *)
(* datasets.calls       the validations under way                           *)
(* datasets.edited      history: the path was edited since the last click   *)

FreshDatasets == [selected |-> NoFile, result |-> NoFile, validating |-> FALSE,
                  calls |-> {}, edited |-> FALSE]

DatasetsTypes ==
    datasets \in [selected : Files \cup {NoFile}, result : Files \cup {NoFile},
                  validating : BOOLEAN, calls : SUBSET Files, edited : BOOLEAN]

MUT_HandleValidate_AnyTime(f) ==
    datasets' = [datasets EXCEPT !.selected = f, !.result = NoFile, !.validating = TRUE,
                                 !.calls = @ \cup {f}, !.edited = FALSE]

(* A click beside a file, or beside the field for what it holds.            *)
HandleValidate(f) ==
    /\ ~datasets.validating
    /\ datasets' = [datasets EXCEPT !.selected = f, !.result = NoFile, !.validating = TRUE,
                                    !.calls = @ \cup {f}, !.edited = FALSE]

Validated(f) ==
    /\ f \in datasets.calls
    /\ datasets' = [datasets EXCEPT !.result = f, !.validating = FALSE, !.calls = @ \ {f}]

(* The field can be edited while a validation is under way, and after.      *)
Edit(f) == datasets' = [datasets EXCEPT !.selected = f, !.edited = TRUE]

DatasetsNext == \E f \in Files : HandleValidate(f) \/ Validated(f) \/ Edit(f)

(* A verdict is shown under the path it is about, unless the path was       *)
(* edited since: no answer to an earlier click comes in between.            *)
VerdictOfSelected ==
    datasets.result # NoFile /\ ~datasets.edited => datasets.result = datasets.selected
=============================================================================
