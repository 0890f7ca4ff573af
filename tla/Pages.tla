-------------------------------- MODULE Pages --------------------------------
(***************************************************************************)
(* The pages of the front end that keep state of their own, over the audit  *)
(* runs and the administrators' lists of the server.  One page is mounted   *)
(* at a time.  Opening another one, or the same anew, begins it afresh:     *)
(* nothing that was under way can change anything any more, except on the   *)
(* server, where it is as if somebody else had asked for it.                *)
(***************************************************************************)
EXTENDS AuditPage, CompliancePage, DatasetsPage, AdminLists, AccessForm

CONSTANTS
    Tours,      \* sets of pages that are visited one after another (bound)
    Backlogs    \* what may be on the administrators' list at first (bound)

ASSUME BacklogAssumption == Backlogs \subseteq SUBSET Items

VARIABLE page    \* the page that is mounted

vars == <<status, exports, written, partial, audit, compliance, datasets, open, lists, form, page>>

PageNames == {"audit", "compliance", "datasets", "lists", "access"}

FirstLoad == CHOOSE l \in Loads : TRUE

Init ==
    /\ RunInit
    /\ open \in Backlogs
    /\ page \in PageNames
    /\ audit = FreshAudit
    /\ compliance = FreshCompliance
    /\ datasets = FreshDatasets
    /\ lists = FreshLists(FirstLoad)
    /\ form = FreshForm

Mount(p) ==
    /\ \E tour \in Tours : {page, p} \subseteq tour
    /\ page' = p
    /\ audit' = FreshAudit
    /\ compliance' = FreshCompliance
    /\ datasets' = FreshDatasets
    /\ lists' = FreshLists(FirstLoad)
    /\ form' = FreshForm
    /\ UNCHANGED <<runs, open>>

OnAudit      == page = "audit" /\ AuditNext
                /\ UNCHANGED <<compliance, datasets, open, lists, form, page>>
OnCompliance == page = "compliance" /\ ComplianceNext
                /\ UNCHANGED <<audit, datasets, open, lists, form, page>>
OnDatasets   == page = "datasets" /\ DatasetsNext
                /\ UNCHANGED <<runs, audit, compliance, open, lists, form, page>>
OnLists      == page = "lists" /\ ListsNext
                /\ UNCHANGED <<runs, audit, compliance, datasets, form, page>>
OnAccess     == page = "access" /\ FormNext
                /\ UNCHANGED <<runs, audit, compliance, datasets, open, lists, page>>
(* The other pages do not look at the runs: what those do meanwhile they    *)
(* may as well do later.                                                    *)
OnServer     == page \in {"audit", "compliance"} /\ RunNext
                /\ UNCHANGED <<audit, compliance, datasets, open, lists, form, page>>

Next ==
    \/ \E p \in PageNames : Mount(p)
    \/ OnAudit \/ OnCompliance \/ OnDatasets \/ OnLists \/ OnAccess
    \/ OnServer

Spec == Init /\ [][Next]_vars

(* A timer fires and a fetch ends, with an answer or with an error.         *)
AuditGoesOn(l) == page = "audit" /\ LoopStep(l)
                  /\ UNCHANGED <<compliance, datasets, open, lists, form, page>>

FairSpec == Spec /\ \A l \in Loops : WF_vars(AuditGoesOn(l))

----------------------------------------------------------------------------
(* The invariant of the proofs: the types; of the runs, that completion     *)
(* comes last; and of each page what its property rests on.                 *)

Types == RunTypes /\ AuditTypes /\ ComplianceTypes /\ DatasetsTypes /\ ListsTypes /\ FormTypes
         /\ page \in PageNames

(* What tells a run that is about to complete: its dashboard comes last.    *)
DashboardLast ==
    \A r \in Runs :
        /\ status[r] = "unused" => written[r] = {} /\ ~partial[r]
        /\ Dashboard \in written[r] => exports[r] \subseteq written[r] /\ ~partial[r]

(* A loop that fetches a dashboard was told that the run is completed, and  *)
(* what was written once stays written.                                     *)
LoopsSound ==
    \A l \in Loops :
        /\ Loop(l).at \in {"sleeping", "fetching"} => Loop(l).run \in Runs
        /\ Loop(l).at = "fetching" => Found(Loop(l).run, Dashboard)
        /\ ~audit.mixed /\ Loop(l).at \in {"sleeping", "fetching"} => Loop(l).run = audit.named

(* A page of one mind has one loop at most.                                 *)
OneLoop == ~audit.mixed => \A k, l \in Loops : Working(k) /\ Working(l) => k = l

AnswersSound ==
    /\ compliance.call.graph \in {NoRun, Waiting, compliance.call.run}
    /\ compliance.call.sop \in {NoRun, Waiting, Error, Part, compliance.call.run}
    /\ compliance.call.graph \in Runs => Found(compliance.call.graph, "graph")
    /\ compliance.call.sop \in Runs => Found(compliance.call.sop, "sop")

OneValidation ==
    /\ ~datasets.validating => datasets.calls = {}
    /\ \A f \in datasets.calls : datasets.calls = {f} /\ datasets.result = NoFile
                                 /\ (~datasets.edited => datasets.selected = f)

(* What the list was loaded for last is under way, or due, or on show.      *)
ListSound == ~lists.crossed =>
    \/ \E c \in Clicks : lists.acts[c].at = "done"
    \/ \E l \in Loads : lists.loads[l].at = Asking
    \/ \E l \in Loads : lists.loads[l] = LoadOf(open) /\ Alone(l)
    \/ (\A l \in Loads : ~UnderWay(l)) /\ lists.shown = open

(* Whoever has come to a step, or can go on to one from a step that is      *)
(* leaving, has filled in what is before it.                                *)
FormSound ==
    /\ form.step # "deployment" \/ form.shown # "deployment" => form.deployment
    /\ ~form.touched =>
         /\ "requirements" \in {form.step, form.shown} => form.organization
         /\ form.shown = "organization" /\ Leaving /\ form.ready => form.organization
         /\ form.shown = "requirements" /\ Leaving /\ form.ready => form.consent
         /\ form.waits > 0 => form.organization /\ form.consent
    /\ form.waits > 0 => form.deployment
    /\ form.loading => form.waits > 0
    /\ form.shown = "done" => form.deployment

IInv == Types /\ CompletedHasResults /\ DashboardLast /\ LoopsSound /\ OneLoop /\ AnswersSound
        /\ OneValidation /\ ListSound /\ FormSound
=============================================================================
