--------------------------- MODULE CompliancePage ---------------------------
(***************************************************************************)
(* The compliance page: it asks for the graph and for the SOP of a run at   *)
(* the same time and shows both once both answers are in.  The id can be    *)
(* edited all the while.                                                    *)
(***************************************************************************)
EXTENDS AuditRuns

VARIABLE compliance    \* the state of the page
(* compliance.field    the id that is entered                               *)
(* compliance.graph    the run whose graph is held                          *)
(* compliance.sop      the run whose SOP is held, or a part of one, or the  *)
(*                     text of an error                                     *)
(* compliance.call     the two requests under way, and the run they are for *)
(* compliance.loaded   history: the run that was loaded last                *)

Waiting == "waiting"    \* no answer yet
Error   == "error"      \* the text of the answer that there is no SOP
Part    == "part"       \* what there is of an SOP that is not written in full

ASSUME ComplianceAssumption == {Waiting, Error, Part} \cap (Runs \cup {NoRun}) = {}

NoCall == [run |-> NoRun, graph |-> Waiting, sop |-> Waiting]

FreshCompliance ==
    [field |-> NoRun, graph |-> NoRun, sop |-> NoRun, call |-> NoCall, loaded |-> NoRun]

ComplianceTypes ==
    compliance \in [field : Runs \cup {NoRun}, graph : Runs \cup {NoRun},
                    sop : Runs \cup {NoRun, Error, Part},
                    call : [run : Runs \cup {NoRun}, graph : Runs \cup {NoRun, Waiting},
                            sop : Runs \cup {NoRun, Error, Part, Waiting}],
                    loaded : Runs \cup {NoRun}]

Loading == compliance.call.run # NoRun

Enter(r) ==
    /\ compliance' = [compliance EXCEPT !.field = r]
    /\ UNCHANGED runs

HandleLoad ==
    /\ ~Loading /\ compliance.field # NoRun
    /\ compliance' = [compliance EXCEPT !.call = [NoCall EXCEPT !.run = compliance.field]]
    /\ UNCHANGED runs

(* Any failure of getComplianceGraph counts as no graph.                    *)
GraphAnswered ==
    /\ Loading /\ compliance.call.graph = Waiting
    /\ \E g \in {NoRun} \cup {r \in {compliance.call.run} : Found(r, "graph")} :
         compliance' = [compliance EXCEPT !.call.graph = g]
    /\ UNCHANGED runs

(* getAuditSop takes the text of whatever is answered, and get_sop answers  *)
(* with what there is in the file.  Only a lost answer, or that of a file   *)
(* which is still empty, is no text.                                        *)
SopText(r) ==
    IF Found(r, "sop") THEN r ELSE IF FoundInPart(r, "sop") THEN Part ELSE Error

SopAnswered ==
    /\ Loading /\ compliance.call.sop = Waiting
    /\ \E s \in {NoRun, SopText(compliance.call.run)} :
         compliance' = [compliance EXCEPT !.call.sop = s]
    /\ UNCHANGED runs

BothAnswered == Loading /\ Waiting \notin {compliance.call.graph, compliance.call.sop}

MUT_Loaded_KeepsGraph ==
    /\ BothAnswered
    /\ compliance' = [compliance EXCEPT !.graph = IF compliance.call.graph = NoRun THEN @
                                                  ELSE compliance.call.graph,
                                        !.sop = compliance.call.sop,
                                        !.loaded = compliance.call.run, !.call = NoCall]
    /\ UNCHANGED runs

Loaded ==
    /\ BothAnswered
    /\ compliance' = [compliance EXCEPT !.graph = compliance.call.graph,
                                        !.sop = compliance.call.sop,
                                        !.loaded = compliance.call.run, !.call = NoCall]
    /\ UNCHANGED runs

ComplianceNext ==
    \/ \E r \in Runs : Enter(r)
    \/ HandleLoad
    \/ GraphAnswered \/ SopAnswered \/ Loaded

----------------------------------------------------------------------------
(* The graph and the SOP on show are those of one run, the one loaded last, *)
(* and both were written by it: nothing of an earlier load stays behind     *)
(* when the next one finds less.  A part of an SOP looks like one.          *)
OneRunsDocuments ==
    /\ compliance.graph # NoRun =>
         compliance.graph = compliance.loaded /\ Found(compliance.loaded, "graph")
    /\ compliance.sop \in Runs =>
         compliance.sop = compliance.loaded /\ Found(compliance.loaded, "sop")
=============================================================================
