------------------------------ MODULE AuditPage ------------------------------
(***************************************************************************)
(* The audit page: it starts a run, asks every two seconds how the run is   *)
(* doing, sixty times at most, and shows its dashboard.  Beneath, a form    *)
(* that is always there loads the dashboard of a run by its id.             *)
(*                                                                         *)
(* A click on Start begins a loop that nothing ends before its run does:    *)
(* a person who loads a run while one is going and then asks for a new      *)
(* audit has two loops at work on one page.                                 *)
(***************************************************************************)
EXTENDS AuditRuns, Naturals

CONSTANTS
    Loops,     \* loops there can be at once (bound)
    MaxPolls   \* how often a loop asks: sixty times in the code

ASSUME PollAssumption == MaxPolls \in Nat \ {0}

VARIABLE audit    \* the state of the page
(* audit.step     what the page is at                                       *)
(* audit.payload  the run whose dashboard is on show                        *)
(* audit.named    runId                                                     *)
(* audit.loops    the loops of handleRun                                    *)
(* audit.asked    the run LoadRun is asking for, or NoRun                   *)
(* audit.loading  whether it is                                             *)
(* audit.mixed    history: the page's state is the work of several of them  *)
(* audit.lost     history: the answer with the dashboard was lost           *)

NoLoop == [at |-> "idle", run |-> NoRun, polls |-> 0]

FreshAudit ==
    [step |-> "configure", payload |-> NoRun, named |-> NoRun,
     loops |-> [l \in Loops |-> NoLoop], asked |-> NoRun, loading |-> FALSE,
     mixed |-> FALSE, lost |-> FALSE]

LoopTypes == [at : {"idle", "starting", "sleeping", "fetching"}, run : Runs \cup {NoRun},
              polls : 0 .. MaxPolls]

AuditTypes ==
    audit \in [step : {"configure", "running", "done", "error"}, payload : Runs \cup {NoRun},
               named : Runs \cup {NoRun}, loops : [Loops -> LoopTypes],
               asked : Runs \cup {NoRun}, loading : BOOLEAN, mixed : BOOLEAN, lost : BOOLEAN]

Loop(l)    == audit.loops[l]
Working(l) == Loop(l).at # "idle"

----------------------------------------------------------------------------
(* handleRun *)

HandleRun(l) ==
    /\ audit.step \in {"configure", "error"}
    /\ ~Working(l)
    /\ audit' = [audit EXCEPT
         !.step = "running", !.payload = NoRun, !.loops[l] = [NoLoop EXCEPT !.at = "starting"],
         !.mixed = audit.loading \/ \E k \in Loops : Working(k), !.lost = FALSE]
    /\ UNCHANGED runs

(* The rest of it after an await.                                           *)
Sleep(l, r)     == [audit EXCEPT !.loops[l] = [at |-> "sleeping", run |-> r, polls |-> 0],
                                 !.named = r]
Again(l)        == [audit EXCEPT !.loops[l].polls = @ + 1]
Fetch(l)        == [audit EXCEPT !.loops[l].at = "fetching"]

MUT_GiveUp_KeepsStep(l) == [audit EXCEPT !.loops[l] = NoLoop]

Show(l, r)      == [audit EXCEPT !.loops[l] = NoLoop, !.payload = r, !.step = "done"]
GiveUp(l)       == [audit EXCEPT !.loops[l] = NoLoop, !.step = "error"]

(* POST /v1/audits/run                                                      *)
Started(l) ==
    /\ Loop(l).at = "starting"
    /\ \E r \in Runs, what \in Recipes : Submit(r, what) /\ audit' = Sleep(l, r)

(* It fails, or its answer is lost: then there is a run that nobody shows.  *)
StartFails(l) ==
    /\ Loop(l).at = "starting"
    /\ audit' = GiveUp(l)
    /\ \/ UNCHANGED runs
       \/ \E r \in Runs, what \in Recipes : Submit(r, what)

MUT_Poll_Unbounded(l) ==
    /\ Loop(l).at = "sleeping"
    /\ audit' = CASE status[Loop(l).run] = "completed" -> Fetch(l)
                  [] status[Loop(l).run] = "running" ->
                       [audit EXCEPT !.loops[l].polls = (@ + 1) % MaxPolls]
                  [] OTHER -> GiveUp(l)
    /\ UNCHANGED runs

(* GET /v1/audits/{run_id}, which knows a run until the server restarts.    *)
Poll(l) ==
    /\ Loop(l).at = "sleeping"
    /\ audit' = CASE status[Loop(l).run] = "completed" -> Fetch(l)
                  [] status[Loop(l).run] = "running" /\ Loop(l).polls + 1 < MaxPolls -> Again(l)
                  [] OTHER -> GiveUp(l)
    /\ UNCHANGED runs

PollLost(l) ==
    /\ Loop(l).at = "sleeping"
    /\ audit' = GiveUp(l)
    /\ UNCHANGED runs

(* GET /v1/audits/{run_id}/dashboard.  No dashboard is as good as one: the  *)
(* page is done either way, and blank without.                              *)
Fetched(l) ==
    /\ Loop(l).at = "fetching"
    /\ audit' = Show(l, IF Found(Loop(l).run, Dashboard) THEN Loop(l).run ELSE NoRun)
    /\ UNCHANGED runs

FetchLost(l) ==
    /\ Loop(l).at = "fetching"
    /\ audit' = [Show(l, NoRun) EXCEPT !.lost = TRUE]
    /\ UNCHANGED runs

LoopStep(l) ==
    Started(l) \/ StartFails(l) \/ Poll(l) \/ PollLost(l) \/ Fetched(l) \/ FetchLost(l)

----------------------------------------------------------------------------
(* The button of the banner, which is there with a dashboard only.          *)
NewAudit ==
    /\ audit.step = "done" /\ audit.payload # NoRun
    /\ audit' = [audit EXCEPT !.step = "configure", !.payload = NoRun, !.named = NoRun]
    /\ UNCHANGED runs

(* LoadRun.  Any id can be entered.  The banner shows one that nothing can  *)
(* be loaded by: the id that run_audit makes up for its own documents.      *)
Load(r) ==
    /\ ~audit.loading
    /\ audit' = [audit EXCEPT !.loading = TRUE, !.asked = r]
    /\ UNCHANGED runs

LoadAnswered ==
    /\ audit.loading /\ Found(audit.asked, Dashboard)
    /\ audit' = [audit EXCEPT !.loading = FALSE, !.asked = NoRun,
                              !.payload = audit.asked, !.named = audit.asked, !.step = "done",
                              !.mixed = @ \/ \E l \in Loops : Working(l)]
    /\ UNCHANGED runs

LoadFails ==
    /\ audit.loading
    /\ audit' = [audit EXCEPT !.loading = FALSE, !.asked = NoRun]
    /\ UNCHANGED runs

AuditNext ==
    \/ \E l \in Loops : HandleRun(l) \/ LoopStep(l)
    \/ \E r \in Runs \cup {NoRun} : Load(r)
    \/ LoadAnswered \/ LoadFails
    \/ NewAudit

----------------------------------------------------------------------------
(* Properties *)

(* As long as nobody loads a run or starts another while one is going, the  *)
(* page is running exactly while its loop is, and what it shows when it is  *)
(* done is the dashboard of the run it names.                               *)
PageFollowsItsRun ==
    ~audit.mixed =>
        /\ audit.step = "running" <=> \E l \in Loops : Working(l)
        /\ audit.step = "done" /\ audit.payload # NoRun =>
             audit.payload = audit.named /\ Found(audit.payload, Dashboard)

(* A page that says it is done and shows nothing, not even a way to begin   *)
(* anew, has lost an answer: the server never reports a run as completed    *)
(* that has no dashboard.                                                   *)
BlankOnlyIfLost == audit.step = "done" /\ audit.payload = NoRun => audit.lost

(* However the run ends, and if it never does, the page stops waiting.      *)
RunningEnds == audit.step = "running" ~> audit.step # "running"
=============================================================================
