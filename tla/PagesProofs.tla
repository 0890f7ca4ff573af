----------------------------- MODULE PagesProofs -----------------------------
(***************************************************************************)
(* What holds of the pages for every set of runs, loops, recipes, files,    *)
(* items and tours.  The pages share nothing but the runs, so each has an   *)
(* invariant of its own and a lemma that its steps keep it; what the page   *)
(* relies on of the runs is that completion comes last and that what is     *)
(* written stays written.                                                   *)
(***************************************************************************)
EXTENDS Pages, TLAPS

RunInv        == RunTypes /\ CompletedHasResults /\ DashboardLast
AuditInv      == AuditTypes /\ LoopsSound /\ OneLoop /\ PageFollowsItsRun /\ BlankOnlyIfLost
ComplianceInv == ComplianceTypes /\ AnswersSound /\ OneRunsDocuments
DatasetsInv   == DatasetsTypes /\ OneValidation /\ VerdictOfSelected
ListsInv      == ListsTypes /\ ListSound
FormInv       == FormTypes /\ FormSound /\ DoneIsComplete

Inv == /\ page \in PageNames
       /\ RunInv /\ AuditInv /\ ComplianceInv /\ DatasetsInv /\ ListsInv /\ FormInv

Grows == \A r \in Runs : written[r] \subseteq written'[r]

----------------------------------------------------------------------------
(* The runs *)

(* A run is submitted with nothing to show, or it is not there at all.      *)
LEMMA SubmitKeeps ==
    ASSUME RunInv, NEW r \in Runs, NEW what \in Recipes, Submit(r, what)
    PROVE  RunInv' /\ Grows
BY RunAssumption DEF RunInv, RunTypes, CompletedHasResults, DashboardLast, Submit, Grows, Statuses

(* Whatever the server does, a completed run has its results, and what was  *)
(* written stays written.                                                   *)
LEMMA RunsKeep ==
    ASSUME RunInv, RunNext \/ UNCHANGED runs
    PROVE  RunInv' /\ Grows
<1>1. CASE UNCHANGED runs
  BY <1>1 DEF RunInv, RunTypes, CompletedHasResults, DashboardLast, Grows, runs
<1>2. ASSUME NEW r \in Runs, NEW what \in Recipes, Submit(r, what) PROVE RunInv' /\ Grows
  BY <1>2, SubmitKeeps
<1>3. ASSUME NEW r \in Runs, Truncate(r) PROVE RunInv' /\ Grows
  BY <1>3 DEF RunInv, RunTypes, CompletedHasResults, DashboardLast, Truncate, Grows
<1>4. ASSUME NEW r \in Runs, Write(r) PROVE RunInv' /\ Grows
  <2>1. Due(r) \in Documents
    BY DEF Due, Documents, Exports
  <2>2. Due(r) = Dashboard => exports[r] \subseteq written[r]
    BY DEF Due, RunInv, RunTypes, Exports, Dashboard
  <2>3. QED
    BY <1>4, <2>1, <2>2 DEF RunInv, RunTypes, CompletedHasResults, DashboardLast, Write, Grows
<1>5. ASSUME NEW r \in Runs, Complete(r) PROVE RunInv' /\ Grows
  BY <1>5 DEF RunInv, RunTypes, CompletedHasResults, DashboardLast, Complete, Grows, Statuses
<1>6. ASSUME NEW r \in Runs, Fail(r) PROVE RunInv' /\ Grows
  BY <1>6 DEF RunInv, RunTypes, CompletedHasResults, DashboardLast, Fail, Grows, Statuses
<1>7. CASE Restart
  BY <1>7 DEF RunInv, RunTypes, CompletedHasResults, DashboardLast, Restart, Grows, Statuses
<1>8. QED
  BY <1>1, <1>2, <1>3, <1>4, <1>5, <1>6, <1>7 DEF RunNext

----------------------------------------------------------------------------
(* The audit page *)

(* A step of the page changes the runs by a submission or not at all.       *)
LEMMA AuditStepKeepsRuns ==
    ASSUME RunInv, AuditNext
    PROVE  RunInv' /\ Grows
<1>1. UNCHANGED runs \/ \E r \in Runs, what \in Recipes : Submit(r, what)
  BY DEF AuditNext, HandleRun, LoopStep, Started, StartFails, Poll, PollLost, Fetched, FetchLost,
         NewAudit, Load, LoadAnswered, LoadFails
<1>2. QED
  BY <1>1, RunsKeep, SubmitKeeps

(* Steps of others: the dashboards that were there still are.               *)
LEMMA AuditStays ==
    ASSUME AuditInv, Grows, audit' = audit
    PROVE  AuditInv'
BY DEF AuditInv, AuditTypes, LoopsSound, OneLoop, PageFollowsItsRun, BlankOnlyIfLost, Grows,
       Loop, Working, Found

LEMMA AuditFresh == ASSUME audit = FreshAudit PROVE AuditInv
<1>1. AuditTypes
  BY PollAssumption DEF FreshAudit, NoLoop, AuditTypes, LoopTypes
<1>2. /\ \A l \in Loops : audit.loops[l].at = "idle"
      /\ audit.step = "configure" /\ audit.mixed = FALSE
  BY DEF FreshAudit, NoLoop
<1>3. QED
  BY <1>1, <1>2 DEF AuditInv, LoopsSound, OneLoop, PageFollowsItsRun, BlankOnlyIfLost, Loop, Working

(* A loop that is replaced leaves a well-typed function of loops.           *)
LEMMA LoopsTyped ==
    ASSUME AuditTypes, NEW l \in Loops, NEW X \in LoopTypes
    PROVE  /\ [audit.loops EXCEPT ![l] = X] \in [Loops -> LoopTypes]
           /\ \A k \in Loops : [audit.loops EXCEPT ![l] = X][k] = IF k = l THEN X ELSE audit.loops[k]
BY DEF AuditTypes

LEMMA SomeLoops ==
    /\ NoLoop \in LoopTypes
    /\ [NoLoop EXCEPT !.at = "starting"] \in LoopTypes
    /\ \A r \in Runs : [at |-> "sleeping", run |-> r, polls |-> 0] \in LoopTypes
    /\ AuditTypes => \A l \in Loops :
         /\ audit.loops[l] \in LoopTypes
         /\ [audit.loops[l] EXCEPT !.at = "fetching"] \in LoopTypes
         /\ audit.loops[l].polls + 1 < MaxPolls =>
              [audit.loops[l] EXCEPT !.polls = @ + 1] \in LoopTypes
<1>1. AuditTypes => \A l \in Loops : audit.loops[l] \in LoopTypes
  BY DEF AuditTypes
<1>2. QED
  BY <1>1, PollAssumption DEF NoLoop, LoopTypes

(* What the steps of the page make of it.                                   *)
LEMMA AuditStepKeeps ==
    ASSUME RunInv, AuditInv, AuditNext
    PROVE  AuditInv'
<1> USE PollAssumption
<1>0. Grows
  BY AuditStepKeepsRuns
<1>1. ASSUME NEW l \in Loops, HandleRun(l) PROVE AuditInv'
  <2> DEFINE X == [NoLoop EXCEPT !.at = "starting"]
             m == audit.loading \/ \E k \in Loops : Working(k)
             L == [audit.loops EXCEPT ![l] = X]
  <2>a. m \in BOOLEAN /\ X \in LoopTypes /\ X = [at |-> "starting", run |-> NoRun, polls |-> 0]
    BY SomeLoops DEF NoLoop
  <2>b. L \in [Loops -> LoopTypes] /\ \A k \in Loops : L[k] = IF k = l THEN X ELSE audit.loops[k]
    BY <2>a, LoopsTyped DEF AuditInv
  <2>c. /\ audit' = [audit EXCEPT !.step = "running", !.payload = NoRun, !.loops = L, !.mixed = m,
                                  !.lost = FALSE]
        /\ ~m => \A k \in Loops : audit.loops[k].at = "idle"
    BY <1>1 DEF HandleRun, Working, Loop
  <2> HIDE DEF m, L, X
  <2>1. AuditTypes'
    BY <2>a, <2>b, <2>c DEF AuditInv, AuditTypes
  <2>2. /\ \A k \in Loops : audit'.loops[k] = IF k = l THEN X ELSE audit.loops[k]
        /\ audit'.step = "running" /\ audit'.mixed = m /\ audit'.named = audit.named
        /\ X.at = "starting"
    BY <2>a, <2>b, <2>c DEF AuditInv, AuditTypes
  <2>3. LoopsSound'
    BY <1>0, <2>2, <2>c DEF AuditInv, LoopsSound, Loop, Grows, Found
  <2>4. OneLoop' /\ PageFollowsItsRun' /\ BlankOnlyIfLost'
    BY <2>2, <2>c DEF OneLoop, PageFollowsItsRun, BlankOnlyIfLost, Loop, Working
  <2>5. QED
    BY <2>1, <2>3, <2>4 DEF AuditInv
<1>2. ASSUME NEW l \in Loops, Started(l) PROVE AuditInv'
  <2> PICK r \in Runs : audit' = Sleep(l, r)
    BY <1>2 DEF Started
  <2> DEFINE X == [at |-> "sleeping", run |-> r, polls |-> 0]
            L == [audit.loops EXCEPT ![l] = X]
  <2>a. X \in LoopTypes /\ X.at = "sleeping" /\ X.run = r
    BY <1>2, SomeLoops DEF NoLoop
  <2>b. L \in [Loops -> LoopTypes] /\ \A k \in Loops : L[k] = IF k = l THEN X ELSE audit.loops[k]
    BY <2>a, LoopsTyped DEF AuditInv
  <2>c. audit' = [audit EXCEPT !.loops = L, !.named = r]
    BY DEF Sleep
  <2> HIDE DEF L, X
  <2>1. AuditTypes'
    BY <2>a, <2>b, <2>c, <1>2 DEF AuditInv, AuditTypes
  <2>2. /\ \A k \in Loops : audit'.loops[k] = IF k = l THEN X ELSE audit.loops[k]
        /\ audit'.named = r /\ audit'.step = audit.step /\ audit'.payload = audit.payload
        /\ audit'.mixed = audit.mixed /\ audit'.lost = audit.lost
    BY <2>b, <2>c DEF AuditInv, AuditTypes
  <2>3. Working(l) /\ (~audit.mixed => \A k \in Loops \ {l} : audit.loops[k].at = "idle")
    BY <1>2 DEF Started, AuditInv, OneLoop, Loop, Working
  <2>4. LoopsSound'
    BY <1>0, <2>a, <2>2, <2>3 DEF AuditInv, LoopsSound, Loop, Grows, Found
  <2>5. OneLoop' /\ BlankOnlyIfLost'
    BY <2>2, <2>3 DEF AuditInv, OneLoop, BlankOnlyIfLost, Loop, Working
  <2>6. PageFollowsItsRun'
    BY <2>a, <2>2, <2>3 DEF AuditInv, PageFollowsItsRun, Loop, Working
  <2>7. QED
    BY <2>1, <2>4, <2>5, <2>6 DEF AuditInv
<1>3. ASSUME NEW l \in Loops, audit' = GiveUp(l), Working(l) PROVE AuditInv'
  <2> DEFINE X == NoLoop
            L == [audit.loops EXCEPT ![l] = X]
  <2>a. X \in LoopTypes /\ X.at = "idle"
    BY <1>3, SomeLoops DEF NoLoop
  <2>b. L \in [Loops -> LoopTypes] /\ \A k \in Loops : L[k] = IF k = l THEN X ELSE audit.loops[k]
    BY <2>a, LoopsTyped DEF AuditInv
  <2>c. audit' = [audit EXCEPT !.loops = L, !.step = "error"]
    BY <1>3 DEF GiveUp
  <2> HIDE DEF L, X
  <2>1. AuditTypes'
    BY <2>a, <2>b, <2>c, <1>3 DEF AuditInv, AuditTypes
  <2>2. /\ \A k \in Loops : audit'.loops[k] = IF k = l THEN X ELSE audit.loops[k]
        /\ audit'.step = "error" /\ audit'.payload = audit.payload
        /\ audit'.named = audit.named /\ audit'.mixed = audit.mixed
    BY <2>b, <2>c DEF AuditInv, AuditTypes
  <2>3. ~audit.mixed => \A k \in Loops \ {l} : audit.loops[k].at = "idle"
    BY <1>3 DEF AuditInv, OneLoop, Loop, Working
  <2>4. LoopsSound'
    BY <1>0, <2>a, <2>2 DEF AuditInv, LoopsSound, Loop, Grows, Found
  <2>5. OneLoop' /\ PageFollowsItsRun' /\ BlankOnlyIfLost'
    BY <2>a, <2>2, <2>3 DEF OneLoop, PageFollowsItsRun, BlankOnlyIfLost, Loop, Working
  <2>6. QED
    BY <2>1, <2>4, <2>5 DEF AuditInv
<1>4. ASSUME NEW l \in Loops, Poll(l) PROVE AuditInv'
  <2>1. CASE audit' = GiveUp(l)
    BY <1>3, <1>4, <2>1 DEF Poll, Working
  <2>2. CASE audit' = Fetch(l) /\ status[Loop(l).run] = "completed"
    <3>0. Loop(l).run \in Runs /\ Found(Loop(l).run, Dashboard) /\ Working(l)
      BY <1>4, <2>2 DEF Poll, RunInv, CompletedHasResults, AuditInv, LoopsSound, Found, Working
    <3> DEFINE X == [audit.loops[l] EXCEPT !.at = "fetching"]
              L == [audit.loops EXCEPT ![l] = X]
    <3>a. X \in LoopTypes /\ X.at = "fetching" /\ X.run = audit.loops[l].run
      BY <2>2, SomeLoops DEF AuditInv, LoopTypes
    <3>b. L \in [Loops -> LoopTypes] /\ \A k \in Loops : L[k] = IF k = l THEN X ELSE audit.loops[k]
      BY <3>a, LoopsTyped DEF AuditInv
    <3>c. audit' = [audit EXCEPT !.loops = L]
      BY <2>2 DEF Fetch
    <3> HIDE DEF L, X
    <3>1. AuditTypes'
      BY <3>a, <3>b, <3>c, <2>2 DEF AuditInv, AuditTypes
    <3>2. /\ \A k \in Loops : audit'.loops[k] = IF k = l THEN X ELSE audit.loops[k]
          /\ audit'.step = audit.step /\ audit'.payload = audit.payload /\ audit'.named = audit.named
          /\ audit'.mixed = audit.mixed /\ audit'.lost = audit.lost
      BY <3>b, <3>c DEF AuditInv, AuditTypes
    <3>3. audit.loops[l].at = "sleeping" /\ ~audit.mixed => audit.loops[l].run = audit.named
      BY <1>4, <2>2 DEF Poll, Loop, AuditInv, LoopsSound
    <3>4. LoopsSound'
      BY <1>0, <1>4, <3>0, <3>a, <3>2, <3>3 DEF Poll, AuditInv, LoopsSound, Loop, Grows, Found
    <3>5. \A k \in Loops : Working(k)' <=> Working(k)
      BY <3>0, <3>a, <3>2 DEF Loop, Working
    <3>6. OneLoop' /\ BlankOnlyIfLost'
      BY <3>2, <3>5 DEF AuditInv, OneLoop, BlankOnlyIfLost
    <3>7. PageFollowsItsRun'
      BY <1>0, <3>2, <3>5 DEF AuditInv, PageFollowsItsRun, Grows, Found
    <3>8. QED
      BY <3>1, <3>4, <3>6, <3>7 DEF AuditInv
  <2>3. CASE audit' = Again(l) /\ Loop(l).polls + 1 < MaxPolls
    <3> DEFINE X == [audit.loops[l] EXCEPT !.polls = @ + 1]
              L == [audit.loops EXCEPT ![l] = X]
    <3>a. X \in LoopTypes /\ X.at = audit.loops[l].at /\ X.run = audit.loops[l].run
      BY <2>3, SomeLoops DEF AuditInv, LoopTypes, Loop
    <3>b. L \in [Loops -> LoopTypes] /\ \A k \in Loops : L[k] = IF k = l THEN X ELSE audit.loops[k]
      BY <3>a, LoopsTyped DEF AuditInv
    <3>c. audit' = [audit EXCEPT !.loops = L]
      BY <2>3 DEF Again
    <3> HIDE DEF L, X
    <3>1. AuditTypes'
      BY <3>a, <3>b, <3>c, <2>3 DEF AuditInv, AuditTypes
    <3>2. /\ \A k \in Loops : audit'.loops[k] = IF k = l THEN X ELSE audit.loops[k]
          /\ audit'.step = audit.step /\ audit'.payload = audit.payload /\ audit'.named = audit.named
          /\ audit'.mixed = audit.mixed /\ audit'.lost = audit.lost
      BY <3>b, <3>c DEF AuditInv, AuditTypes
    <3>3. \A k \in Loops : audit'.loops[k].at = audit.loops[k].at
                           /\ audit'.loops[k].run = audit.loops[k].run
      BY <3>a, <3>2
    <3>4. LoopsSound'
      BY <1>0, <3>2, <3>3 DEF AuditInv, LoopsSound, Loop, Grows, Found
    <3>5. OneLoop' /\ BlankOnlyIfLost'
      BY <3>2, <3>3 DEF AuditInv, OneLoop, BlankOnlyIfLost, Loop, Working
    <3>6. PageFollowsItsRun'
      BY <1>0, <3>2, <3>3 DEF AuditInv, PageFollowsItsRun, Grows, Found, Loop, Working
    <3>7. QED
      BY <3>1, <3>4, <3>5, <3>6 DEF AuditInv
  <2>4. QED
    BY <1>4, <2>1, <2>2, <2>3 DEF Poll
<1>5. ASSUME NEW l \in Loops, Fetched(l) PROVE AuditInv'
  <2>0. /\ Loop(l).run \in Runs /\ Found(Loop(l).run, Dashboard) /\ Working(l)
        /\ ~audit.mixed => Loop(l).run = audit.named
    BY <1>5 DEF Fetched, AuditInv, LoopsSound, Working
  <2> DEFINE X == NoLoop
            L == [audit.loops EXCEPT ![l] = X]
  <2>a. X \in LoopTypes /\ X.at = "idle"
    BY <2>0, SomeLoops DEF NoLoop
  <2>b. L \in [Loops -> LoopTypes] /\ \A k \in Loops : L[k] = IF k = l THEN X ELSE audit.loops[k]
    BY <2>a, LoopsTyped DEF AuditInv
  <2>c. audit' = [audit EXCEPT !.loops = L, !.step = "done", !.payload = Loop(l).run]
    BY <1>5, <2>0 DEF Fetched, Show
  <2> HIDE DEF L, X
  <2>1. AuditTypes'
    BY <2>a, <2>b, <2>c, <2>0 DEF AuditInv, AuditTypes
  <2>2. /\ \A k \in Loops : audit'.loops[k] = IF k = l THEN X ELSE audit.loops[k]
        /\ audit'.step = "done" /\ audit'.payload = Loop(l).run
        /\ audit'.named = audit.named /\ audit'.mixed = audit.mixed
    BY <2>b, <2>c DEF AuditInv, AuditTypes
  <2>3. ~audit.mixed => \A k \in Loops \ {l} : audit.loops[k].at = "idle"
    BY <2>0 DEF AuditInv, OneLoop, Loop, Working
  <2>4. LoopsSound'
    BY <1>0, <2>a, <2>2 DEF AuditInv, LoopsSound, Loop, Grows, Found
  <2>5. OneLoop' /\ BlankOnlyIfLost'
    BY <2>0, <2>a, <2>2, <2>3, RunAssumption DEF OneLoop, BlankOnlyIfLost, Loop, Working
  <2>6. PageFollowsItsRun'
    BY <1>0, <2>0, <2>a, <2>2, <2>3 DEF PageFollowsItsRun, Loop, Working, Grows, Found
  <2>7. QED
    BY <2>1, <2>4, <2>5, <2>6 DEF AuditInv
<1>6. ASSUME NEW l \in Loops, FetchLost(l) PROVE AuditInv'
  <2> DEFINE X == NoLoop
            L == [audit.loops EXCEPT ![l] = X]
  <2>a. X \in LoopTypes /\ X.at = "idle"
    BY <1>6, SomeLoops DEF NoLoop
  <2>b. L \in [Loops -> LoopTypes] /\ \A k \in Loops : L[k] = IF k = l THEN X ELSE audit.loops[k]
    BY <2>a, LoopsTyped DEF AuditInv
  <2>c. audit' = [audit EXCEPT !.loops = L, !.step = "done", !.payload = NoRun, !.lost = TRUE]
    BY <1>6 DEF FetchLost, Show
  <2> HIDE DEF L, X
  <2>1. AuditTypes'
    BY <2>a, <2>b, <2>c, <1>6 DEF AuditInv, AuditTypes
  <2>2. /\ \A k \in Loops : audit'.loops[k] = IF k = l THEN X ELSE audit.loops[k]
        /\ audit'.step = "done" /\ audit'.payload = NoRun /\ audit'.lost = TRUE
        /\ audit'.named = audit.named /\ audit'.mixed = audit.mixed
    BY <2>b, <2>c DEF AuditInv, AuditTypes
  <2>3. ~audit.mixed => \A k \in Loops \ {l} : audit.loops[k].at = "idle"
    BY <1>6 DEF FetchLost, AuditInv, OneLoop, Loop, Working
  <2>4. LoopsSound'
    BY <1>0, <2>a, <2>2 DEF AuditInv, LoopsSound, Loop, Grows, Found
  <2>5. OneLoop' /\ PageFollowsItsRun' /\ BlankOnlyIfLost'
    BY <2>a, <2>2, <2>3 DEF OneLoop, PageFollowsItsRun, BlankOnlyIfLost, Loop, Working
  <2>6. QED
    BY <2>1, <2>4, <2>5 DEF AuditInv
<1>7. ASSUME NEW r \in Runs \cup {NoRun}, Load(r) PROVE AuditInv'
  <2>1. AuditTypes'
    BY <1>7 DEF Load, AuditInv, AuditTypes
  <2>2. /\ audit'.loops = audit.loops
        /\ audit'.step = audit.step
        /\ audit'.payload = audit.payload
        /\ audit'.named = audit.named
        /\ audit'.mixed = audit.mixed
        /\ audit'.lost = audit.lost
    BY <1>7 DEF Load, AuditInv, AuditTypes
  <2>3. QED
    BY <1>0, <1>7, <2>1, <2>2 DEF Load, AuditInv, LoopsSound, OneLoop,
       PageFollowsItsRun, BlankOnlyIfLost, Loop, Working, Grows, Found
<1>8. CASE LoadAnswered
  <2>1. AuditTypes'
    BY <1>8 DEF LoadAnswered, AuditInv, AuditTypes
  <2>2. /\ audit'.loops = audit.loops
        /\ audit'.step = "done"
        /\ audit'.payload = audit.asked
        /\ audit'.named = audit.asked
        /\ audit'.mixed = (audit.mixed \/ \E l \in Loops : Working(l))
    BY <1>8 DEF LoadAnswered, AuditInv, AuditTypes
  <2>3. QED
    BY <1>0, <1>8, <2>1, <2>2, RunAssumption DEF LoadAnswered, AuditInv, LoopsSound, OneLoop,
       PageFollowsItsRun, BlankOnlyIfLost, Loop, Working, Grows, Found
<1>9. CASE LoadFails
  <2>1. AuditTypes'
    BY <1>9 DEF LoadFails, AuditInv, AuditTypes
  <2>2. /\ audit'.loops = audit.loops
        /\ audit'.step = audit.step
        /\ audit'.payload = audit.payload
        /\ audit'.named = audit.named
        /\ audit'.mixed = audit.mixed
        /\ audit'.lost = audit.lost
    BY <1>9 DEF LoadFails, AuditInv, AuditTypes
  <2>3. QED
    BY <1>0, <1>9, <2>1, <2>2 DEF LoadFails, AuditInv, LoopsSound, OneLoop,
       PageFollowsItsRun, BlankOnlyIfLost, Loop, Working, Grows, Found
<1>10. CASE NewAudit
  <2>1. AuditTypes'
    BY <1>10 DEF NewAudit, AuditInv, AuditTypes
  <2>2. /\ audit'.loops = audit.loops
        /\ audit'.step = "configure"
        /\ audit'.payload = NoRun
        /\ audit'.named = NoRun
        /\ audit'.mixed = audit.mixed
    BY <1>10 DEF NewAudit, AuditInv, AuditTypes
  <2>3. QED
    BY <1>0, <1>10, <2>1, <2>2 DEF NewAudit, AuditInv, LoopsSound, OneLoop,
       PageFollowsItsRun, BlankOnlyIfLost, Loop, Working, Grows, Found
<1>11. ASSUME NEW l \in Loops, StartFails(l) \/ PollLost(l) PROVE AuditInv'
  BY <1>3, <1>11 DEF StartFails, PollLost, Working
<1>12. QED
  BY <1>1, <1>2, <1>4, <1>5, <1>6, <1>7, <1>8, <1>9, <1>10, <1>11 DEF AuditNext, LoopStep

----------------------------------------------------------------------------
(* The compliance page *)

(* What was written stays written, so what is held stays true.              *)
LEMMA ComplianceStays ==
    ASSUME ComplianceInv, Grows, compliance' = compliance
    PROVE  ComplianceInv'
BY ComplianceAssumption
   DEF ComplianceInv, ComplianceTypes, AnswersSound, OneRunsDocuments, Grows, Found

LEMMA ComplianceFresh == ASSUME compliance = FreshCompliance PROVE ComplianceInv
BY ComplianceAssumption, RunAssumption
   DEF FreshCompliance, NoCall, ComplianceInv, ComplianceTypes, AnswersSound, OneRunsDocuments, Found

(* Both answers of a call are about the run it is for, and they are shown   *)
(* together.                                                                *)
LEMMA ComplianceStepKeeps ==
    ASSUME ComplianceInv, ComplianceNext
    PROVE  ComplianceInv' /\ UNCHANGED runs
<1> USE ComplianceAssumption, RunAssumption DEF ComplianceInv, Found
<1>0. UNCHANGED runs
  BY DEF ComplianceNext, Enter, HandleLoad, GraphAnswered, SopAnswered, Loaded
<1>1. ASSUME NEW r \in Runs, Enter(r) PROVE ComplianceInv'
  BY <1>0, <1>1 DEF Enter, runs, ComplianceTypes, AnswersSound, OneRunsDocuments
<1>2. CASE HandleLoad
  BY <1>0, <1>2 DEF HandleLoad, NoCall, runs, ComplianceTypes, AnswersSound, OneRunsDocuments
<1>3. CASE GraphAnswered
  BY <1>0, <1>3 DEF GraphAnswered, Loading, runs, ComplianceTypes, AnswersSound, OneRunsDocuments
<1>4. CASE SopAnswered
  BY <1>0, <1>4 DEF SopAnswered, SopText, Loading, runs, ComplianceTypes, AnswersSound, OneRunsDocuments
<1>5. CASE Loaded
  BY <1>0, <1>5 DEF Loaded, BothAnswered, Loading, NoCall, runs, ComplianceTypes, AnswersSound,
     OneRunsDocuments
<1>6. QED
  BY <1>0, <1>1, <1>2, <1>3, <1>4, <1>5 DEF ComplianceNext

----------------------------------------------------------------------------
(* The datasets page *)

LEMMA DatasetsFresh == ASSUME datasets = FreshDatasets PROVE DatasetsInv
BY DEF FreshDatasets, DatasetsInv, DatasetsTypes, OneValidation, VerdictOfSelected

(* There is one validation at a time, of the path that was clicked.         *)
LEMMA DatasetsStepKeeps ==
    ASSUME DatasetsInv, DatasetsNext
    PROVE  DatasetsInv'
<1> USE FileAssumption DEF DatasetsInv
<1> PICK f \in Files : HandleValidate(f) \/ Validated(f) \/ Edit(f)
  BY DEF DatasetsNext
<1>1. CASE HandleValidate(f)
  BY <1>1 DEF HandleValidate, DatasetsTypes, OneValidation, VerdictOfSelected
<1>2. CASE Validated(f)
  BY <1>2 DEF Validated, DatasetsTypes, OneValidation, VerdictOfSelected
<1>3. CASE Edit(f)
  BY <1>3 DEF Edit, DatasetsTypes, OneValidation, VerdictOfSelected
<1>4. QED
  BY <1>1, <1>2, <1>3

----------------------------------------------------------------------------
(* The form *)

LEMMA FormFresh == ASSUME form = FreshForm PROVE FormInv
BY WaitAssumption DEF FreshForm, FormInv, FormTypes, FormSound, DoneIsComplete, Steps, Leaving

(* A step is left for the next one only when it is filled in.               *)
LEMMA FormStepKeeps ==
    ASSUME FormInv, FormNext
    PROVE  FormInv'
<1> USE WaitAssumption DEF FormInv, FormTypes, FormSound, DoneIsComplete, Steps, Leaving
<1>1. CASE Arrive
  BY <1>1 DEF Arrive
<1>2. CASE ChooseDeployment
  BY <1>2 DEF ChooseDeployment
<1>3. ASSUME NEW b \in BOOLEAN, EnterOrganization(b) PROVE FormInv'
  BY <1>3 DEF EnterOrganization, Changed
<1>4. ASSUME NEW b \in BOOLEAN, Consent(b) PROVE FormInv'
  BY <1>4 DEF Consent, Changed
<1>5. CASE ToOrganization \/ ToRequirements
  BY <1>5 DEF ToOrganization, ToRequirements, To, LeadsOn, FilledIn
<1>6. CASE BackToDeployment \/ BackToOrganization
  BY <1>6 DEF BackToDeployment, BackToOrganization, To, LeadsOn, FilledIn
<1>7. CASE HandleSubmit
  <2>1. form.waits \in 0 .. MaxWaits /\ form.waits < MaxWaits
    BY <1>7 DEF HandleSubmit
  <2>2. form.waits + 1 \in 0 .. MaxWaits /\ form.waits + 1 > 0
    BY <2>1
  <2>3. form' = [form EXCEPT !.loading = TRUE, !.waits = form.waits + 1]
    BY <1>7 DEF HandleSubmit
  <2>4. FormTypes'
    BY <2>2, <2>3
  <2>5. ~form.touched => form.organization /\ form.consent
    BY <1>7 DEF HandleSubmit, LeadsOn, FilledIn
  <2>6. form.deployment
    BY <1>7 DEF HandleSubmit
  <2>7. FormSound' /\ DoneIsComplete'
    BY <2>2, <2>3, <2>5, <2>6
  <2>8. QED
    BY <2>4, <2>7
<1>8. CASE Submitted
  <2>1. form.waits \in 0 .. MaxWaits /\ form.waits > 0
    BY <1>8 DEF Submitted
  <2>2. form.waits - 1 \in 0 .. MaxWaits
    BY <2>1
  <2>3. PICK ready \in BOOLEAN : form' = [form EXCEPT !.step = "done", !.ready = ready,
                                                    !.loading = FALSE, !.waits = form.waits - 1]
    <3>1. (LeadsOn /\ "done" # form.shown) \in BOOLEAN
      OBVIOUS
    <3>2. QED
      BY <1>8, <3>1 DEF Submitted, To
  <2>4. FormTypes'
    BY <2>2, <2>3
  <2>5. ~form.touched => form.organization /\ form.consent
    BY <2>1
  <2>6. form.deployment
    BY <2>1
  <2>7. FormSound' /\ DoneIsComplete'
    BY <2>2, <2>3, <2>5, <2>6, <1>8 DEF Submitted, To, LeadsOn, FilledIn
  <2>8. QED
    BY <2>4, <2>7
<1>9. QED
  BY <1>1, <1>2, <1>3, <1>4, <1>5, <1>6, <1>7, <1>8 DEF FormNext

----------------------------------------------------------------------------
(* The administrators' lists *)

LEMMA ListsFresh ==
    ASSUME open \subseteq Items, NEW l \in Loads, lists = FreshLists(l)
    PROVE  ListsInv
<1>1. /\ lists.shown = {} /\ lists.loading = TRUE /\ lists.crossed = FALSE
      /\ lists.acts = [c \in Clicks |-> ActIdle]
      /\ lists.loads = [k \in Loads |-> IF k = l THEN LoadSent ELSE LoadIdle]
  BY DEF FreshLists
<1>2. ActIdle \in ActTypes /\ LoadSent \in LoadTypes /\ LoadIdle \in LoadTypes
  BY DEF ActIdle, ActTypes, LoadSent, LoadIdle, LoadTypes, NoLoad, Asking
<1>3. lists.acts \in [Clicks -> ActTypes] /\ lists.loads \in [Loads -> LoadTypes]
  BY <1>1, <1>2
<1>4. ListsTypes
  BY <1>1, <1>3 DEF FreshLists, ListsTypes
<1>5. lists.loads[l].at = Asking
  BY <1>1 DEF LoadSent
<1>6. QED
  BY <1>4, <1>5 DEF ListsInv, ListSound

LEMMA LoadsTyped ==
    ASSUME ListsTypes, NEW l \in Loads, NEW X \in LoadTypes
    PROVE  /\ [lists.loads EXCEPT ![l] = X] \in [Loads -> LoadTypes]
           /\ \A k \in Loads : [lists.loads EXCEPT ![l] = X][k] = IF k = l THEN X ELSE lists.loads[k]
BY DEF ListsTypes

LEMMA ActsTyped ==
    ASSUME NEW acts \in [Clicks -> ActTypes], NEW c \in Clicks, NEW X \in ActTypes
    PROVE  /\ [acts EXCEPT ![c] = X] \in [Clicks -> ActTypes]
           /\ \A d \in Clicks : [acts EXCEPT ![c] = X][d] = IF d = c THEN X ELSE acts[d]
OBVIOUS

LEMMA SomeActs ==
    /\ ActIdle \in ActTypes /\ ActIdle.at = "idle"
    /\ \A i \in Items : ActSent(i) \in ActTypes /\ ActSent(i).at = "sent"
BY DEF ActIdle, ActSent, ActTypes

(* Taking rows off the page changes what is under way in nothing else.      *)
LEMMA RowsTyped ==
    ASSUME ListsTypes, NEW s
    PROVE  /\ RowsOf(s) \in [Clicks -> ActTypes]
           /\ \A c \in Clicks : RowsOf(s)[c].at = lists.acts[c].at
<1>1. ASSUME NEW c \in Clicks
      PROVE  /\ [lists.acts[c] EXCEPT !.row = @ /\ lists.acts[c].item \in s] \in ActTypes
             /\ [lists.acts[c] EXCEPT !.row = @ /\ lists.acts[c].item \in s].at = lists.acts[c].at
  <2> DEFINE b == lists.acts[c].row /\ lists.acts[c].item \in s
  <2>1. lists.acts[c] \in ActTypes
    BY DEF ListsTypes
  <2>2. b \in BOOLEAN
    OBVIOUS
  <2>3. [lists.acts[c] EXCEPT !.row = @ /\ lists.acts[c].item \in s]
          = [lists.acts[c] EXCEPT !.row = b]
    BY <2>1 DEF ActTypes
  <2> HIDE DEF b
  <2>4. QED
    BY <2>1, <2>2, <2>3 DEF ActTypes
<1>2. QED
  BY <1>1 DEF RowsOf

LEMMA SomeLoads ==
    /\ LoadSent \in LoadTypes /\ LoadIdle \in LoadTypes
    /\ \A s \in SUBSET Items : LoadOf(s) \in LoadTypes
    /\ LoadSent.at = Asking /\ LoadIdle.at = NoLoad
    /\ \A s : LoadOf(s).at = "answered" /\ LoadOf(s).list = s
    /\ NoLoad # Asking /\ NoLoad # "answered"
BY DEF LoadSent, LoadIdle, LoadOf, LoadTypes, NoLoad, Asking

(* A list that is out of date has a load on its way that is not.            *)
LEMMA ListsStepKeeps ==
    ASSUME ListsInv, ListsNext
    PROVE  ListsInv'
<1> USE SomeLoads, SomeActs
<1>0. lists.acts \in [Clicks -> ActTypes]
  BY DEF ListsInv, ListsTypes
<1>1. ASSUME NEW l \in Loads, Refresh(l) PROVE ListsInv'
  <2> DEFINE L == [lists.loads EXCEPT ![l] = LoadSent]
             A == RowsOf({})
  <2>1. L \in [Loads -> LoadTypes] /\ L[l] = LoadSent /\ A \in [Clicks -> ActTypes]
    BY LoadsTyped, RowsTyped DEF ListsInv
  <2>2. lists' = [lists EXCEPT !.loading = TRUE, !.loads = L, !.acts = A] /\ open' = open
    BY <1>1 DEF Refresh, Reload
  <2> HIDE DEF L, A
  <2>3. ListsTypes' /\ lists'.loads = L
    BY <2>1, <2>2 DEF ListsInv, ListsTypes
  <2>4. QED
    BY <2>1, <2>3 DEF ListsInv, ListSound
<1>2. ASSUME NEW l \in Loads, ServeLoad(l) PROVE ListsInv'
  <2> DEFINE L == [lists.loads EXCEPT ![l] = LoadOf(open)]
             c == ~Alone(l)
  <2>1. /\ L \in [Loads -> LoadTypes]
        /\ \A k \in Loads : L[k] = IF k = l THEN LoadOf(open) ELSE lists.loads[k]
    BY LoadsTyped DEF ListsInv, ListsTypes
  <2>2. lists' = [lists EXCEPT !.loads = L, !.crossed = c] /\ open' = open
    BY <1>2 DEF ServeLoad
  <2>3. c \in BOOLEAN /\ (~c <=> Alone(l))
    OBVIOUS
  <2> HIDE DEF L, c
  <2>4. ListsTypes' /\ lists'.loads = L /\ lists'.crossed = c
    BY <2>1, <2>2, <2>3 DEF ListsInv, ListsTypes
  <2>5. ~c => lists'.loads[l] = LoadOf(open') /\ Alone(l)'
    BY <2>1, <2>2, <2>3, <2>4 DEF Alone, UnderWay
  <2>6. QED
    BY <2>4, <2>5 DEF ListsInv, ListSound
<1>3. ASSUME NEW l \in Loads, LoadEnds(l) PROVE ListsInv'
  <2> DEFINE L == [lists.loads EXCEPT ![l] = LoadIdle]
             s == lists.loads[l].list
             A == RowsOf(s)
  <2>1. /\ L \in [Loads -> LoadTypes]
        /\ \A k \in Loads : L[k] = IF k = l THEN LoadIdle ELSE lists.loads[k]
        /\ s \in SUBSET Items
    BY LoadsTyped DEF ListsInv, ListsTypes, LoadTypes
  <2>r. A \in [Clicks -> ActTypes] /\ \A c \in Clicks : A[c].at = lists.acts[c].at
    BY RowsTyped DEF ListsInv
  <2>2. /\ lists' = [lists EXCEPT !.shown = s, !.loading = FALSE, !.loads = L, !.acts = A]
        /\ open' = open
    BY <1>3 DEF LoadEnds
  <2>a. s = lists.loads[l].list
    OBVIOUS
  <2> HIDE DEF L, s, A
  <2>3. /\ ListsTypes' /\ lists'.loads = L /\ lists'.shown = s
        /\ lists'.acts = A /\ lists'.crossed = lists.crossed
    BY <2>1, <2>r, <2>2 DEF ListsInv, ListsTypes
  <2>4. ASSUME ~lists.crossed PROVE ListSound'
    <3>1. UnderWay(l) /\ lists.loads[l].at # Asking
      BY <1>3 DEF LoadEnds, UnderWay, Asking
    <3>2. CASE \E c \in Clicks : lists.acts[c].at = "done"
      BY <2>3, <2>r, <3>2 DEF ListSound
    <3>3. CASE \E k \in Loads : lists.loads[k].at = Asking
      BY <2>1, <2>3, <3>1, <3>3 DEF ListSound
    <3>4. CASE \E k \in Loads : lists.loads[k] = LoadOf(open) /\ Alone(k)
      <4>1. lists.loads[l] = LoadOf(open) /\ Alone(l)
        BY <3>1, <3>4 DEF Alone
      <4>2. (\A k \in Loads : ~UnderWay(k)') /\ lists'.shown = open'
        BY <2>1, <2>2, <2>3, <2>a, <4>1 DEF Alone, UnderWay
      <4>3. QED
        BY <4>2 DEF ListSound
    <3>5. QED
      BY <2>4, <3>1, <3>2, <3>3, <3>4 DEF ListsInv, ListSound
  <2>5. QED
    BY <2>3, <2>4 DEF ListsInv, ListSound
<1>4. ASSUME NEW l \in Loads, LoadBreaks(l) PROVE ListsInv'
  <2> DEFINE L == [lists.loads EXCEPT ![l] = LoadIdle]
  <2>1. L \in [Loads -> LoadTypes]
    BY LoadsTyped DEF ListsInv
  <2>2. /\ lists' = [lists EXCEPT !.loading = FALSE, !.loads = L, !.crossed = TRUE]
        /\ open' = open
    BY <1>4 DEF LoadBreaks
  <2> HIDE DEF L
  <2>3. QED
    BY <2>1, <2>2 DEF ListsInv, ListsTypes, ListSound
<1>5. ASSUME NEW c \in Clicks, NEW X \in ActTypes, lists.acts[c].at # "done",
             lists' = [lists EXCEPT !.acts[c] = X], open' = open
      PROVE  ListsInv'
  <2> DEFINE A == [lists.acts EXCEPT ![c] = X]
  <2>1. A \in [Clicks -> ActTypes] /\ \A d \in Clicks : A[d] = IF d = c THEN X ELSE lists.acts[d]
    BY <1>0, ActsTyped
  <2>2. lists' = [lists EXCEPT !.acts = A] /\ open' = open
    BY <1>5
  <2> HIDE DEF A
  <2>3. /\ ListsTypes' /\ lists'.acts = A /\ lists'.loads = lists.loads
        /\ lists'.shown = lists.shown /\ lists'.crossed = lists.crossed
    BY <2>1, <2>2 DEF ListsInv, ListsTypes
  <2>4. \A d \in Clicks : lists.acts[d].at = "done" => lists'.acts[d].at = "done"
    BY <1>5, <2>1, <2>3
  <2>5. QED
    BY <2>2, <2>3, <2>4 DEF ListsInv, ListSound, UnderWay, Alone
<1>6. ASSUME NEW c \in Clicks, NEW i \in Items, Act(c, i) PROVE ListsInv'
  BY <1>5, <1>6 DEF Act
<1>7. ASSUME NEW c \in Clicks, ActFails(c) PROVE ListsInv'
  BY <1>5, <1>7 DEF ActFails
<1>8. ASSUME NEW c \in Clicks, ReadItem(c) PROVE ListsInv'
  <2> DEFINE X == [lists.acts[c] EXCEPT !.at = "read"]
  <2>1. X \in ActTypes
    BY <1>0 DEF ActTypes
  <2>2. lists' = [lists EXCEPT !.acts[c] = X] /\ open' = open /\ lists.acts[c].at # "done"
    BY <1>8 DEF ReadItem
  <2>3. QED
    BY <1>5, <2>1, <2>2
<1>9. ASSUME NEW c \in Clicks, ServeAct(c) PROVE ListsInv'
  <2> DEFINE X == [lists.acts[c] EXCEPT !.at = "done"]
             A == [lists.acts EXCEPT ![c] = X]
  <2>0. X \in ActTypes /\ X.at = "done"
    BY <1>0 DEF ActTypes
  <2>1. A \in [Clicks -> ActTypes] /\ A[c].at = "done"
    BY <1>0, <2>0, ActsTyped
  <2>2. lists' = [lists EXCEPT !.acts = A] /\ open' = open \ {lists.acts[c].item}
    BY <1>9 DEF ServeAct
  <2> HIDE DEF X, A
  <2>3. ListsTypes' /\ lists'.acts = A
    BY <2>1, <2>2 DEF ListsInv, ListsTypes
  <2>4. QED
    BY <2>1, <2>3 DEF ListsInv, ListSound
<1>10. ASSUME NEW c \in Clicks, ActEnds(c) PROVE ListsInv'
  <2> PICK l \in Loads : lists' = [Reload(l) EXCEPT !.acts[c] = ActIdle]
    BY <1>10 DEF ActEnds
  <2> DEFINE R == RowsOf({})
             A == [R EXCEPT ![c] = ActIdle]
             L == [lists.loads EXCEPT ![l] = LoadSent]
  <2>1. /\ A \in [Clicks -> ActTypes]
        /\ L \in [Loads -> LoadTypes]
        /\ L[l] = LoadSent
    BY ActsTyped, RowsTyped, LoadsTyped DEF ListsInv
  <2>2. lists' = [lists EXCEPT !.loading = TRUE, !.loads = L, !.acts = A] /\ open' = open
    BY <1>10 DEF ActEnds, Reload, ListsInv, ListsTypes
  <2> HIDE DEF A, L, R
  <2>3. ListsTypes' /\ lists'.loads = L
    BY <2>1, <2>2 DEF ListsInv, ListsTypes
  <2>4. QED
    BY <2>1, <2>3 DEF ListsInv, ListSound
<1>11. ASSUME NEW c \in Clicks, ActLost(c) PROVE ListsInv'
  <2> DEFINE A == [lists.acts EXCEPT ![c] = ActIdle]
  <2>1. A \in [Clicks -> ActTypes]
    BY <1>0, ActsTyped
  <2>2. lists' = [lists EXCEPT !.acts = A, !.crossed = TRUE] /\ open' = open
    BY <1>11 DEF ActLost
  <2> HIDE DEF A
  <2>3. QED
    BY <2>1, <2>2 DEF ListsInv, ListsTypes, ListSound
<1>12. ASSUME NEW i \in Items, Others(i) PROVE ListsInv'
  BY <1>12 DEF Others, ListsInv, ListsTypes, ListSound
<1>13. QED
  BY <1>1, <1>2, <1>3, <1>4, <1>6, <1>7, <1>8, <1>9, <1>10, <1>11, <1>12 DEF ListsNext

----------------------------------------------------------------------------
(* The pages together *)

Fresh(l) == /\ audit = FreshAudit /\ compliance = FreshCompliance /\ datasets = FreshDatasets
            /\ form = FreshForm /\ lists = FreshLists(l) /\ open \subseteq Items

PagesInv == AuditInv /\ ComplianceInv /\ DatasetsInv /\ ListsInv /\ FormInv

LEMMA FreshIsSound == ASSUME NEW l \in Loads PROVE Fresh(l) => PagesInv
BY AuditFresh, ComplianceFresh, DatasetsFresh, FormFresh, ListsFresh DEF Fresh, PagesInv

LEMMA FreshIsSoundNext == ASSUME NEW l \in Loads PROVE Fresh(l)' => PagesInv'
<1>1. Fresh(l) => PagesInv
  BY FreshIsSound
<1>2. QED
  BY <1>1, PTL

LEMMA InitIsSound == Init => Inv
<1> SUFFICES ASSUME Init PROVE Inv
  OBVIOUS
<1>1. RunInv
  BY DEF Init, RunInit, RunInv, RunTypes, Statuses, CompletedHasResults, DashboardLast, Dashboard
<1>2. FirstLoad \in Loads
  BY LoadAssumption DEF FirstLoad
<1>3. Fresh(FirstLoad)
  BY BacklogAssumption DEF Init, Fresh
<1>4. PagesInv
  BY <1>2, <1>3, FreshIsSound
<1>5. QED
  BY <1>1, <1>4 DEF Init, Inv, PagesInv

(* The page that moves keeps its own invariant; the others see at most that *)
(* something more was written.                                              *)
LEMMA StepKeeps == Inv /\ [Next]_vars => Inv'
<1> SUFFICES ASSUME Inv, [Next]_vars PROVE Inv'
  OBVIOUS
<1> USE DEF Inv
<1>1. ASSUME NEW p \in PageNames, Mount(p) PROVE Inv'
  <2>1. RunInv'
    BY <1>1, RunsKeep DEF Mount, runs
  <2>2. FirstLoad \in Loads
    BY LoadAssumption DEF FirstLoad
  <2>3. Fresh(FirstLoad)'
    BY <1>1 DEF Mount, Fresh, ListsInv, ListsTypes
  <2>4. PagesInv'
    BY <2>2, <2>3, FreshIsSoundNext
  <2>5. QED
    BY <1>1, <2>1, <2>4 DEF Mount, PagesInv
<1>2. CASE OnAudit
  <2>1. RunInv' /\ Grows
    BY <1>2, AuditStepKeepsRuns DEF OnAudit
  <2>2. AuditInv'
    BY <1>2, AuditStepKeeps DEF OnAudit
  <2>3. ComplianceInv'
    BY <1>2, <2>1, ComplianceStays DEF OnAudit
  <2>4. QED
    BY <1>2, <2>1, <2>2, <2>3 DEF OnAudit, DatasetsInv, DatasetsTypes, OneValidation,
       VerdictOfSelected, ListsInv, ListsTypes, ListSound, UnderWay, Alone, FormInv, FormTypes,
       FormSound, DoneIsComplete, Leaving
<1>3. CASE OnCompliance
  <2>1. ComplianceInv' /\ UNCHANGED runs
    BY <1>3, ComplianceStepKeeps DEF OnCompliance
  <2>2. RunInv' /\ Grows
    BY <2>1, RunsKeep
  <2>3. AuditInv'
    BY <1>3, <2>2, AuditStays DEF OnCompliance
  <2>4. QED
    BY <1>3, <2>1, <2>2, <2>3 DEF OnCompliance, DatasetsInv, DatasetsTypes, OneValidation,
       VerdictOfSelected, ListsInv, ListsTypes, ListSound, UnderWay, Alone, FormInv, FormTypes,
       FormSound, DoneIsComplete, Leaving
<1>4. CASE \/ OnDatasets \/ OnLists \/ OnAccess
          \/ UNCHANGED vars
  <2>1. /\ UNCHANGED <<runs, audit, compliance, page>>
        /\ DatasetsNext \/ UNCHANGED datasets
        /\ ListsNext \/ UNCHANGED <<open, lists>>
        /\ FormNext \/ UNCHANGED form
    BY <1>4 DEF OnDatasets, OnLists, OnAccess, vars, runs
  <2>2. RunInv' /\ Grows
    BY <2>1, RunsKeep
  <2>3. AuditInv' /\ ComplianceInv'
    BY <2>1, <2>2, AuditStays, ComplianceStays
  <2>4. DatasetsInv'
    BY <2>1, DatasetsStepKeeps DEF DatasetsInv, DatasetsTypes, OneValidation, VerdictOfSelected
  <2>5. ListsInv'
    BY <2>1, ListsStepKeeps DEF ListsInv, ListsTypes, ListSound, UnderWay, Alone
  <2>6. FormInv'
    BY <2>1, FormStepKeeps DEF FormInv, FormTypes, FormSound, DoneIsComplete, Leaving
  <2>7. QED
    BY <2>1, <2>2, <2>3, <2>4, <2>5, <2>6
<1>5. CASE OnServer
  <2>1. RunInv' /\ Grows
    BY <1>5, RunsKeep DEF OnServer
  <2>2. AuditInv' /\ ComplianceInv'
    BY <1>5, <2>1, AuditStays, ComplianceStays DEF OnServer
  <2>3. QED
    BY <1>5, <2>1, <2>2 DEF OnServer, DatasetsInv, DatasetsTypes, OneValidation,
       VerdictOfSelected, ListsInv, ListsTypes, ListSound, UnderWay, Alone, FormInv, FormTypes,
       FormSound, DoneIsComplete, Leaving
<1>6. QED
  BY <1>1, <1>2, <1>3, <1>4, <1>5 DEF Next

(* Every reachable state satisfies the invariants of the runs and of every  *)
(* page.                                                                    *)
THEOREM PagesSound == Spec => []Inv
<1>1. QED
  BY InitIsSound, StepKeeps, PTL DEF Spec

(* The invariant that the run checks: the types, the order in which a run   *)
(* leaves its documents, and what each page's property rests on.            *)
THEOREM TypedAndSound == Spec => []IInv
<1>1. Inv => IInv
  BY DEF Inv, IInv, Types, RunInv, AuditInv, ComplianceInv, DatasetsInv, ListsInv, FormInv
<1>2. QED
  BY <1>1, PagesSound, PTL

(* The audit page shows the run it started: Audit.tsx, handleRun.           *)
THEOREM AuditFollows == Spec => []PageFollowsItsRun
<1>1. Inv => PageFollowsItsRun
  BY DEF Inv, AuditInv
<1>2. QED
  BY <1>1, PagesSound, PTL

(* A run that is reported as completed can be shown: _run_audit_bg says so  *)
(* only after run_audit has written the dashboard.                          *)
THEOREM DoneIsNotBlank == Spec => []BlankOnlyIfLost
<1>1. Inv => BlankOnlyIfLost
  BY DEF Inv, AuditInv
<1>2. QED
  BY <1>1, PagesSound, PTL

(* The compliance page never shows the graph of one run beside the SOP of   *)
(* another: Compliance.tsx, handleLoad.                                     *)
THEOREM DocumentsBelongTogether == Spec => []OneRunsDocuments
<1>1. Inv => OneRunsDocuments
  BY DEF Inv, ComplianceInv
<1>2. QED
  BY <1>1, PagesSound, PTL

(* A verdict stands under the path it is about: Datasets.tsx.               *)
THEOREM VerdictBelongs == Spec => []VerdictOfSelected
<1>1. Inv => VerdictOfSelected
  BY DEF Inv, DatasetsInv
<1>2. QED
  BY <1>1, PagesSound, PTL

(* The list of registrations at rest is the server's, rows that are put on  *)
(* the page anew notwithstanding: PendingRegistrations.tsx.                 *)
THEOREM ListsAreCurrent == Spec => []ListCurrentAtRest
<1>1. ListsInv => ListCurrentAtRest
  <2> SUFFICES ASSUME ListSound, \A l \in Loads : ~UnderWay(l), ~lists.crossed,
                      \A c \in Clicks : lists.acts[c].at = "idle"
               PROVE  lists.shown = open
    BY DEF ListsInv, ListCurrentAtRest
  <2>1. \A l \in Loads : lists.loads[l].at # Asking /\ lists.loads[l] # LoadOf(open)
    BY SomeLoads DEF UnderWay
  <2>2. QED
    BY <2>1 DEF ListSound
<1>2. Inv => ListsInv
  BY DEF Inv
<1>3. QED
  BY <1>1, <1>2, PagesSound, PTL

(* What was received was complete and consented to: RequestAccess.tsx.      *)
THEOREM ReceivedIsComplete == Spec => []DoneIsComplete
<1>1. Inv => DoneIsComplete
  BY DEF Inv, FormInv
<1>2. QED
  BY <1>1, PagesSound, PTL
=============================================================================
