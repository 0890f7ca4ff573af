---------------------------- MODULE WizardGuide ----------------------------
(***************************************************************************)
(* The guided wizard as its user may think of it, who waits for every      *)
(* answer: a plan that is filled in step by step, each call answered at    *)
(* the click.  What the inspector, the recommender and the validator say   *)
(* are parameters.                                                         *)
(***************************************************************************)
EXTENDS Naturals

CONSTANTS
  Detect(_),    \* of a dataset: whether its format is known, which it is, what it maps
  Offer(_),     \* of a plan: the analyses available for it
  Charts(_),    \* of a plan: the plots proposed with them
  Judge(_),     \* of a plan: the verdict of the validator
  Blank,        \* the plan of an empty form
  NoContract

VARIABLES
  at, done,              \* the step, and those gone through
  plan, known,           \* what the form amounts to; whether its format was detected
  offer,
  contract, verdict, confirmed,
  run, results           \* the last run heard of, and the one whose results are shown

vars == <<at, done, plan, known, offer, contract, verdict, confirmed, run, results>>

Init ==
  /\ at = 1 /\ done = {}
  /\ plan = Blank /\ known = FALSE /\ offer = {}
  /\ contract = NoContract /\ verdict = "null" /\ confirmed = FALSE
  /\ run = 0 /\ results = 0

GoOn == done' = done \cup {at} /\ at' = at + 1

\* Only steps gone through are ever gone back to, or forward again.
Revisit ==
  /\ at' \in done
  /\ UNCHANGED <<done, plan, known, offer, contract, verdict, confirmed, run, results>>

Changes(fields) == \A f \in DOMAIN plan \ fields : plan'[f] = plan[f]

Fill ==
  /\ \/ at = 1 /\ Changes({"dataset", "inputs", "has"})
     \/ at = 2 /\ known /\ Changes({"format"})
     \/ at = 3 /\ known /\ Changes({"mappings"})
     \/ at = 4 /\ Changes({"acknowledged"})
     \/ at = 5 /\ Changes({"inputs"})
     \/ at = 7 /\ Changes({"plots"})
     \/ at = 6 /\ Changes({"analyses"}) /\ plan'.analyses \subseteq offer
  /\ UNCHANGED <<at, done, known, offer, contract, verdict, confirmed, run, results>>

Confirm ==
  /\ at = 8 /\ contract # NoContract /\ verdict # "fail"
  /\ confirmed' = ~confirmed
  /\ UNCHANGED <<at, done, plan, known, offer, contract, verdict, run, results>>

Proceed ==
  /\ \/ at = 2 /\ known
     \/ at = 3
     \/ at = 4 /\ plan.acknowledged
     \/ at = 6 /\ plan.analyses # {}
     \/ at = 8 /\ confirmed /\ verdict # "fail"
  /\ GoOn
  /\ UNCHANGED <<plan, known, offer, contract, verdict, confirmed, run, results>>

Inspect ==
  /\ plan.dataset # Blank.dataset
  /\ \/ at = 1 /\ GoOn
     \/ at = 2 /\ UNCHANGED <<at, done>>
  /\ LET found == Detect(plan.dataset)
     IN  /\ known' = found.known
         /\ plan' = [plan EXCEPT !.format = found.format, !.mappings = found.mappings]
  /\ UNCHANGED <<offer, contract, verdict, confirmed, run, results>>

Recommend ==
  /\ at = 5 /\ GoOn
  /\ offer' = Offer(plan)
  /\ plan' = [plan EXCEPT !.analyses = Offer(plan), !.plots = Charts(plan)]
  /\ UNCHANGED <<known, contract, verdict, confirmed, run, results>>

Contract ==
  /\ at = 7 /\ GoOn
  /\ contract' = plan /\ verdict' = Judge(plan)
  /\ UNCHANGED <<plan, known, offer, confirmed, run, results>>

\* Nothing runs for the first time that was not confirmed, and nothing that is blocked now
\* or was in the contract.  The answer, with the number of the run, may be lost.
Run ==
  /\ at = 9 /\ (9 \notin done => confirmed)
  /\ verdict # "fail" /\ Judge(plan) # "fail"
  /\ run' = run \/ run' > run
  /\ UNCHANGED <<at, done, plan, known, offer, contract, verdict, confirmed, results>>

Results ==
  /\ at = 9 /\ run # 0 /\ GoOn
  /\ results' = run
  /\ UNCHANGED <<plan, known, offer, contract, verdict, confirmed, run>>

Next ==
  \/ Revisit \/ Fill \/ Confirm \/ Proceed
  \/ Inspect \/ Recommend \/ Contract \/ Run \/ Results

Spec == Init /\ [][Next]_vars
=============================================================================
