----------------------------- MODULE AccessForm -----------------------------
(***************************************************************************)
(* The three steps by which managed access is asked for.  Each leads on     *)
(* only once it is filled in; the last is submitted, which takes a while,   *)
(* and all the fields and the way back stay enabled meanwhile.  Nothing is  *)
(* sent: handleSubmit waits 1.2 seconds and says that the request was       *)
(* received.                                                                *)
(*                                                                         *)
(* The steps are faded over one after the other.  The one that is left      *)
(* stays on the page while it fades, with fields and buttons that work and  *)
(* look as they did when it was left; only then is the next one there.      *)
(***************************************************************************)
EXTENDS Naturals

CONSTANT MaxWaits    \* submissions there can be under way at once (bound)

ASSUME WaitAssumption == MaxWaits \in Nat \ {0}

VARIABLE form    \* the state of the page
(* form.step        where the person is                                     *)
(* form.shown       the step that is on the page                            *)
(* form.ready       whether its button leads on, as it looked when left     *)
(* form.deployment, form.organization (name and role), form.consent         *)
(*                  whether they are filled in                              *)
(* form.loading     whether the button says that it is being submitted      *)
(* form.waits       how many times handleSubmit is waiting                  *)
(* form.touched     history: something was changed during the wait, or in a *)
(*                  step that was fading                                    *)

Steps == {"deployment", "organization", "requirements", "done"}

FreshForm == [step |-> "deployment", shown |-> "deployment", ready |-> FALSE,
              deployment |-> FALSE, organization |-> FALSE, consent |-> FALSE,
              loading |-> FALSE, waits |-> 0, touched |-> FALSE]

FormTypes ==
    form \in [step : Steps, shown : Steps, ready : BOOLEAN,
              deployment : BOOLEAN, organization : BOOLEAN, consent : BOOLEAN,
              loading : BOOLEAN, waits : 0 .. MaxWaits, touched : BOOLEAN]

Leaving == form.shown # form.step

(* Whether the button that leads on from the step on the page is enabled.   *)
FilledIn ==
    \/ form.shown = "deployment" /\ form.deployment
    \/ form.shown = "organization" /\ form.organization
    \/ form.shown = "requirements" /\ form.consent /\ ~form.loading

LeadsOn == IF Leaving THEN form.ready ELSE FilledIn

(* setStep.  A step that is come back to while it fades is itself again.    *)
To(step) == [form EXCEPT !.step = step, !.ready = LeadsOn /\ step # form.shown]

(* The next step is on the page once the one before it has faded.           *)
Arrive ==
    /\ Leaving
    /\ form' = [form EXCEPT !.shown = form.step, !.ready = FALSE]

----------------------------------------------------------------------------
Changed(f) == form' = [f EXCEPT !.touched = @ \/ form.waits > 0 \/ Leaving]

(* A deployment can be exchanged for another, but not taken back.           *)
ChooseDeployment ==
    /\ form.shown = "deployment"
    /\ form' = [form EXCEPT !.deployment = TRUE]

EnterOrganization(filled) ==
    /\ form.shown = "organization"
    /\ Changed([form EXCEPT !.organization = filled])

Consent(given) ==
    /\ form.shown = "requirements"
    /\ Changed([form EXCEPT !.consent = given])

ToOrganization ==
    /\ form.shown = "deployment" /\ LeadsOn
    /\ form' = To("organization")

MUT_ToRequirements_Unchecked ==
    /\ form.shown = "organization"
    /\ form' = To("requirements")

ToRequirements ==
    /\ form.shown = "organization" /\ LeadsOn
    /\ form' = To("requirements")

BackToDeployment ==
    /\ form.shown = "organization"
    /\ form' = To("deployment")

BackToOrganization ==
    /\ form.shown = "requirements"
    /\ form' = To("organization")

(* The form has one button that submits it, and no other way to submit it.  *)
HandleSubmit ==
    /\ form.shown = "requirements" /\ LeadsOn
    /\ form.waits < MaxWaits
    /\ form' = [form EXCEPT !.loading = TRUE, !.waits = @ + 1]

Submitted ==
    /\ form.waits > 0
    /\ form' = [To("done") EXCEPT !.loading = FALSE, !.waits = @ - 1]

FormNext ==
    \/ Arrive
    \/ ChooseDeployment
    \/ \E b \in BOOLEAN : EnterOrganization(b) \/ Consent(b)
    \/ ToOrganization \/ ToRequirements
    \/ BackToDeployment \/ BackToOrganization
    \/ HandleSubmit \/ Submitted

(* A person is told that the request was received only for a form whose     *)
(* deployment was chosen, whatever he did; and that was complete and        *)
(* consented to, whatever the way through its steps, unless he changed it   *)
(* during the wait or in a step that was fading.                            *)
DoneIsComplete ==
    form.step = "done" =>
        /\ form.deployment
        /\ ~form.touched => form.organization /\ form.consent
=============================================================================
