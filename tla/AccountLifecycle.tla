-------------------------- MODULE AccountLifecycle --------------------------
(***************************************************************************)
(* What onboarding promises, without requests, transactions or e-mail: an  *)
(* applicant has no account until an application was approved, an account  *)
(* is created once and inactive, and only the holder of a key issued for   *)
(* that very account turns it on.                                          *)
(***************************************************************************)
CONSTANTS Emails, Tokens, Nobody

VARIABLES
  stage, \* what each applicant has: nothing, an application, an account
  key    \* the applicant each activation token was issued to

vars == <<stage, key>>

Stages == {"absent", "applied", "inactive", "active"}

Init ==
  /\ stage = [e \in Emails |-> "absent"]
  /\ key = [t \in Tokens |-> Nobody]

Move(e, from, to) ==
  /\ stage[e] = from
  /\ stage' = [stage EXCEPT ![e] = to]

Issue(e, t) ==
  /\ key[t] = Nobody
  /\ key' = [key EXCEPT ![t] = e]

Apply(e) == Move(e, "absent", "applied") /\ UNCHANGED key

Approve(e, t) == Move(e, "applied", "inactive") /\ Issue(e, t)

Reissue(e, t) ==
  /\ stage[e] \in {"inactive", "active"}
  /\ Issue(e, t)
  /\ UNCHANGED stage

Activate(e, t) ==
  /\ key[t] = e
  /\ Move(e, "inactive", "active")
  /\ UNCHANGED key

Disable(e) == Move(e, "active", "inactive") /\ UNCHANGED key

Next ==
  \/ \E e \in Emails : Apply(e) \/ Disable(e)
  \/ \E e \in Emails, t \in Tokens :
       Approve(e, t) \/ Reissue(e, t) \/ Activate(e, t)

Spec == Init /\ [][Next]_vars
=============================================================================
