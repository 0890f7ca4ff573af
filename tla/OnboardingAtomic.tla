-------------------------- MODULE OnboardingAtomic --------------------------
(***************************************************************************)
(* Onboarding as an administrator thinks of it: every handler that goes    *)
(* through does all it does at once, to the tables as they are then.       *)
(***************************************************************************)
CONSTANTS Emails, Tokens, Nobody

VARIABLES
  registration, \* status of each registration
  account,      \* state of each account
  owner,        \* the applicant each token was issued to
  used,         \* tokens spent or invalidated
  expired,      \* tokens past their time
  delivered     \* issued tokens that reached their applicant

vars == <<registration, account, owner, used, expired, delivered>>

Init ==
  /\ registration = [e \in Emails |-> "none"]
  /\ account = [e \in Emails |-> "none"]
  /\ owner = [t \in Tokens |-> Nobody]
  /\ used = {}
  /\ expired = {}
  /\ delivered = {}

Decide(e, status) == registration' = [registration EXCEPT ![e] = status]

\* A token is issued; its e-mail arrives or does not.
Issue(e, t) ==
  /\ owner[t] = Nobody
  /\ owner' = [owner EXCEPT ![t] = e]
  /\ delivered' \in {delivered, delivered \cup {t}}

Register(e) ==
  /\ registration[e] = "none" /\ account[e] = "none"
  /\ Decide(e, "pending")
  /\ UNCHANGED <<account, owner, used, expired, delivered>>

Approve(e, t) ==
  /\ registration[e] = "pending" /\ account[e] = "none"
  /\ Decide(e, "approved")
  /\ account' = [account EXCEPT ![e] = "inactive"]
  /\ Issue(e, t)
  /\ UNCHANGED <<used, expired>>

Reject(e) ==
  /\ registration[e] = "pending" /\ account[e] = "none"
  /\ Decide(e, "rejected")
  /\ UNCHANGED <<account, owner, used, expired, delivered>>

RequestInfo(e) ==
  /\ registration[e] # "none"
  /\ Decide(e, "more_info_requested")
  /\ UNCHANGED <<account, owner, used, expired, delivered>>

\* The token is looked at first: by the time all is done it may be past its time.
Activate(e, t) ==
  /\ owner[t] = e
  /\ t \in delivered \ (used \cup expired)
  /\ account[e] # "none"
  /\ account' = [account EXCEPT ![e] = "active"]
  /\ used' = used \cup {t}
  /\ expired' \in {expired, expired \cup {t}}
  /\ UNCHANGED <<registration, owner, delivered>>

\* All the tokens there were are invalid, and there is a new one.
Resend(e, t) ==
  /\ account[e] # "none"
  /\ used' = used \cup {s \in Tokens : owner[s] = e}
  /\ Issue(e, t)
  /\ UNCHANGED <<registration, account, expired>>

Disable(e) ==
  /\ account[e] # "none"
  /\ account' = [account EXCEPT ![e] = "inactive"]
  /\ UNCHANGED <<registration, owner, used, expired, delivered>>

Expire(t) ==
  /\ owner[t] # Nobody
  /\ expired' = expired \cup {t}
  /\ UNCHANGED <<registration, account, owner, used, delivered>>

Next ==
  \/ \E e \in Emails : Register(e) \/ Reject(e) \/ RequestInfo(e) \/ Disable(e)
  \/ \E e \in Emails, t \in Tokens : Approve(e, t) \/ Activate(e, t) \/ Resend(e, t)
  \/ \E t \in Tokens : Expire(t)

Spec == Init /\ [][Next]_vars
=============================================================================
