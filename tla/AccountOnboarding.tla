------------------------- MODULE AccountOnboarding -------------------------
(***************************************************************************)
(* Registration, approval and activation of accounts: the handlers of      *)
(* api/routers/public.py and api/routers/admin.py over auth/onboarding.py, *)
(* each run as one database transaction opened and closed by               *)
(* db/session.py::get_db.                                                  *)
(*                                                                         *)
(* A request is cut where another request can come in between:             *)
(*   Begin    the SELECTs and the checks on what they return;              *)
(*   Lock     one row of an INSERT or UPDATE, which the request waits for  *)
(*            and keeps locked to its end;                                 *)
(*   Flush    all is written, and the handler sends its e-mail;            *)
(*   Commit   get_db commits after the handler, and the rows change;       *)
(*   Rollback an exception or a crash anywhere undoes all but the e-mail.  *)
(* A request whose checks fail answers 4xx and changes nothing: it is a    *)
(* stuttering step.  The database is PostgreSQL at READ COMMITTED: a row   *)
(* read is not locked, a row written is locked up to the commit, and a     *)
(* blocked writer goes on with what it read before.                        *)
(***************************************************************************)
EXTENDS Naturals, FiniteSets

CONSTANTS
  Emails,  \* applicants; an e-mail is unique among registrations and users
  Tokens,  \* activation tokens there are to issue: bounds the resends
  Workers, \* requests in flight at once
  Nobody,  \* no applicant, no token
  Place    \* where a scan of the token table finds the row of each token

ASSUME NobodyIsFresh == Nobody \notin Emails /\ Nobody \notin Tokens

\* Two rows are in two places, and a live one stays where it is: the only
\* UPDATE of the table is the one that makes a token unlive.
ASSUME PlaceAssumption ==
  /\ Place \in [Tokens -> Nat]
  /\ \A s, t \in Tokens : Place[s] = Place[t] => s = t

VARIABLES
  registration, \* status of each PendingRegistration row, "none" without one
  account,      \* is_active of each User row, "none" without one
  owner,        \* user of each committed ActivationToken row, Nobody without one
  used,         \* tokens whose used_at is set
  expired,      \* tokens past expires_at
  inbox,        \* tokens whose plaintext was e-mailed
  request,      \* what each worker is doing
  approvals,    \* history: approvals committed per applicant
  activations   \* history: activations committed per token

store == <<registration, account, owner, used, expired, approvals, activations>>
vars == <<registration, account, owner, used, expired, inbox, request,
          approvals, activations>>

Statuses == {"none", "pending", "approved", "rejected", "more_info_requested"}
AccountStates == {"none", "inactive", "active"}
Ops == {"idle", "register", "approve", "reject", "request_info", "activate",
        "resend", "disable"}

Rows == ({"registration", "user"} \X Emails) \cup ({"token"} \X Tokens)

\* A request keeps what it read: "seen" is the status of the row its ORM object
\* was loaded with, "doomed" the live tokens its bulk UPDATE matched; "held" are
\* the rows it has written so far, and locked.
Requests == [op : Ops, phase : {"idle", "read", "flushed"},
             email : Emails \cup {Nobody}, token : Tokens \cup {Nobody},
             seen : Statuses \cup AccountStates, doomed : SUBSET Tokens,
             held : SUBSET Rows]

Idle == [op |-> "idle", phase |-> "idle", email |-> Nobody, token |-> Nobody,
         seen |-> "none", doomed |-> {}, held |-> {}]

TypeOK ==
  /\ registration \in [Emails -> Statuses]
  /\ account \in [Emails -> AccountStates]
  /\ owner \in [Tokens -> Emails \cup {Nobody}]
  /\ used \in SUBSET Tokens
  /\ expired \in SUBSET Tokens
  /\ inbox \in SUBSET Tokens
  /\ request \in [Workers -> Requests]
  /\ approvals \in [Emails -> Nat]
  /\ activations \in [Tokens -> Nat]

Init ==
  /\ registration = [e \in Emails |-> "none"]
  /\ account = [e \in Emails |-> "none"]
  /\ owner = [t \in Tokens |-> Nobody]
  /\ used = {}
  /\ expired = {}
  /\ inbox = {}
  /\ request = [w \in Workers |-> Idle]
  /\ approvals = [e \in Emails |-> 0]
  /\ activations = [t \in Tokens |-> 0]

-----------------------------------------------------------------------------
(* The SELECTs and checks of each handler *)

LiveTokens(e) == {t \in Tokens : owner[t] = e /\ t \notin used}

\* A token nobody issued yet: secrets.token_urlsafe never repeats.
Fresh(t) ==
  /\ owner[t] = Nobody
  /\ t \notin inbox
  /\ \A w \in Workers : request[w].token # t

Begin(w, op, e, t, seen, doomed) ==
  /\ request[w].phase = "idle"
  /\ request' = [request EXCEPT ![w] =
       [op |-> op, phase |-> "read", email |-> e, token |-> t,
        seen |-> seen, doomed |-> doomed, held |-> {}]]
  /\ UNCHANGED <<store, inbox>>

BeginRegister(w, e) ==
  /\ registration[e] = "none"
  /\ account[e] = "none"
  /\ Begin(w, "register", e, Nobody, "none", {})

BeginApprove(w, e) ==
  /\ registration[e] = "pending"
  /\ \E t \in Tokens : Fresh(t) /\ Begin(w, "approve", e, t, "pending", {})

BeginReject(w, e) ==
  /\ registration[e] = "pending"
  /\ Begin(w, "reject", e, Nobody, "pending", {})

\* Any registration will do: the handler looks at no status.
BeginRequestInfo(w, e) ==
  /\ registration[e] # "none"
  /\ Begin(w, "request_info", e, Nobody, registration[e], {})

BeginActivate(w, t) ==
  /\ t \in inbox \ (used \cup expired)
  /\ owner[t] # Nobody
  /\ Begin(w, "activate", owner[t], t, account[owner[t]], {})

BeginResend(w, e) ==
  /\ account[e] # "none"
  /\ \E t \in Tokens :
       Fresh(t) /\ Begin(w, "resend", e, t, account[e], LiveTokens(e))

BeginDisable(w, e) ==
  /\ account[e] # "none"
  /\ Begin(w, "disable", e, Nobody, account[e], {})

-----------------------------------------------------------------------------
(* Writing: row locks, unique keys, e-mail *)

\* What a request writes.  The ORM writes only the columns that differ from
\* the values it loaded, so a request that finds its work done writes nothing.
WriteSet(r) ==
  CASE r.op \in {"register", "reject"} -> {<<"registration", r.email>>}
    [] r.op = "approve" -> {<<"registration", r.email>>, <<"user", r.email>>}
    [] r.op = "request_info" /\ r.seen # "more_info_requested" ->
         {<<"registration", r.email>>}
    [] r.op = "activate" -> {<<"user", r.email>>, <<"token", r.token>>}
    [] r.op = "resend" -> {<<"token", t>> : t \in r.doomed}
    [] r.op = "disable" /\ r.seen = "active" -> {<<"user", r.email>>}
    [] OTHER -> {}

\* The order of one request's writes: approve_registration flushes the new user
\* before all else, the unit of work writes a user before the tokens that refer
\* to it, and a bulk UPDATE takes the rows as its scan finds them.
Rank(row) ==
  CASE row[1] = "user" -> 0
    [] row[1] = "registration" -> 1
    [] OTHER -> 2 + Place[row[2]]

Missing(r) == WriteSet(r) \ r.held

\* A handler that leaves the order of its writes to the session.
MUT_Turn_Any(r, row) == row \in Missing(r)

Turn(r, row) ==
  /\ row \in Missing(r)
  /\ \A other \in Missing(r) : Rank(row) <= Rank(other)

MUT_Locked_Never(w, row) == FALSE

\* A row another transaction has written: its writer has to end first.
Locked(w, row) == \E v \in Workers \ {w} : row \in request[v].held

\* The unique keys PendingRegistration.email and User.email.
MUT_DuplicateKey_None(r, row) == FALSE

DuplicateKey(r, row) ==
  \/ r.op = "register" /\ registration[r.email] # "none"
  \/ r.op = "approve" /\ row[1] = "user" /\ account[r.email] # "none"

\* A bulk UPDATE looks again at a row it had to wait for, and leaves one alone
\* that no longer matches.
Mismatch(r, row) == r.op = "resend" /\ row[2] \in used

Issues(r) == r.op \in {"approve", "resend"}

Lock(w) ==
  LET r == request[w] IN
  /\ r.phase = "read"
  /\ \E row \in WriteSet(r) :
       /\ Turn(r, row)
       /\ ~Locked(w, row)
       /\ request' = [request EXCEPT ![w] =
            IF DuplicateKey(r, row) THEN Idle
            ELSE IF Mismatch(r, row) THEN [r EXCEPT !.doomed = @ \ {row[2]}]
            ELSE [r EXCEPT !.held = @ \cup {row}]]
  /\ UNCHANGED <<store, inbox>>

\* Sending may fail, send_email then returns False and the handler goes on.
Flush(w) ==
  LET r == request[w] IN
  /\ r.phase = "read"
  /\ Missing(r) = {}
  /\ request' = [request EXCEPT ![w].phase = "flushed"]
  /\ \/ UNCHANGED inbox
     \/ Issues(r) /\ inbox' = inbox \cup {r.token}
  /\ UNCHANGED store

-----------------------------------------------------------------------------
(* Commit *)

Finish(w, op) ==
  /\ request[w].op = op
  /\ request[w].phase = "flushed"
  /\ request' = [request EXCEPT ![w] = Idle]
  /\ UNCHANGED <<expired, inbox>>

SetStatus(w, status) ==
  registration' = [registration EXCEPT ![request[w].email] = status]

CommitRegister(w) ==
  /\ Finish(w, "register")
  /\ SetStatus(w, "pending")
  /\ UNCHANGED <<account, owner, used, approvals, activations>>

MUT_CommitApprove_StatusKept(w) ==
  /\ Finish(w, "approve")
  /\ account' = [account EXCEPT ![request[w].email] = "inactive"]
  /\ owner' = [owner EXCEPT ![request[w].token] = request[w].email]
  /\ approvals' = [approvals EXCEPT ![request[w].email] = @ + 1]
  /\ UNCHANGED <<registration, used, activations>>

MUT_CommitApprove_Active(w) ==
  /\ Finish(w, "approve")
  /\ SetStatus(w, "approved")
  /\ account' = [account EXCEPT ![request[w].email] = "active"]
  /\ owner' = [owner EXCEPT ![request[w].token] = request[w].email]
  /\ approvals' = [approvals EXCEPT ![request[w].email] = @ + 1]
  /\ UNCHANGED <<used, activations>>

CommitApprove(w) ==
  /\ Finish(w, "approve")
  /\ SetStatus(w, "approved")
  /\ account' = [account EXCEPT ![request[w].email] = "inactive"]
  /\ owner' = [owner EXCEPT ![request[w].token] = request[w].email]
  /\ approvals' = [approvals EXCEPT ![request[w].email] = @ + 1]
  /\ UNCHANGED <<used, activations>>

CommitReject(w) ==
  /\ Finish(w, "reject")
  /\ SetStatus(w, "rejected")
  /\ UNCHANGED <<account, owner, used, approvals, activations>>

CommitRequestInfo(w) ==
  /\ Finish(w, "request_info")
  /\ IF request[w].seen = "more_info_requested"
       THEN UNCHANGED registration
       ELSE SetStatus(w, "more_info_requested")
  /\ UNCHANGED <<account, owner, used, approvals, activations>>

CommitActivate(w) ==
  /\ Finish(w, "activate")
  /\ account' = IF request[w].seen = "active"
                  THEN account
                  ELSE [account EXCEPT ![request[w].email] = "active"]
  /\ used' = used \cup {request[w].token}
  /\ activations' = [activations EXCEPT ![request[w].token] = @ + 1]
  /\ UNCHANGED <<registration, owner, approvals>>

MUT_CommitResend_OldKept(w) ==
  /\ Finish(w, "resend")
  /\ owner' = [owner EXCEPT ![request[w].token] = request[w].email]
  /\ UNCHANGED <<registration, account, used, approvals, activations>>

CommitResend(w) ==
  /\ Finish(w, "resend")
  /\ used' = used \cup request[w].doomed
  /\ owner' = [owner EXCEPT ![request[w].token] = request[w].email]
  /\ UNCHANGED <<registration, account, approvals, activations>>

CommitDisable(w) ==
  /\ Finish(w, "disable")
  /\ account' = IF request[w].seen = "active"
                  THEN [account EXCEPT ![request[w].email] = "inactive"]
                  ELSE account
  /\ UNCHANGED <<registration, owner, used, approvals, activations>>

Commit(w) ==
  \/ CommitRegister(w) \/ CommitApprove(w) \/ CommitReject(w)
  \/ CommitRequestInfo(w) \/ CommitActivate(w) \/ CommitResend(w)
  \/ CommitDisable(w)

Rollback(w) ==
  /\ request[w].phase # "idle"
  /\ request' = [request EXCEPT ![w] = Idle]
  /\ UNCHANGED <<store, inbox>>

\* The clock passes a token's expires_at.
Expire(t) ==
  /\ owner[t] # Nobody
  /\ t \notin expired
  /\ expired' = expired \cup {t}
  /\ UNCHANGED <<registration, account, owner, used, inbox, request,
                 approvals, activations>>

-----------------------------------------------------------------------------
Next ==
  \/ \E w \in Workers, e \in Emails :
       \/ BeginRegister(w, e) \/ BeginApprove(w, e) \/ BeginReject(w, e)
       \/ BeginRequestInfo(w, e) \/ BeginResend(w, e) \/ BeginDisable(w, e)
  \/ \E w \in Workers, t \in Tokens : BeginActivate(w, t)
  \/ \E w \in Workers : Lock(w) \/ Flush(w) \/ Commit(w) \/ Rollback(w)
  \/ \E t \in Tokens : Expire(t)

Spec == Init /\ [][Next]_vars

\* A handler that was started runs on; PostgreSQL serves the waiters of a row
\* lock in order, so a request the lock is free for again and again gets it.
RequestFairness ==
  \A w \in Workers : SF_vars(Lock(w)) /\ WF_vars(Flush(w)) /\ WF_vars(Commit(w))

FairSpec == Spec /\ RequestFairness

\* Administrators work through the pending list: an application that can be
\* decided again and again is taken up, and some decision on it is committed.
DecisionFairness ==
  \A e \in Emails :
    /\ SF_vars(\E w \in Workers : BeginApprove(w, e) \/ BeginReject(w, e))
    /\ SF_vars(\E w \in Workers :
         request[w].email = e /\ (CommitApprove(w) \/ CommitReject(w)))

DecidingSpec == FairSpec /\ DecisionFairness

-----------------------------------------------------------------------------
(* Correctness *)

\* An applicant gets one account however many administrators approve at once:
\* approve_registration commits at most once per e-mail, and each account
\* comes from such a commit.
OneAccountPerApplicant ==
  \A e \in Emails : approvals[e] = IF account[e] = "none" THEN 0 ELSE 1

\* An application still listed as pending has no account, whatever other
\* requests were reading it: approve_registration writes both or neither.
PendingHasNoAccount ==
  \A e \in Emails :
    account[e] # "none" => registration[e] \notin {"none", "pending"}

\* Whoever can sign in has set a password with an activation token of their
\* own: no approval, resend or disable leaves an account active by itself.
ActiveWasActivated ==
  \A e \in Emails : account[e] = "active" =>
    \E t \in Tokens : owner[t] = e /\ activations[t] > 0

\* The inductive invariant.  What a commit does is right because of what the
\* request checked when it began and what nobody could change since: IInv adds
\* what holds of each request in flight, that no two requests issue the same
\* token or hold the same row, and in which order a request got its rows.
RequestSound(r) ==
  /\ r.phase = "idle" <=> r.op = "idle"
  /\ r.op # "idle" => r.email \in Emails
  /\ r.op \in {"approve", "resend", "activate"} => r.token \in Tokens
  /\ r.op \in {"approve", "reject", "request_info"} =>
       registration[r.email] # "none"
  /\ r.op \in {"activate", "resend", "disable"} => account[r.email] # "none"
  /\ r.op = "activate" => owner[r.token] = r.email
  /\ Issues(r) => owner[r.token] = Nobody
  /\ r.held \subseteq WriteSet(r)
  /\ r.phase = "idle" => r.held = {}
  /\ r.phase = "flushed" => Missing(r) = {}
  /\ \A row \in r.held : ~DuplicateKey(r, row)
  /\ \A row \in r.held, other \in Missing(r) : Rank(row) <= Rank(other)

RequestsSound == \A w \in Workers : RequestSound(request[w])

TokensReserved ==
  \A v, w \in Workers :
    v # w /\ Issues(request[v]) /\ Issues(request[w])
      => request[v].token # request[w].token

LocksExclusive ==
  \A v, w \in Workers : v # w => request[v].held \cap request[w].held = {}

TokensHaveAccounts ==
  \A t \in Tokens : owner[t] # Nobody => account[owner[t]] # "none"

AccountsHaveTokens ==
  \A e \in Emails : account[e] # "none" => \E t \in Tokens : owner[t] = e

\* A resend in flight will have spent a token of its applicant, or finds it spent.
ResendsDoom ==
  \A w \in Workers : request[w].op = "resend" =>
    \E t \in Tokens : /\ owner[t] = request[w].email
                      /\ t \in used \cup request[w].doomed

\* A link that was sent again does not leave all the older ones alive, however
\* many resends overlap: each invalidates what it found, and the first one of
\* all found the token of the approval.
OlderLinkDies ==
  \A s, t \in Tokens : s # t /\ owner[s] = owner[t] /\ owner[t] # Nobody
    => \E u \in used : owner[u] = owner[t]

IInv ==
  /\ TypeOK
  /\ RequestsSound
  /\ TokensReserved
  /\ LocksExclusive
  /\ TokensHaveAccounts
  /\ AccountsHaveTokens
  /\ ResendsDoom
  /\ OneAccountPerApplicant
  /\ PendingHasNoAccount
  /\ ActiveWasActivated
  /\ OlderLinkDies

\* The single use of activation tokens: activate_account commits at most once
\* for each.  It fails: used_at is read in one statement and set in another.
ActivatesOnce == \A t \in Tokens : activations[t] <= 1

\* A user never has two live tokens, as long as no two resends overlap.
OneLiveToken == \A e \in Emails : Cardinality(LiveTokens(e)) <= 1

\* An account that is off is turned on only by spending a token that was live
\* up to that step: what disable_user did is undone by no stale request.
ReactivationSpendsToken ==
  [][\A e \in Emails :
       account[e] = "inactive" /\ account'[e] = "active" =>
         \E t \in LiveTokens(e) : t \in used']_vars

\* v waits for a row that w has.
WaitsFor(v, w) ==
  /\ request[v].phase = "read"
  /\ \E row \in request[w].held : Turn(request[v], row)

\* Two requests never wait for each other.
NoMutualWait ==
  \A v, w \in Workers : v # w => ~(WaitsFor(v, w) /\ WaitsFor(w, v))

\* Every request that starts also ends: approve, activate, resend and disable
\* take their rows one by one and keep them, and are never stuck in a circle of
\* requests that wait for one another.
RequestsEnd ==
  \A w \in Workers :
    request[w].phase # "idle" ~> request[w].phase = "idle"

\* An application is processed in the end, also when the administrators asked
\* the applicant for more information first.
ApplicationProcessed ==
  \A e \in Emails :
    registration[e] = "pending" ~> registration[e] \in {"approved", "rejected"}

\* What AccountLifecycle sees of an applicant.
Stage ==
  [e \in Emails |->
     IF account[e] # "none" THEN account[e]
     ELSE IF registration[e] # "none" THEN "applied" ELSE "absent"]

Lifecycle == INSTANCE AccountLifecycle WITH stage <- Stage, key <- owner

\* Onboarding implements AccountLifecycle: with requests interleaved, rolled
\* back and mailed in part, an account still only moves absent, applied,
\* inactive, active, and only a token issued to it turns it on.
ImplementsLifecycle == Lifecycle!Spec

-----------------------------------------------------------------------------
(* Requests that overlap *)

\* Two requests about one applicant, of the operations given.
Overlap(a, b) ==
  \E v, w \in Workers :
    /\ v # w
    /\ request[v].op = a /\ request[w].op = b
    /\ request[v].email = request[w].email

\* No token is being spent twice at a time.
OneActivation ==
  \A v, w \in Workers :
    v # w /\ request[v].op = "activate" /\ request[w].op = "activate"
      => request[v].token # request[w].token

\* No two links are being sent to one applicant at a time.
OneResend == ~Overlap("resend", "resend")

\* No link is being invalidated while it is followed.
NoStaleLink == ~Overlap("activate", "resend")

\* The requests in flight are about different applicants.
Apart ==
  \A v, w \in Workers :
    v # w /\ request[v].op # "idle" /\ request[w].op # "idle"
      => request[v].email # request[w].email

ApartSpec == Init /\ [][Next /\ Apart']_vars

\* What one who sees handlers as a whole sees of e-mails and of the clock: a
\* token was delivered once its row is there, and has not expired before the
\* request is through that found it good.
Delivered == {t \in inbox : owner[t] # Nobody}
Lapsed == {t \in expired : \A w \in Workers :
             request[w].op = "activate" => request[w].token # t}

Atomic == INSTANCE OnboardingAtomic WITH expired <- Lapsed, delivered <- Delivered

\* As long as no two requests about one applicant overlap, every handler is as
\* good as done at once: read, flush, e-mail, commit and rollback add up to
\* what it does to the tables as they are when it commits.
ImplementsAtomic == Atomic!Spec
=============================================================================
