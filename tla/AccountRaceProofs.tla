------------------------- MODULE AccountRaceProofs -------------------------
(***************************************************************************)
(* What onboarding guarantees only as long as certain requests do not      *)
(* overlap, and which: one theorem excludes one overlap, one two, and each  *)
(* fails without.  If no two requests about one applicant overlap, the     *)
(* handlers are atomic.                                                    *)
(***************************************************************************)
EXTENDS AccountOnboardingProofs, FiniteSetTheorems

\* What the handler of a request checked and read is still so.
UpToDate(r) ==
  /\ r.op = "register" => registration[r.email] = "none" /\ account[r.email] = "none"
  /\ r.op \in {"approve", "reject"} => registration[r.email] = "pending"
  /\ r.op = "request_info" => r.seen = registration[r.email]
  /\ r.op \in {"activate", "disable"} => r.seen = account[r.email]
  /\ r.op = "activate" => r.token \in inbox \ used
  /\ r.op = "resend" => r.doomed = LiveTokens(r.email)

LEMMA IdleUpToDate == UpToDate(Idle)
BY DEF UpToDate, Idle

\* A request goes on with what it is doing: the same work, but for tokens that
\* were used since it matched them.
GoesOn(r, q) ==
  /\ q.op = r.op /\ q.email = r.email /\ q.token = r.token /\ q.seen = r.seen
  /\ q.doomed \subseteq r.doomed /\ r.doomed \ used \subseteq q.doomed

\* A request that locks, flushes or rolls back gives up or goes on; the others
\* stay as they are.
LEMMA WorkGoesOn ==
  ASSUME IInv, NEW w \in Workers, Lock(w) \/ Flush(w) \/ Rollback(w)
  PROVE  /\ UNCHANGED store
         /\ inbox \subseteq inbox'
         /\ \A v \in Workers \ {w} : request'[v] = request[v]
         /\ request'[w] = Idle \/ GoesOn(request[w], request'[w])
<1>1. /\ request[w] \in Requests
      /\ \A v \in Workers \ {w} : request'[v] = request[v]
  BY LockWrites, FlushWrites DEF IInv, TypeOK, Rollback
<1>2. request'[w] = Idle \/ GoesOn(request[w], request'[w])
  <2>1. CASE Lock(w)
    <3>1. CASE request'[w] = Idle
      BY <3>1
    <3>2. ASSUME NEW row, Mismatch(request[w], row),
                 request'[w] = [request[w] EXCEPT !.doomed = @ \ {row[2]}]
          PROVE  GoesOn(request[w], request'[w])
      BY <1>1, <3>2 DEF Mismatch, Requests, GoesOn
    <3>3. ASSUME NEW row, request'[w] = [request[w] EXCEPT !.held = @ \cup {row}]
          PROVE  GoesOn(request[w], request'[w])
      BY <1>1, <3>3 DEF Requests, GoesOn
    <3> QED
      BY <2>1, <3>1, <3>2, <3>3, LockWrites DEF IInv
  <2>2. CASE Flush(w)
    <3>1. request'[w] = [request[w] EXCEPT !.phase = "flushed"]
      BY <2>2, FlushWrites DEF IInv
    <3> QED
      BY <1>1, <3>1 DEF Requests, GoesOn
  <2>3. CASE Rollback(w)
    BY <2>3 DEF Rollback, IInv, TypeOK
  <2> QED
    BY <2>1, <2>2, <2>3
<1> QED
  BY <1>1, <1>2 DEF Lock, Flush, Rollback

\* Only a unique key makes a request that waits for a row give up.
LEMMA LockGivesUp ==
  ASSUME IInv, NEW w \in Workers, Lock(w), request'[w] = Idle
  PROVE  request[w].op \in {"register", "approve"}
<1> DEFINE r == request[w]
<1>1. r \in Requests /\ r.phase = "read"
  BY DEF Lock, IInv, TypeOK
<1>2. PICK row \in WriteSet(r) :
        request'[w] = IF DuplicateKey(r, row) THEN Idle
                      ELSE IF Mismatch(r, row) THEN [r EXCEPT !.doomed = @ \ {row[2]}]
                      ELSE [r EXCEPT !.held = @ \cup {row}]
  BY DEF Lock, IInv, TypeOK
<1>3. DuplicateKey(r, row)
  <2>1. [r EXCEPT !.doomed = @ \ {row[2]}].phase = "read"
    BY <1>1 DEF Requests
  <2>2. [r EXCEPT !.held = @ \cup {row}].phase = "read"
    BY <1>1 DEF Requests
  <2>3. Idle.phase = "idle"
    BY DEF Idle
  <2> QED
    BY <1>2, <2>1, <2>2, <2>3
<1> QED
  BY <1>3 DEF DuplicateKey

\* Between two commits the tables stand still; a request begins on what it has
\* just read, goes on, or gives up.
LEMMA QuietStep ==
  ASSUME IInv, [Next]_vars, ~\E w \in Workers : Commit(w)
  PROVE  /\ UNCHANGED <<registration, account, owner, used, approvals, activations>>
         /\ inbox \subseteq inbox'
         /\ \A w \in Workers : \/ request'[w] = Idle \/ GoesOn(request[w], request'[w])
                               \/ UpToDate(request'[w])
<1>1. ASSUME NEW w \in Workers, NEW e \in Emails,
             \/ BeginRegister(w, e) \/ BeginApprove(w, e) \/ BeginReject(w, e)
             \/ BeginRequestInfo(w, e) \/ BeginResend(w, e) \/ BeginDisable(w, e)
      PROVE  /\ UNCHANGED <<store, inbox>>
             /\ \A v \in Workers : GoesOn(request[v], request'[v]) \/ UpToDate(request'[v])
  <2>1. UNCHANGED <<store, inbox>>
    BY <1>1 DEF Begin, BeginRegister, BeginApprove, BeginReject, BeginRequestInfo,
         BeginResend, BeginDisable
  <2>2. request'[w].op # "activate" /\ UpToDate(request'[w])
    BY <1>1 DEF Begin, BeginRegister, BeginApprove, BeginReject, BeginRequestInfo,
         BeginResend, BeginDisable, UpToDate, IInv, TypeOK
  <2>3. \A v \in Workers \ {w} : request'[v] = request[v]
    BY <1>1 DEF Begin, BeginRegister, BeginApprove, BeginReject, BeginRequestInfo,
         BeginResend, BeginDisable, IInv, TypeOK
  <2> QED
    BY <2>1, <2>2, <2>3 DEF GoesOn
<1>2. ASSUME NEW w \in Workers, NEW t \in Tokens, BeginActivate(w, t)
      PROVE  /\ UNCHANGED <<store, inbox>>
             /\ \A v \in Workers : GoesOn(request[v], request'[v]) \/ UpToDate(request'[v])
  BY <1>2 DEF BeginActivate, Begin, UpToDate, GoesOn, IInv, TypeOK
<1>3. ASSUME NEW w \in Workers, Lock(w) \/ Flush(w) \/ Rollback(w)
      PROVE  /\ UNCHANGED store
             /\ inbox \subseteq inbox'
             /\ \A v \in Workers : request'[v] = Idle \/ GoesOn(request[v], request'[v])
  BY <1>3, WorkGoesOn DEF GoesOn
<1>4. CASE UNCHANGED vars \/ \E t \in Tokens : Expire(t)
  BY <1>4 DEF Expire, vars, GoesOn
<1> QED
  BY <1>1, <1>2, <1>3, <1>4 DEF Next, store

-----------------------------------------------------------------------------
(* A user has two live tokens only by two resends at a time                 *)

LiveAlone ==
  \A s, t \in Tokens \ used : owner[s] = owner[t] /\ owner[t] # Nobody => s = t

LiveInv ==
  /\ LiveAlone
  /\ \A w \in Workers :
       request[w].op = "resend" => LiveTokens(request[w].email) \subseteq request[w].doomed

LEMMA LiveStep == IInv /\ LiveInv /\ OneResend /\ [Next]_vars => LiveInv'
<1> SUFFICES ASSUME IInv, LiveInv, OneResend, [Next]_vars PROVE LiveInv'
  OBVIOUS
<1>1. CASE ~\E w \in Workers : Commit(w)
  <2>1. LiveAlone'
    BY <1>1, QuietStep DEF LiveInv, LiveAlone
  <2>2. ASSUME NEW w \in Workers, request'[w].op = "resend"
        PROVE  LiveTokens(request[w].email)' \subseteq request'[w].doomed
    <3>1. CASE UpToDate(request'[w])
      BY <2>2, <3>1, <1>1, QuietStep DEF UpToDate, LiveTokens
    <3>2. CASE GoesOn(request[w], request'[w])
      BY <2>2, <3>2, <1>1, QuietStep DEF GoesOn, LiveInv, LiveTokens, IInv, TypeOK
    <3>3. CASE request'[w] = request[w]
      BY <2>2, <3>3, <1>1, QuietStep DEF LiveInv, LiveTokens
    <3> QED
      BY <2>2, <3>1, <3>2, <3>3, <1>1, QuietStep DEF Idle
  <2> QED
    BY <2>1, <2>2 DEF LiveInv
<1>2. ASSUME NEW w \in Workers, Commit(w) PROVE LiveInv'
  <2> DEFINE r == request[w]
  <2>1. RequestSound(r) /\ r.email \in Emails
    BY <1>2, CommitEnds, CommitGrows
  <2>2. ASSUME NEW t \in Tokens \ used', owner[t] = r.email, CommitApprove(w) \/ CommitResend(w)
        PROVE  FALSE
    <3>1. owner[t] # Nobody /\ t \in Tokens \ used
      BY <1>2, <2>1, <2>2, CommitIssues, NobodyIsFresh
    <3>2. CASE CommitApprove(w)
      BY <1>2, <2>1, <2>2, <3>1, <3>2, CommitNew DEF CommitApprove, Finish, IInv,
           TokensHaveAccounts
    <3>3. CASE CommitResend(w)
      BY <2>2, <3>1, <3>3 DEF CommitResend, Finish, LiveInv, LiveTokens
    <3> QED
      BY <2>2, <3>2, <3>3
  <2>3. LiveAlone'
    <3> SUFFICES ASSUME NEW s \in Tokens \ used', NEW t \in Tokens \ used',
                        owner'[s] = owner'[t], owner'[t] # Nobody
                 PROVE  s = t
      BY DEF LiveAlone
    <3>1. CASE owner'[s] = owner[s] /\ owner'[t] = owner[t]
      BY <3>1, <1>2, CommitIssues DEF LiveInv, LiveAlone
    <3>2. CASE owner'[s] # owner[s] \/ owner'[t] # owner[t]
      BY <3>2, <1>2, <2>2, CommitIssues
    <3> QED
      BY <3>1, <3>2
  <2>4. ASSUME NEW v \in Workers, request'[v].op = "resend"
        PROVE  LiveTokens(request[v].email)' \subseteq request'[v].doomed
    <3>1. v # w /\ request'[v] = request[v]
      BY <2>4, <1>2, CommitEnds DEF Idle
    <3>2. CommitApprove(w) \/ CommitResend(w) => r.email # request[v].email
      <4>1. account[request[v].email] # "none"
        BY <2>4, <3>1 DEF IInv, RequestsSound, RequestSound
      <4> QED
        BY <1>2, <4>1, <2>1, <2>4, <3>1, CommitNew DEF OneResend, Overlap, CommitApprove,
             CommitResend, Finish
    <3>3. LiveTokens(request[v].email) \subseteq request[v].doomed
      BY <2>4, <3>1 DEF LiveInv
    <3> QED
      BY <3>1, <3>2, <3>3, <1>2, CommitIssues DEF LiveTokens
  <2> QED
    BY <2>3, <2>4 DEF LiveInv
<1> QED
  BY <1>1, <1>2

LEMMA AloneIsOne == LiveAlone => OneLiveToken
<1> SUFFICES ASSUME LiveAlone, NEW e \in Emails PROVE Cardinality(LiveTokens(e)) <= 1
  BY DEF OneLiveToken
<1>1. CASE LiveTokens(e) = {}
  BY <1>1, FS_EmptySet
<1>2. ASSUME NEW t \in LiveTokens(e) PROVE Cardinality(LiveTokens(e)) <= 1
  <2>1. LiveTokens(e) = {t}
    BY NobodyIsFresh DEF LiveTokens, LiveAlone
  <2>2. Cardinality({t}) = 1
    BY FS_Singleton
  <2> QED
    BY <2>1, <2>2
<1> QED
  BY <1>1, <1>2

\* A user has one link that works, unless two resends to them overlap: each
\* invalidates the tokens it found, and the other's is not among them.
THEOREM LiveTokenUnique == Spec /\ []OneResend => []OneLiveToken
<1>1. Init => LiveInv
  BY DEF Init, LiveInv, LiveAlone, Idle
<1>2. LiveInv => OneLiveToken
  BY AloneIsOne DEF LiveInv
<1> QED
  BY <1>1, <1>2, LiveStep, InvariantHolds, PTL DEF Spec

-----------------------------------------------------------------------------
(* An account is turned back on without a live token only by two activations *)
(* with one token, or by an activation and a resend, at a time               *)

LinkInv ==
  \A w \in Workers :
    /\ request[w].op = "activate" => request[w].token \notin used
    /\ request[w].op = "resend" =>
         \A t \in request[w].doomed : owner[t] = request[w].email

LEMMA LinkStep ==
  IInv /\ LinkInv /\ OneActivation /\ NoStaleLink /\ [Next]_vars => LinkInv'
<1> SUFFICES ASSUME IInv, LinkInv, OneActivation, NoStaleLink, [Next]_vars PROVE LinkInv'
  OBVIOUS
<1>1. CASE ~\E w \in Workers : Commit(w)
  <2> SUFFICES ASSUME NEW w \in Workers
      PROVE  /\ request'[w].op = "activate" => request'[w].token \notin used
             /\ request'[w].op = "resend" =>
                  \A t \in request'[w].doomed : owner[t] = request'[w].email
    BY <1>1, QuietStep DEF LinkInv
  <2>1. CASE UpToDate(request'[w])
    BY <2>1 DEF UpToDate, LiveTokens
  <2>2. CASE GoesOn(request[w], request'[w])
    BY <2>2 DEF GoesOn, LinkInv, IInv, TypeOK
  <2>3. CASE request'[w] = request[w]
    BY <2>3 DEF LinkInv
  <2> QED
    BY <2>1, <2>2, <2>3, <1>1, QuietStep DEF Idle
<1>2. ASSUME NEW w \in Workers, Commit(w), NEW v \in Workers, request'[v].op # "idle"
      PROVE  /\ request'[v].op = "activate" => request'[v].token \notin used'
             /\ request'[v].op = "resend" =>
                  \A t \in request'[v].doomed : owner'[t] = request'[v].email
  <2>1. v # w /\ request'[v] = request[v] /\ RequestSound(request[v])
        /\ request[v] \in Requests
    BY <1>2, CommitEnds DEF Idle, IInv, RequestsSound, TypeOK
  <2>2. ASSUME request[v].op = "activate" PROVE request[v].token \notin used'
    <3>1. request[v].token \notin used /\ owner[request[v].token] = request[v].email
      BY <2>1, <2>2 DEF LinkInv, RequestSound
    <3>2. CASE CommitActivate(w)
      BY <2>1, <2>2, <3>1, <3>2 DEF CommitActivate, Finish, OneActivation
    <3>3. CASE CommitResend(w)
      <4>1. request[v].email # request[w].email
        BY <2>1, <2>2, <3>3 DEF CommitResend, Finish, NoStaleLink, Overlap
      <4> QED
        BY <4>1, <3>1, <3>3 DEF CommitResend, Finish, LinkInv
    <3>4. CASE ~CommitActivate(w) /\ ~CommitResend(w)
      BY <1>2, <3>1, <3>4 DEF Commit, CommitRegister, CommitApprove, CommitReject,
           CommitRequestInfo, CommitDisable
    <3> QED
      BY <3>2, <3>3, <3>4
  <2>3. ASSUME request[v].op = "resend", NEW t \in request[v].doomed
        PROVE  owner'[t] = request[v].email
    <3>1. t \in Tokens /\ owner[t] = request[v].email /\ owner[t] # Nobody
      BY <2>1, <2>3, NobodyIsFresh DEF LinkInv, Requests, RequestSound
    <3> QED
      BY <3>1, <1>2, CommitIssues
  <2> QED
    BY <2>1, <2>2, <2>3
<1> QED
  BY <1>1, <1>2 DEF LinkInv

LEMMA Reactivates ==
  IInv /\ LinkInv /\ [Next]_vars =>
    [\A e \in Emails :
       account[e] = "inactive" /\ account'[e] = "active" =>
         \E t \in LiveTokens(e) : t \in used']_vars
<1> SUFFICES ASSUME IInv, LinkInv, [Next]_vars, NEW e \in Emails,
                    account[e] = "inactive", account'[e] = "active"
             PROVE  \E t \in LiveTokens(e) : t \in used'
  OBVIOUS
<1>1. PICK w \in Workers : Commit(w)
  BY QuietStep
<1>2. CommitActivate(w) /\ request[w].email = e
  BY <1>1, CommitGrows DEF Commit, CommitRegister, CommitApprove, CommitReject,
       CommitRequestInfo, CommitActivate, CommitResend, CommitDisable, IInv, TypeOK
<1>3. request[w].token \in LiveTokens(e)
  BY <1>1, <1>2, CommitEnds DEF CommitActivate, Finish, LinkInv, RequestSound, LiveTokens
<1>4. request[w].token \in used'
  BY <1>2 DEF CommitActivate
<1> QED
  BY <1>3, <1>4

\* An account that was disabled comes back only by a token that was live, unless
\* two activations with one token overlap, or an activation and a resend: an
\* activation writes what its checks allowed when it began.
THEOREM ReactivationNeedsToken ==
  Spec /\ [](OneActivation /\ NoStaleLink) => ReactivationSpendsToken
<1>1. Init => LinkInv
  BY DEF Init, LinkInv, Idle
<1> QED
  BY <1>1, LinkStep, Reactivates, InvariantHolds, PTL DEF Spec, ReactivationSpendsToken

-----------------------------------------------------------------------------
(* Handlers are atomic if no two requests about one applicant overlap        *)

AllUpToDate == \A w \in Workers : UpToDate(request[w])

\* No row of an applicant changes but by a request about them.
LEMMA CommitLocal ==
  ASSUME IInv, AllUpToDate, NEW w \in Workers, Commit(w),
         NEW e \in Emails, e # request[w].email
  PROVE  /\ registration'[e] = registration[e] /\ account'[e] = account[e]
         /\ LiveTokens(e)' = LiveTokens(e)
<1> DEFINE r == request[w]
<1>1. RequestSound(r) /\ r.email \in Emails /\ UpToDate(r)
  BY CommitEnds, CommitGrows DEF AllUpToDate
<1>2. registration'[e] = registration[e] /\ account'[e] = account[e]
  BY <1>1 DEF Commit, CommitRegister, CommitApprove, CommitReject, CommitRequestInfo,
       CommitActivate, CommitResend, CommitDisable, SetStatus, IInv, TypeOK
<1>3. \A t \in Tokens : owner'[t] = e <=> owner[t] = e
  BY CommitIssues, NobodyIsFresh
<1>4. \A t \in Tokens : owner[t] = e => (t \in used' <=> t \in used)
  <2>1. CASE CommitActivate(w)
    BY <1>1, <2>1 DEF CommitActivate, Finish, RequestSound
  <2>2. CASE CommitResend(w)
    BY <1>1, <2>2 DEF CommitResend, Finish, UpToDate, LiveTokens
  <2>3. CASE ~CommitActivate(w) /\ ~CommitResend(w)
    BY <2>3 DEF Commit, CommitRegister, CommitApprove, CommitReject,
         CommitRequestInfo, CommitDisable
  <2> QED
    BY <2>1, <2>2, <2>3
<1> QED
  BY <1>2, <1>3, <1>4 DEF LiveTokens

LEMMA UpToDateStep == IInv /\ AllUpToDate /\ Apart /\ [Next]_vars => AllUpToDate'
<1> SUFFICES ASSUME IInv, AllUpToDate, Apart, [Next]_vars, NEW v \in Workers
             PROVE  UpToDate(request[v])'
  BY DEF AllUpToDate
<1>1. CASE ~\E w \in Workers : Commit(w)
  <2>1. UpToDate(request'[v])
    <3>1. CASE GoesOn(request[v], request'[v])
      BY <3>1 DEF GoesOn, AllUpToDate, UpToDate, LiveTokens, IInv, TypeOK
    <3> QED
      BY <3>1, <1>1, QuietStep, IdleUpToDate DEF AllUpToDate
  <2> QED
    BY <2>1, <1>1, QuietStep DEF UpToDate, LiveTokens
<1>2. ASSUME NEW w \in Workers, Commit(w) PROVE UpToDate(request[v])'
  <2>1. CASE request'[v].op = "idle"
    BY <2>1 DEF UpToDate
  <2>2. CASE request'[v].op # "idle"
    <3>1. v # w /\ request'[v] = request[v] /\ RequestSound(request[v])
      BY <1>2, <2>2, CommitEnds DEF Idle, IInv, RequestsSound
    <3>2. request[v].email \in Emails /\ request[v].email # request[w].email
      <4>1. request[w].op # "idle"
        BY <1>2, CommitGrows, CommitEnds DEF RequestSound
      <4> QED
        BY <4>1, <2>2, <3>1 DEF Apart, RequestSound
    <3>3. /\ registration'[request[v].email] = registration[request[v].email]
          /\ account'[request[v].email] = account[request[v].email]
          /\ LiveTokens(request[v].email)' = LiveTokens(request[v].email)
      <4>1. ASSUME NEW e \in Emails, e # request[w].email
            PROVE  /\ registration'[e] = registration[e] /\ account'[e] = account[e]
                   /\ LiveTokens(e)' = LiveTokens(e)
        BY <1>2, <4>1, CommitLocal
      <4> QED
        BY <3>1, <3>2, <4>1 DEF LiveTokens
    <3>4. request[v].op = "activate" => request[v].token \in inbox' \ used'
      <4>1. ASSUME request[v].op = "activate"
            PROVE  request[v].token \in LiveTokens(request[v].email)
        BY <3>1, <4>1 DEF RequestSound, AllUpToDate, UpToDate, LiveTokens
      <4>2. inbox' = inbox
        BY <1>2 DEF Commit, CommitRegister, CommitApprove, CommitReject, CommitRequestInfo,
             CommitActivate, CommitResend, CommitDisable, Finish
      <4> QED
        BY <3>3, <4>1, <4>2 DEF AllUpToDate, UpToDate, LiveTokens
    <3>5. UpToDate(request[v])
      BY DEF AllUpToDate
    <3> HIDE DEF LiveTokens
    <3> QED
      BY <3>1, <3>3, <3>4, <3>5 DEF UpToDate
  <2> QED
    BY <2>1, <2>2
<1> QED
  BY <1>1, <1>2

\* What the abstract e-mails and clock make of a commit.
LEMMA CommitShows ==
  ASSUME IInv, NEW w \in Workers, Commit(w)
  PROVE  LET r == request[w] IN
         /\ Delivered' = IF Issues(r) /\ r.token \in inbox
                            THEN Delivered \cup {r.token} ELSE Delivered
         /\ r.op # "activate" => Lapsed' = Lapsed
         /\ r.op = "activate" => Lapsed' \in {Lapsed, Lapsed \cup {r.token}}
<1> DEFINE r == request[w]
<1>1. /\ RequestSound(r) /\ r.email \in Emails
      /\ request'[w] = Idle /\ \A v \in Workers \ {w} : request'[v] = request[v]
  BY CommitEnds, CommitGrows
<1>2. UNCHANGED <<inbox, expired>>
  BY DEF Commit, CommitRegister, CommitApprove, CommitReject, CommitRequestInfo,
       CommitActivate, CommitResend, CommitDisable, Finish
<1>3. Issues(r) => owner[r.token] = Nobody /\ owner'[r.token] = r.email /\ r.token \in Tokens
  BY <1>1 DEF Commit, CommitRegister, CommitApprove, CommitReject, CommitRequestInfo,
       CommitActivate, CommitResend, CommitDisable, Finish, IInv, TypeOK, Issues, RequestSound
<1>4. \A t \in Tokens : owner'[t] # owner[t] => Issues(r) /\ t = r.token
  BY CommitGrows
<1>5. inbox \subseteq Tokens /\ r.email # Nobody
  BY <1>1, NobodyIsFresh DEF IInv, TypeOK
<1>6. Delivered' = IF Issues(r) /\ r.token \in inbox
                     THEN Delivered \cup {r.token} ELSE Delivered
  BY <1>2, <1>3, <1>4, <1>5 DEF Delivered
<1>7. /\ Lapsed \subseteq Lapsed'
      /\ r.op # "activate" => Lapsed' = Lapsed
      /\ r.op = "activate" => Lapsed' \subseteq Lapsed \cup {r.token}
  BY <1>1, <1>2 DEF Lapsed, Idle
<1> QED
  BY <1>6, <1>7

\* A commit does to the tables all that the handler does, as they are then.
LEMMA CommitAtomic ==
  ASSUME IInv, AllUpToDate, NEW w \in Workers, Commit(w)
  PROVE  Atomic!Next
<1> DEFINE r == request[w]
           e == r.email
<1>1. /\ RequestSound(r) /\ r.phase = "flushed" /\ e \in Emails /\ UpToDate(r)
      /\ registration[e] \in Statuses /\ account[e] \in AccountStates
  BY CommitEnds, CommitGrows DEF AllUpToDate, IInv, TypeOK
<1>2. /\ registration \in [Emails -> Statuses]
      /\ account \in [Emails -> AccountStates]
  BY DEF IInv, TypeOK
<1> HIDE DEF r
<1>3. CASE CommitRegister(w)
  <2>1. r.op = "register" /\ UNCHANGED <<Delivered, Lapsed>>
    BY <1>3, CommitShows DEF CommitRegister, Finish, Issues, r
  <2>2. Atomic!Register(e)
    BY <1>1, <1>3, <2>1 DEF CommitRegister, SetStatus, UpToDate, Atomic!Register,
         Atomic!Decide, r
  <2> QED
    BY <1>1, <2>2 DEF Atomic!Next
<1>4. CASE CommitApprove(w) \/ CommitResend(w)
  <2>1. /\ Issues(r) /\ r.op \in {"approve", "resend"} /\ UNCHANGED Lapsed
        /\ Delivered' \in {Delivered, Delivered \cup {r.token}}
    BY <1>4, CommitShows DEF CommitApprove, CommitResend, Finish, Issues, r
  <2>2. Atomic!Issue(e, r.token) /\ r.token \in Tokens
    BY <1>1, <1>4, <2>1 DEF CommitApprove, CommitResend, RequestSound, Atomic!Issue, r
  <2>3. CASE CommitApprove(w)
    <3>1. Atomic!Approve(e, r.token)
      BY <1>1, <2>1, <2>2, <2>3, CommitNew DEF CommitApprove, Finish, SetStatus, UpToDate,
           Atomic!Approve, Atomic!Decide, r
    <3> QED
      BY <1>1, <2>2, <3>1 DEF Atomic!Next
  <2>4. CASE CommitResend(w)
    <3>1. used' = used \cup {s \in Tokens : owner[s] = e}
      BY <1>1, <2>4 DEF CommitResend, Finish, UpToDate, LiveTokens, r
    <3>2. Atomic!Resend(e, r.token)
      BY <1>1, <2>1, <2>2, <2>4, <3>1 DEF CommitResend, Finish, RequestSound,
           Atomic!Resend, r
    <3> QED
      BY <1>1, <2>2, <3>2 DEF Atomic!Next
  <2> QED
    BY <1>4, <2>3, <2>4
<1>5. CASE CommitReject(w)
  <2>1. r.op = "reject" /\ UNCHANGED <<Delivered, Lapsed>>
    BY <1>5, CommitShows DEF CommitReject, Finish, Issues, r
  <2>2. Atomic!Reject(e)
    BY <1>1, <1>5, <2>1 DEF CommitReject, SetStatus, UpToDate, Atomic!Reject,
         Atomic!Decide, IInv, PendingHasNoAccount, r
  <2> QED
    BY <1>1, <2>2 DEF Atomic!Next
<1>6. CASE CommitRequestInfo(w)
  <2>1. r.op = "request_info" /\ UNCHANGED <<Delivered, Lapsed>>
    BY <1>6, CommitShows DEF CommitRequestInfo, Finish, Issues, r
  <2>2. Atomic!Decide(e, "more_info_requested")
    BY <1>1, <1>2, <1>6, <2>1 DEF CommitRequestInfo, SetStatus, UpToDate, Atomic!Decide, r
  <2>3. Atomic!RequestInfo(e)
    BY <1>1, <1>6, <2>1, <2>2 DEF CommitRequestInfo, RequestSound, Atomic!RequestInfo, r
  <2> QED
    BY <1>1, <2>3 DEF Atomic!Next
<1>7. CASE CommitActivate(w)
  <2>1. /\ r.op = "activate" /\ UNCHANGED Delivered
        /\ Lapsed' \in {Lapsed, Lapsed \cup {r.token}}
    BY <1>7, CommitShows DEF CommitActivate, Finish, Issues, r
  <2>2. /\ r.token \in Tokens /\ owner[r.token] = e
        /\ r.token \in Delivered \ (used \cup Lapsed) /\ account[e] # "none"
    BY <1>1, <2>1, NobodyIsFresh DEF UpToDate, RequestSound, Delivered, Lapsed, r
  <2>3. account' = [account EXCEPT ![e] = "active"]
    BY <1>1, <1>2, <1>7, <2>1 DEF CommitActivate, UpToDate, r
  <2>4. Atomic!Activate(e, r.token)
    BY <1>7, <2>1, <2>2, <2>3 DEF CommitActivate, Atomic!Activate, r
  <2> QED
    BY <1>1, <2>2, <2>4 DEF Atomic!Next
<1>8. CASE CommitDisable(w)
  <2>1. r.op = "disable" /\ UNCHANGED <<Delivered, Lapsed>>
    BY <1>8, CommitShows DEF CommitDisable, Finish, Issues, r
  <2>2. account' = [account EXCEPT ![e] = "inactive"] /\ account[e] # "none"
    BY <1>1, <1>2, <1>8, <2>1 DEF CommitDisable, UpToDate, RequestSound, AccountStates, r
  <2>3. Atomic!Disable(e)
    BY <1>8, <2>1, <2>2 DEF CommitDisable, Atomic!Disable, r
  <2> QED
    BY <1>1, <2>3 DEF Atomic!Next
<1> QED
  BY <1>3, <1>4, <1>5, <1>6, <1>7, <1>8 DEF Commit

\* Between two commits nothing shows, but for a token that runs out: at once,
\* or when the activation that still found it good comes to nothing.
LEMMA QuietAtomic ==
  ASSUME IInv, [Next]_vars, ~\E w \in Workers : Commit(w)
  PROVE  [Atomic!Next]_Atomic!vars
<1>1. UNCHANGED <<registration, account, owner, used>>
  BY QuietStep
<1>2. inbox \subseteq Tokens
  BY DEF IInv, TypeOK
<1>3. SUFFICES /\ Delivered' = Delivered
               /\ Lapsed' = Lapsed \/ \E t \in Tokens :
                    owner[t] # Nobody /\ Lapsed' = Lapsed \cup {t}
  BY <1>1 DEF Atomic!vars, Atomic!Next, Atomic!Expire
<1> DEFINE Goal == /\ Delivered' = Delivered
                   /\ Lapsed' = Lapsed \/ \E t \in Tokens :
                        owner[t] # Nobody /\ Lapsed' = Lapsed \cup {t}
<1>5. ASSUME NEW w \in Workers, NEW e \in Emails,
             \/ BeginRegister(w, e) \/ BeginApprove(w, e) \/ BeginReject(w, e)
             \/ BeginRequestInfo(w, e) \/ BeginResend(w, e) \/ BeginDisable(w, e)
      PROVE  Goal
  <2>1. /\ request[w].phase = "idle" /\ request'[w].op # "activate"
        /\ \A v \in Workers \ {w} : request'[v] = request[v]
        /\ UNCHANGED <<inbox, expired>>
    BY <1>5 DEF Begin, BeginRegister, BeginApprove, BeginReject, BeginRequestInfo,
         BeginResend, BeginDisable, IInv, TypeOK, store
  <2>2. request[w].op # "activate"
    BY <2>1 DEF IInv, RequestsSound, RequestSound
  <2> QED
    BY <1>1, <2>1, <2>2 DEF Delivered, Lapsed
<1>6. ASSUME NEW w \in Workers, NEW t \in Tokens, BeginActivate(w, t) PROVE Goal
  <2>1. /\ request[w].phase = "idle" /\ request'[w].token = t /\ t \notin expired
        /\ \A v \in Workers \ {w} : request'[v] = request[v]
        /\ UNCHANGED <<inbox, expired>>
    BY <1>6 DEF BeginActivate, Begin, IInv, TypeOK, store
  <2>2. request[w].op # "activate"
    BY <2>1 DEF IInv, RequestsSound, RequestSound
  <2> QED
    BY <1>1, <2>1, <2>2 DEF Delivered, Lapsed
<1>7. ASSUME NEW w \in Workers, Lock(w) \/ Flush(w) PROVE Goal
  <2>1. \A t \in inbox' : t \in inbox \/ owner[t] = Nobody
    BY <1>7 DEF Lock, Flush, IInv, RequestsSound, RequestSound
  <2>2. /\ \A v \in Workers \ {w} : request'[v] = request[v]
        /\ request'[w] = Idle => request[w].op \in {"register", "approve"}
        /\ UNCHANGED expired
    <3>1. request'[w] = Idle => Lock(w) /\ request[w].op \in {"register", "approve"}
      <4>1. CASE Flush(w)
        <5>1. request'[w].phase = "flushed"
          BY <4>1, FlushWrites DEF IInv, TypeOK, Requests
        <5> QED
          BY <5>1 DEF Idle
      <4>2. CASE Lock(w)
        BY <4>2, LockGivesUp
      <4> QED
        BY <1>7, <4>1, <4>2
    <3> QED
      BY <1>7, <3>1, LockWrites, FlushWrites DEF IInv, Lock, Flush, store
  <2>3. inbox \subseteq inbox' /\ (request'[w] = Idle \/ GoesOn(request[w], request'[w]))
    BY <1>7, WorkGoesOn
  <2> QED
    BY <1>1, <2>1, <2>2, <2>3 DEF Delivered, Lapsed, GoesOn, Idle
<1>8. ASSUME NEW w \in Workers, Rollback(w) PROVE Goal
  <2>1. /\ request'[w] = Idle /\ \A v \in Workers \ {w} : request'[v] = request[v]
        /\ UNCHANGED <<inbox, expired>>
    BY <1>8 DEF Rollback, IInv, TypeOK, store
  <2>2. CASE request[w].op = "activate"
    <3>1. request[w].token \in Tokens /\ owner[request[w].token] # Nobody
      BY <2>2, NobodyIsFresh DEF IInv, RequestsSound, RequestSound
    <3>2. Lapsed \subseteq Lapsed' /\ Lapsed' \subseteq Lapsed \cup {request[w].token}
      BY <2>1 DEF Lapsed, Idle
    <3> QED
      BY <1>1, <2>1, <3>1, <3>2 DEF Delivered
  <2>3. CASE request[w].op # "activate"
    BY <1>1, <2>1, <2>3 DEF Delivered, Lapsed, Idle
  <2> QED
    BY <2>2, <2>3
<1>9. ASSUME NEW t \in Tokens, Expire(t) PROVE Goal
  <2>1. Lapsed \subseteq Lapsed' /\ Lapsed' \subseteq Lapsed \cup {t}
    BY <1>9 DEF Expire, Lapsed
  <2> QED
    BY <1>1, <1>9, <2>1 DEF Expire, Delivered
<1>10. CASE UNCHANGED vars
  BY <1>10 DEF vars, Delivered, Lapsed
<1> QED
  BY <1>5, <1>6, <1>7, <1>8, <1>9, <1>10 DEF Next

LEMMA ApartIsSpec == ApartSpec => Spec /\ []Apart
<1>1. Init => Apart
  BY DEF Init, Apart, Idle
<1>2. Apart /\ [Next /\ Apart']_vars => Apart'
  BY DEF Apart, vars
<1> QED
  BY <1>1, <1>2, PTL DEF ApartSpec, Spec

\* If no two requests about one applicant overlap, each handler is atomic: as
\* much as it reads, flushes, mails, commits and rolls back in between.
THEOREM HandlersAtomic == ApartSpec => ImplementsAtomic
<1>1. Init => AllUpToDate
  BY IdleUpToDate DEF Init, AllUpToDate
<1>2. Init => Atomic!Init
  BY DEF Init, Atomic!Init, Delivered, Lapsed
<1>3. IInv /\ AllUpToDate /\ [Next]_vars => [Atomic!Next]_Atomic!vars
  BY CommitAtomic, QuietAtomic
<1> QED
  BY <1>1, <1>2, <1>3, UpToDateStep, ApartIsSpec, InvariantHolds, PTL
     DEF Spec, ImplementsAtomic, Atomic!Spec
=============================================================================
