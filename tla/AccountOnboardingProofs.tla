---------------------- MODULE AccountOnboardingProofs ----------------------
(***************************************************************************)
(* Proofs about AccountOnboarding, for any applicants, tokens and workers. *)
(***************************************************************************)
EXTENDS AccountOnboarding, TLAPS

-----------------------------------------------------------------------------
(* Types *)

\* A request that begins is a well-formed record.
LEMMA BeginType ==
  ASSUME TypeOK, NEW w \in Workers, NEW op \in Ops, NEW e \in Emails,
         NEW t \in Tokens \cup {Nobody}, NEW seen \in Statuses \cup AccountStates,
         NEW doomed \in SUBSET Tokens, Begin(w, op, e, t, seen, doomed)
  PROVE  TypeOK'
BY DEF Begin, TypeOK, Requests, store

\* Idle is one of the requests, so that a worker that ends stays well-formed.
LEMMA IdleType == Idle \in Requests
BY DEF Idle, Requests, Ops, Statuses

\* The rows of a request are rows of the tables.
LEMMA RowType ==
  ASSUME NEW r \in Requests, RequestSound(r)
  PROVE  WriteSet(r) \in SUBSET Rows
BY DEF WriteSet, Rows, Requests, RequestSound

\* A request that locks a row gives up, finds the row no longer its business,
\* or holds one row more; nothing else about it changes.
LEMMA LockWrites ==
  ASSUME TypeOK, RequestsSound, NEW w \in Workers, Lock(w)
  PROVE  LET r == request[w] IN
         /\ request' = [request EXCEPT ![w] = request'[w]]
         /\ \A v \in Workers \ {w} : request'[v] = request[v]
         /\ r.phase = "read"
         /\ \/ request'[w] = Idle
            \/ /\ request'[w] \in Requests
               /\ \E row \in WriteSet(r) :
                    /\ Turn(r, row) /\ ~Locked(w, row) /\ ~DuplicateKey(r, row)
                    /\ \/ /\ Mismatch(r, row)
                          /\ request'[w] = [r EXCEPT !.doomed = @ \ {row[2]}]
                       \/ request'[w] = [r EXCEPT !.held = @ \cup {row}]
<1> DEFINE r == request[w]
<1>1. r \in Requests /\ RequestSound(r)
  BY DEF TypeOK, RequestsSound
<1>2. PICK row \in WriteSet(r) :
        /\ Turn(r, row) /\ ~Locked(w, row)
        /\ request' = [request EXCEPT ![w] =
             IF DuplicateKey(r, row) THEN Idle
             ELSE IF Mismatch(r, row) THEN [r EXCEPT !.doomed = @ \ {row[2]}]
             ELSE [r EXCEPT !.held = @ \cup {row}]]
  BY DEF Lock
<1>3. row \in Rows
  BY <1>1, RowType
<1>4. /\ [r EXCEPT !.doomed = @ \ {row[2]}] \in Requests
      /\ [r EXCEPT !.held = @ \cup {row}] \in Requests
  BY <1>1, <1>3 DEF Requests
<1>5. /\ request' = [request EXCEPT ![w] = request'[w]]
      /\ \A v \in Workers \ {w} : request'[v] = request[v]
      /\ request'[w] = IF DuplicateKey(r, row) THEN Idle
                       ELSE IF Mismatch(r, row) THEN [r EXCEPT !.doomed = @ \ {row[2]}]
                       ELSE [r EXCEPT !.held = @ \cup {row}]
  BY <1>2 DEF TypeOK
<1> QED
  BY <1>2, <1>4, <1>5 DEF Lock

\* A request that flushes has all its rows and changes nothing but its phase.
LEMMA FlushWrites ==
  ASSUME TypeOK, NEW w \in Workers, Flush(w)
  PROVE  LET r == request[w] IN
         /\ request' = [request EXCEPT ![w] = request'[w]]
         /\ \A v \in Workers \ {w} : request'[v] = request[v]
         /\ r.phase = "read" /\ Missing(r) = {}
         /\ request'[w] = [r EXCEPT !.phase = "flushed"]
         /\ request'[w] \in Requests
BY DEF Flush, TypeOK, Requests

\* Every step keeps the variables in their types.
LEMMA NextType == TypeOK /\ RequestsSound /\ [Next]_vars => TypeOK'
<1> SUFFICES ASSUME TypeOK, RequestsSound, [Next]_vars PROVE TypeOK'
  OBVIOUS
<1>1. ASSUME NEW w \in Workers, NEW e \in Emails,
             \/ BeginRegister(w, e) \/ BeginApprove(w, e) \/ BeginReject(w, e)
             \/ BeginRequestInfo(w, e) \/ BeginResend(w, e) \/ BeginDisable(w, e)
      PROVE  TypeOK'
  <2>1. CASE BeginRegister(w, e)
    BY <2>1, BeginType DEF BeginRegister, Ops, Statuses
  <2>2. CASE BeginApprove(w, e)
    BY <2>2, BeginType DEF BeginApprove, Ops, Statuses
  <2>3. CASE BeginReject(w, e)
    BY <2>3, BeginType DEF BeginReject, Ops, Statuses
  <2>4. CASE BeginRequestInfo(w, e)
    <3>1. registration[e] \in Statuses
      BY DEF TypeOK
    <3> QED
      BY <2>4, <3>1, BeginType DEF BeginRequestInfo, Ops
  <2>5. CASE BeginResend(w, e)
    <3>1. account[e] \in AccountStates /\ LiveTokens(e) \in SUBSET Tokens
      BY DEF TypeOK, LiveTokens
    <3> QED
      BY <2>5, <3>1, BeginType DEF BeginResend, Ops
  <2>6. CASE BeginDisable(w, e)
    <3>1. account[e] \in AccountStates
      BY DEF TypeOK
    <3> QED
      BY <2>6, <3>1, BeginType DEF BeginDisable, Ops
  <2> QED
    BY <1>1, <2>1, <2>2, <2>3, <2>4, <2>5, <2>6
<1>2. ASSUME NEW w \in Workers, NEW t \in Tokens, BeginActivate(w, t)
      PROVE  TypeOK'
  <2>1. owner[t] \in Emails /\ account[owner[t]] \in AccountStates
    BY <1>2 DEF BeginActivate, TypeOK
  <2> QED
    BY <1>2, <2>1, BeginType DEF BeginActivate, Ops
<1>3. ASSUME NEW w \in Workers, Flush(w) \/ Lock(w)
      PROVE  TypeOK'
  <2>1. request' \in [Workers -> Requests]
    <3>1. request' = [request EXCEPT ![w] = request'[w]] /\ request'[w] \in Requests
      BY <1>3, LockWrites, FlushWrites, IdleType
    <3> QED
      BY <3>1 DEF TypeOK
  <2>2. inbox' \in SUBSET Tokens
    <3>1. request[w].token \in Tokens \/ UNCHANGED inbox
      BY <1>3 DEF Lock, Flush, RequestsSound, RequestSound, Issues
    <3> QED
      BY <1>3, <3>1 DEF Lock, Flush, TypeOK
  <2> QED
    BY <1>3, <2>1, <2>2 DEF Lock, Flush, TypeOK, store
<1>4. ASSUME NEW w \in Workers, Commit(w)
      PROVE  TypeOK'
  <2>a. /\ request[w].email \in Emails
        /\ request[w].op \in {"approve", "resend", "activate"}
             => request[w].token \in Tokens
        /\ request[w].doomed \in SUBSET Tokens
    BY <1>4 DEF RequestsSound, RequestSound, Commit, CommitRegister,
         CommitApprove, CommitReject, CommitRequestInfo, CommitActivate,
         CommitResend, CommitDisable, Finish, TypeOK, Requests
  <2> USE <2>a, IdleType DEF Finish, SetStatus, TypeOK, Statuses, AccountStates
  <2>1. CASE CommitRegister(w)
    BY <2>1 DEF CommitRegister
  <2>2. CASE CommitApprove(w)
    <3>1. owner' \in [Tokens -> Emails \cup {Nobody}]
      BY <2>2 DEF CommitApprove
    <3>2. approvals' \in [Emails -> Nat]
      BY <2>2 DEF CommitApprove
    <3>3. account' \in [Emails -> AccountStates]
      BY <2>2 DEF CommitApprove
    <3>4. registration' \in [Emails -> Statuses]
      BY <2>2 DEF CommitApprove
    <3> QED
      BY <2>2, <3>1, <3>2, <3>3, <3>4 DEF CommitApprove
  <2>3. CASE CommitReject(w)
    BY <2>3 DEF CommitReject
  <2>4. CASE CommitRequestInfo(w)
    BY <2>4 DEF CommitRequestInfo
  <2>5. CASE CommitActivate(w)
    <3>1. account' \in [Emails -> AccountStates]
      BY <2>5 DEF CommitActivate
    <3>2. activations' \in [Tokens -> Nat]
      BY <2>5 DEF CommitActivate
    <3>3. used' \in SUBSET Tokens
      BY <2>5 DEF CommitActivate
    <3> QED
      BY <2>5, <3>1, <3>2, <3>3 DEF CommitActivate
  <2>6. CASE CommitResend(w)
    BY <2>6 DEF CommitResend
  <2>7. CASE CommitDisable(w)
    BY <2>7 DEF CommitDisable
  <2> QED
    BY <1>4, <2>1, <2>2, <2>3, <2>4, <2>5, <2>6, <2>7 DEF Commit
<1>5. ASSUME NEW w \in Workers, Rollback(w)
      PROVE  TypeOK'
  BY <1>5, IdleType DEF Rollback, TypeOK, store
<1>6. ASSUME NEW t \in Tokens, Expire(t)
      PROVE  TypeOK'
  BY <1>6 DEF Expire, TypeOK
<1>7. CASE UNCHANGED vars
  BY <1>7 DEF TypeOK, vars
<1> QED
  BY <1>1, <1>2, <1>3, <1>4, <1>5, <1>6, <1>7 DEF Next

-----------------------------------------------------------------------------
(* Requests in flight *)

\* A worker with nothing to do is sound, whatever the tables hold.
LEMMA IdleSound == RequestSound(Idle) /\ RequestSound(Idle)'
BY DEF Idle, RequestSound, Issues, Missing, WriteSet

\* A request that begins disturbs nothing of IInv but what it says of itself:
\* that it is sound, and that a token it is to issue is nobody else's.
LEMMA BeginKeeps ==
  ASSUME IInv, TypeOK', NEW w \in Workers, NEW op \in Ops \ {"idle"},
         NEW e \in Emails, NEW t \in Tokens \cup {Nobody},
         NEW seen \in Statuses \cup AccountStates, NEW doomed \in SUBSET Tokens,
         Begin(w, op, e, t, seen, doomed),
         op \in {"approve", "resend", "activate"} => t \in Tokens,
         op \in {"approve", "reject", "request_info"} =>
           registration[e] # "none",
         op \in {"activate", "resend", "disable"} => account[e] # "none",
         op = "activate" => owner[t] = e,
         op \in {"approve", "resend"} => Fresh(t),
         op = "resend" => doomed = LiveTokens(e)
  PROVE  IInv'
<1> DEFINE r == [op |-> op, phase |-> "read", email |-> e, token |-> t,
                 seen |-> seen, doomed |-> doomed, held |-> {}]
<1>1. /\ request' = [request EXCEPT ![w] = r]
      /\ UNCHANGED store
  BY DEF Begin
<1>2. /\ request'[w] = r
      /\ \A v \in Workers \ {w} : request'[v] = request[v]
  BY <1>1 DEF IInv, TypeOK
<1> HIDE DEF r
<1>3. RequestsSound'
  <2> SUFFICES ASSUME NEW v \in Workers PROVE RequestSound(request[v])'
    BY DEF RequestsSound
  <2>1. CASE v # w
    BY <2>1, <1>1, <1>2 DEF IInv, RequestsSound, RequestSound, Issues, DuplicateKey, Missing, WriteSet, Rank, store
  <2>2. CASE v = w
    BY <2>2, <1>1, <1>2 DEF r, RequestSound, Issues, DuplicateKey, Missing, WriteSet, Rank, store, Fresh
  <2> QED
    BY <2>1, <2>2
<1>4. TokensReserved'
  <2>1. Issues(r) => \A v \in Workers : request[v].token # r.token
    BY DEF r, Issues, Fresh
  <2> QED
    BY <2>1, <1>2 DEF IInv, TokensReserved, Issues
<1>5. LocksExclusive'
  <2>1. r.held = {}
    BY DEF r
  <2> QED
    BY <2>1, <1>2 DEF IInv, LocksExclusive
<1>6. ResendsDoom'
  <2>1. ASSUME op = "resend"
        PROVE  \E s \in Tokens : owner[s] = e /\ s \in used \cup doomed
    BY <2>1 DEF IInv, AccountsHaveTokens, LiveTokens
  <2>2. r.op = op /\ r.email = e /\ r.doomed = doomed
    BY DEF r
  <2> QED
    BY <1>1, <1>2, <2>1, <2>2 DEF IInv, ResendsDoom, store
<1> QED
  BY <1>1, <1>3, <1>4, <1>5, <1>6
     DEF IInv, store, TokensHaveAccounts, OneAccountPerApplicant,
         PendingHasNoAccount, ActiveWasActivated,
         AccountsHaveTokens, OlderLinkDies

\* A worker that gives up leaves the other requests as they were.
LEMMA DropKeeps ==
  ASSUME IInv, TypeOK', NEW w \in Workers, UNCHANGED store,
         request' = [request EXCEPT ![w] = Idle]
  PROVE  IInv'
<1>1. /\ request'[w] = Idle
      /\ \A v \in Workers \ {w} : request'[v] = request[v]
  BY DEF IInv, TypeOK
<1>2. RequestsSound'
  <2> SUFFICES ASSUME NEW v \in Workers PROVE RequestSound(request[v])'
    BY DEF RequestsSound
  <2>1. CASE v # w
    BY <2>1, <1>1 DEF IInv, RequestsSound, RequestSound, Issues, DuplicateKey, Missing, WriteSet, Rank, store
  <2>2. CASE v = w
    BY <2>2, <1>1, IdleSound
  <2> QED
    BY <2>1, <2>2
<1>3. TokensReserved' /\ LocksExclusive' /\ ResendsDoom'
  BY <1>1 DEF IInv, TokensReserved, LocksExclusive, ResendsDoom, Issues, Idle, store
<1> QED
  BY <1>2, <1>3
     DEF IInv, store, TokensHaveAccounts, OneAccountPerApplicant,
         PendingHasNoAccount, ActiveWasActivated,
         AccountsHaveTokens, OlderLinkDies

\* A request that locks a row keeps what it had checked, takes the next row of
\* its order, and takes none that another one has.
LEMMA LockKeeps ==
  ASSUME IInv, TypeOK', NEW w \in Workers, Lock(w)
  PROVE  IInv'
<1> DEFINE r == request[w]
           q == request'[w]
<1>1. UNCHANGED store /\ TypeOK /\ RequestsSound
  BY DEF Lock, IInv
<1>2. /\ request' = [request EXCEPT ![w] = q]
      /\ \A v \in Workers \ {w} : request'[v] = request[v]
      /\ r \in Requests /\ RequestSound(r) /\ r.phase = "read"
  BY <1>1, LockWrites DEF TypeOK, RequestsSound
<1>3. CASE q = Idle
  BY <1>1, <1>2, <1>3, DropKeeps
<1>4. CASE q # Idle
  <2>1. PICK row \in WriteSet(r) :
          /\ Turn(r, row) /\ ~Locked(w, row) /\ ~DuplicateKey(r, row)
          /\ \/ /\ Mismatch(r, row)
                /\ q = [r EXCEPT !.doomed = @ \ {row[2]}]
             \/ q = [r EXCEPT !.held = @ \cup {row}]
    BY <1>1, <1>4, LockWrites
  <2>2. /\ q.op = r.op /\ q.phase = r.phase /\ q.email = r.email
        /\ q.token = r.token /\ q.seen = r.seen
        /\ q.held \subseteq r.held \cup {row}
    BY <1>2, <2>1 DEF Requests
  <2>3. /\ WriteSet(q) \subseteq WriteSet(r)
        /\ q.held \subseteq WriteSet(q)
        /\ Missing(q) \subseteq Missing(r)
        /\ \A held \in q.held, other \in Missing(q) : Rank(held) <= Rank(other)
    <3>1. /\ r.held \subseteq WriteSet(r) /\ row \in Missing(r)
          /\ \A other \in Missing(r) : Rank(row) <= Rank(other)
          /\ \A held \in r.held, other \in Missing(r) : Rank(held) <= Rank(other)
      BY <1>2, <2>1 DEF RequestSound, Turn
    <3>2. CASE q = [r EXCEPT !.held = @ \cup {row}]
      <4>1. WriteSet(q) = WriteSet(r) /\ q.held = r.held \cup {row}
        BY <1>2, <3>2 DEF Requests, WriteSet
      <4> QED
        BY <3>1, <4>1 DEF Missing
    <3>3. CASE Mismatch(r, row) /\ q = [r EXCEPT !.doomed = @ \ {row[2]}]
      <4>1. /\ r.op = "resend" /\ q.op = "resend" /\ q.held = r.held
            /\ q.doomed = r.doomed \ {row[2]}
        BY <1>2, <3>3 DEF Requests, Mismatch
      <4>2. /\ WriteSet(r) = {<<"token", t>> : t \in r.doomed}
            /\ WriteSet(q) = {<<"token", t>> : t \in q.doomed}
        BY <4>1 DEF WriteSet
      <4>3. WriteSet(q) = WriteSet(r) \ {row}
        BY <4>1, <4>2
      <4> QED
        BY <3>1, <4>1, <4>3 DEF Missing
    <3> QED
      BY <2>1, <3>2, <3>3
  <2>4. \A held \in q.held : ~DuplicateKey(q, held)
    BY <1>2, <2>1, <2>2 DEF RequestSound, DuplicateKey
  <2>5. RequestSound(request[w])'
    BY <1>1, <1>2, <2>2, <2>3, <2>4
       DEF RequestSound, Issues, DuplicateKey, Missing, WriteSet, Rank, store
  <2>6. ASSUME NEW v \in Workers PROVE RequestSound(request[v])'
    <3>1. CASE v # w
      BY <3>1, <1>1, <1>2 DEF IInv, RequestsSound, RequestSound, Issues, DuplicateKey,
           Missing, WriteSet, Rank, store
    <3>2. CASE v = w
      BY <3>2, <2>5
    <3> QED
      BY <3>1, <3>2
  <2>7. TokensReserved'
    BY <1>2, <2>2 DEF IInv, TokensReserved, Issues
  <2>8. LocksExclusive'
    <3>1. \A v \in Workers \ {w} : row \notin request[v].held
      BY <2>1 DEF Locked
    <3> QED
      BY <1>2, <2>2, <3>1 DEF IInv, LocksExclusive
  <2>9. ResendsDoom'
    <3>1. r.doomed \ used \subseteq q.doomed
      BY <1>2, <2>1 DEF Requests, Mismatch
    <3> QED
      BY <1>1, <1>2, <2>2, <3>1 DEF IInv, ResendsDoom, store
  <2> HIDE DEF r, q
  <2> QED
    BY <1>1, <2>6, <2>7, <2>8, <2>9
       DEF IInv, RequestsSound, store, TokensHaveAccounts, AccountsHaveTokens,
           OneAccountPerApplicant, PendingHasNoAccount, ActiveWasActivated, OlderLinkDies
<1> QED
  BY <1>3, <1>4

\* A request that flushes has all the rows it writes.
LEMMA FlushKeeps ==
  ASSUME IInv, TypeOK', NEW w \in Workers, Flush(w)
  PROVE  IInv'
<1> DEFINE r == request[w]
           q == request'[w]
<1>1. /\ UNCHANGED store /\ TypeOK
      /\ \A v \in Workers \ {w} : request'[v] = request[v]
      /\ r \in Requests /\ RequestSound(r)
      /\ r.phase = "read" /\ Missing(r) = {} /\ q = [r EXCEPT !.phase = "flushed"]
  BY FlushWrites DEF Flush, IInv, TypeOK, RequestsSound
<1>2. /\ q.op = r.op /\ q.phase = "flushed" /\ q.email = r.email
      /\ q.token = r.token /\ q.seen = r.seen /\ q.doomed = r.doomed /\ q.held = r.held
  BY <1>1 DEF Requests
<1>3. RequestSound(request[w])'
  BY <1>1, <1>2 DEF RequestSound, Issues, DuplicateKey, Missing, WriteSet, Rank, store
<1>4. ASSUME NEW v \in Workers PROVE RequestSound(request[v])'
  <2>1. CASE v # w
    BY <2>1, <1>1 DEF IInv, RequestsSound, RequestSound, Issues, DuplicateKey,
         Missing, WriteSet, Rank, store
  <2>2. CASE v = w
    BY <2>2, <1>3
  <2> QED
    BY <2>1, <2>2
<1> HIDE DEF q
<1>5. TokensReserved' /\ LocksExclusive'
  <2>1. TokensReserved'
    <3>1. \A v \in Workers : /\ request'[v].op = request[v].op
                            /\ request'[v].token = request[v].token
      BY <1>1, <1>2 DEF q, r
    <3> QED
      BY <3>1 DEF IInv, TokensReserved, Issues
  <2>2. LocksExclusive'
    BY <1>1, <1>2 DEF IInv, LocksExclusive, q
  <2> QED
    BY <2>1, <2>2
<1>6. ResendsDoom'
  BY <1>1, <1>2 DEF IInv, ResendsDoom, store, q
<1> HIDE DEF r
<1> QED
  BY <1>1, <1>4, <1>5, <1>6
     DEF IInv, RequestsSound, store, TokensHaveAccounts, AccountsHaveTokens,
         OneAccountPerApplicant, PendingHasNoAccount, ActiveWasActivated, OlderLinkDies

\* What a commit can do to what other requests rely on: rows only appear, a
\* registration by register and an account by approve, and only a token that
\* is issued changes hands.
LEMMA CommitGrows ==
  ASSUME IInv, NEW w \in Workers, Commit(w)
  PROVE  LET r == request[w] IN
         /\ r.phase = "flushed"
         /\ request' = [request EXCEPT ![w] = Idle]
         /\ r.email \in Emails
         /\ \A e \in Emails :
              /\ registration[e] # "none" => registration'[e] # "none"
              /\ account[e] # "none" => account'[e] # "none"
              /\ registration[e] = "none" /\ registration'[e] # "none" =>
                   r.op = "register" /\ r.email = e
              /\ account[e] = "none" /\ account'[e] # "none" =>
                   r.op = "approve" /\ r.email = e
         /\ \A t \in Tokens :
              owner'[t] # owner[t] => Issues(r) /\ r.token = t
<1> DEFINE r == request[w]
<1>1. /\ RequestSound(r)
      /\ r.phase = "flushed"
      /\ request' = [request EXCEPT ![w] = Idle]
  BY DEF Commit, CommitRegister, CommitApprove, CommitReject, CommitRequestInfo,
         CommitActivate, CommitResend, CommitDisable, Finish, IInv, RequestsSound
<1>2. r.email \in Emails
  BY <1>1 DEF RequestSound
<1> USE <1>1, <1>2 DEF Finish, SetStatus, IInv, TypeOK, RequestSound
<1>3. CASE CommitRegister(w)
  BY <1>3 DEF CommitRegister
<1>4. CASE CommitApprove(w)
  BY <1>4 DEF CommitApprove, Issues
<1>5. CASE CommitReject(w)
  BY <1>5 DEF CommitReject
<1>6. CASE CommitRequestInfo(w)
  BY <1>6 DEF CommitRequestInfo
<1>7. CASE CommitActivate(w)
  BY <1>7 DEF CommitActivate
<1>8. CASE CommitResend(w)
  BY <1>8 DEF CommitResend, Issues
<1>9. CASE CommitDisable(w)
  BY <1>9 DEF CommitDisable
<1> QED
  BY <1>3, <1>4, <1>5, <1>6, <1>7, <1>8, <1>9 DEF Commit

\* A request that commits holds every row it writes.
LEMMA CommitHolds ==
  ASSUME IInv, NEW w \in Workers, Commit(w)
  PROVE  WriteSet(request[w]) \subseteq request[w].held
BY CommitGrows DEF IInv, RequestsSound, RequestSound, Missing

\* A commit ends its request and no other.
LEMMA CommitEnds ==
  ASSUME IInv, NEW w \in Workers, Commit(w)
  PROVE  /\ RequestSound(request[w]) /\ request[w] \in Requests
         /\ request'[w] = Idle
         /\ \A v \in Workers \ {w} : request'[v] = request[v]
BY CommitGrows DEF IInv, TypeOK, RequestsSound

\* Only an approval and a resend issue a token, and it was nobody's before.
LEMMA CommitIssues ==
  ASSUME IInv, NEW w \in Workers, Commit(w)
  PROVE  /\ used \subseteq used'
         /\ \A t \in Tokens : owner'[t] # owner[t] =>
              /\ owner[t] = Nobody
              /\ owner'[t] = request[w].email
              /\ t = request[w].token
              /\ CommitApprove(w) \/ CommitResend(w)
<1>1. RequestSound(request[w])
  BY CommitEnds
<1>2. CASE CommitApprove(w)
  BY <1>1, <1>2 DEF CommitApprove, Finish, IInv, TypeOK, RequestSound, Issues
<1>3. CASE CommitResend(w)
  BY <1>1, <1>3 DEF CommitResend, Finish, IInv, TypeOK, RequestSound, Issues
<1>4. CASE ~CommitApprove(w) /\ ~CommitResend(w)
  BY <1>4 DEF Commit, CommitRegister, CommitReject, CommitRequestInfo, CommitActivate,
       CommitDisable
<1> QED
  BY <1>2, <1>3, <1>4

\* What is committed as new was not there before: the unique key was looked at
\* under the lock that the request still has.
LEMMA CommitNew ==
  ASSUME IInv, NEW w \in Workers, Commit(w)
  PROVE  /\ request[w].op = "register" => registration[request[w].email] = "none"
         /\ request[w].op = "approve" => account[request[w].email] = "none"
<1> DEFINE r == request[w]
<1>1. WriteSet(r) \subseteq r.held /\ \A row \in r.held : ~DuplicateKey(r, row)
  BY CommitHolds DEF IInv, RequestsSound, RequestSound
<1>2. CASE r.op = "register"
  <2>1. <<"registration", r.email>> \in r.held
    BY <1>1, <1>2 DEF WriteSet
  <2> QED
    BY <1>1, <1>2, <2>1 DEF DuplicateKey
<1>3. CASE r.op = "approve"
  <2>1. <<"user", r.email>> \in r.held
    BY <1>1, <1>3 DEF WriteSet
  <2> QED
    BY <1>1, <1>3, <2>1 DEF DuplicateKey
<1> QED
  BY <1>2, <1>3

\* A commit leaves every request still in flight as sound as it was.
LEMMA CommitKeepsRequests ==
  ASSUME IInv, NEW w \in Workers, Commit(w)
  PROVE  RequestsSound' /\ TokensReserved' /\ LocksExclusive' /\ ResendsDoom'
<1> DEFINE r == request[w]
<1>1. /\ request'[w] = Idle
      /\ \A v \in Workers \ {w} : request'[v] = request[v]
  BY CommitGrows DEF IInv, TypeOK
<1>2. RequestsSound'
  <2> SUFFICES ASSUME NEW v \in Workers PROVE RequestSound(request[v])'
    BY DEF RequestsSound
  <2>1. CASE v = w
    BY <2>1, <1>1, IdleSound
  <2>2. CASE v # w
    <3> DEFINE q == request[v]
    <3>1. RequestSound(q)
      BY DEF IInv, RequestsSound
    <3>2. /\ q.op \in {"approve", "reject", "request_info"} =>
               registration'[q.email] # "none"
          /\ q.op \in {"activate", "resend", "disable"} =>
               account'[q.email] # "none"
      BY <3>1, CommitGrows DEF RequestSound
    <3>3. q.op = "activate" => owner'[q.token] = q.email
      <4>1. q.op = "activate" => owner[q.token] # Nobody /\ q.token \in Tokens
        BY <3>1, NobodyIsFresh DEF RequestSound
      <4>2. Issues(r) => owner[r.token] = Nobody
        BY DEF IInv, RequestsSound, RequestSound
      <4> QED
        BY <4>1, <4>2, <3>1, CommitGrows DEF RequestSound
    <3>4. Issues(q) => owner'[q.token] = Nobody
      <4>1. Issues(q) /\ Issues(r) => q.token # r.token
        BY <2>2 DEF IInv, TokensReserved
      <4> QED
        BY <4>1, <3>1, CommitGrows DEF RequestSound, Issues
    <3>5. ASSUME NEW row \in q.held, DuplicateKey(q, row)'
          PROVE  FALSE
      <4>1. ~DuplicateKey(q, row) /\ row \in WriteSet(q)
        BY <3>1, <3>5 DEF RequestSound
      <4>2. CASE q.op = "register"
        <5>1. registration[q.email] = "none" /\ registration'[q.email] # "none"
          BY <1>1, <2>2, <3>5, <4>1, <4>2 DEF DuplicateKey
        <5>2. r.op = "register" /\ r.email = q.email
          BY <3>1, <4>2, <5>1, CommitGrows DEF RequestSound
        <5>3. row = <<"registration", r.email>> /\ row \in WriteSet(r)
          BY <4>1, <4>2, <5>2 DEF WriteSet
        <5> QED
          BY <2>2, <3>5, <5>3, CommitHolds DEF IInv, LocksExclusive
      <4>3. CASE q.op = "approve"
        <5>1. row[1] = "user" /\ account[q.email] = "none" /\ account'[q.email] # "none"
          BY <1>1, <2>2, <3>5, <4>1, <4>3 DEF DuplicateKey
        <5>2. r.op = "approve" /\ r.email = q.email
          BY <3>1, <4>3, <5>1, CommitGrows DEF RequestSound
        <5>3. row = <<"user", r.email>> /\ row \in WriteSet(r)
          BY <4>1, <4>3, <5>1, <5>2 DEF WriteSet
        <5> QED
          BY <2>2, <3>5, <5>3, CommitHolds DEF IInv, LocksExclusive
      <4> QED
        BY <1>1, <2>2, <3>5, <4>2, <4>3 DEF DuplicateKey
    <3> QED
      BY <2>2, <1>1, <3>1, <3>2, <3>3, <3>4, <3>5
         DEF RequestSound, Issues, Missing, WriteSet, Rank
  <2> QED
    BY <2>1, <2>2
<1>3. TokensReserved' /\ LocksExclusive'
  BY <1>1 DEF IInv, TokensReserved, LocksExclusive, Issues, Idle
<1>4. ResendsDoom'
  <2> SUFFICES ASSUME NEW v \in Workers, request'[v].op = "resend"
               PROVE  \E t \in Tokens : /\ owner'[t] = request'[v].email
                                        /\ t \in used' \cup request'[v].doomed
    BY DEF ResendsDoom
  <2>1. v # w /\ request'[v] = request[v] /\ RequestSound(request[v])
    BY <1>1 DEF Idle, IInv, RequestsSound
  <2>2. PICK t \in Tokens : /\ owner[t] = request[v].email
                            /\ t \in used \cup request[v].doomed
    BY <2>1 DEF IInv, ResendsDoom
  <2>3. owner'[t] = owner[t] /\ used \subseteq used'
    BY <2>1, <2>2, CommitIssues, NobodyIsFresh DEF RequestSound
  <2> QED
    BY <2>1, <2>2, <2>3
<1> QED
  BY <1>2, <1>3, <1>4

\* Each commit leaves the tables consistent with one another.
LEMMA CommitKeepsTables ==
  ASSUME IInv, NEW w \in Workers, Commit(w)
  PROVE  /\ TokensHaveAccounts' /\ OneAccountPerApplicant'
         /\ PendingHasNoAccount' /\ ActiveWasActivated'
         /\ AccountsHaveTokens' /\ OlderLinkDies'
<1> DEFINE r == request[w]
<1>1. RequestSound(r) /\ r.phase = "flushed" /\ r.email \in Emails
  BY CommitGrows DEF IInv, RequestsSound
<1>2. r.op \in {"approve", "resend", "activate"} => r.token \in Tokens
  BY <1>1 DEF RequestSound
<1>3. TokensHaveAccounts'
  <2> SUFFICES ASSUME NEW t \in Tokens, owner'[t] # Nobody
               PROVE  account'[owner'[t]] # "none"
    BY DEF TokensHaveAccounts
  <2>1. CASE owner'[t] = owner[t]
    <3>1. owner[t] \in Emails /\ account[owner[t]] # "none"
      BY <2>1 DEF IInv, TypeOK, TokensHaveAccounts
    <3> QED
      BY <2>1, <3>1, CommitGrows
  <2>2. CASE owner'[t] # owner[t]
    <3>1. Issues(r) /\ r.token = t
      BY <2>2, CommitGrows
    <3>2. CASE r.op = "approve"
      <4>1. CommitApprove(w)
        BY <3>2 DEF Commit, CommitRegister, CommitApprove, CommitReject,
             CommitRequestInfo, CommitActivate, CommitResend, CommitDisable, Finish
      <4> QED
        BY <4>1, <3>1, <1>1 DEF CommitApprove, IInv, TypeOK
    <3>3. CASE r.op = "resend"
      <4>1. CommitResend(w)
        BY <3>3 DEF Commit, CommitRegister, CommitApprove, CommitReject,
             CommitRequestInfo, CommitActivate, CommitResend, CommitDisable, Finish
      <4>2. owner'[t] = r.email /\ account[r.email] # "none"
        BY <4>1, <3>1, <1>1, <3>3 DEF CommitResend, IInv, TypeOK, RequestSound
      <4> QED
        BY <4>2, <1>1, CommitGrows
    <3> QED
      BY <3>1, <3>2, <3>3 DEF Issues
  <2> QED
    BY <2>1, <2>2
<1>4. OneAccountPerApplicant' /\ PendingHasNoAccount'
  <2> USE <1>1, <1>2 DEF Finish, SetStatus, IInv, TypeOK, RequestSound, DuplicateKey,
          OneAccountPerApplicant, PendingHasNoAccount, Statuses, AccountStates
  <2>1. CASE CommitRegister(w)
    BY <2>1, CommitNew DEF CommitRegister
  <2>2. CASE CommitApprove(w)
    BY <2>2, CommitNew DEF CommitApprove
  <2>3. CASE CommitReject(w)
    BY <2>3 DEF CommitReject
  <2>4. CASE CommitRequestInfo(w)
    BY <2>4 DEF CommitRequestInfo
  <2>5. CASE CommitActivate(w)
    BY <2>5 DEF CommitActivate
  <2>6. CASE CommitResend(w)
    BY <2>6 DEF CommitResend
  <2>7. CASE CommitDisable(w)
    BY <2>7 DEF CommitDisable
  <2> QED
    BY <2>1, <2>2, <2>3, <2>4, <2>5, <2>6, <2>7 DEF Commit
<1>5. ActiveWasActivated'
  <2> SUFFICES ASSUME NEW e \in Emails, account'[e] = "active"
               PROVE  \E t \in Tokens : owner'[t] = e /\ activations'[t] > 0
    BY DEF ActiveWasActivated
  <2>1. CASE CommitActivate(w) /\ e = r.email
    <3>1. owner'[r.token] = e
      BY <2>1, <1>1 DEF CommitActivate, Finish, RequestSound
    <3>2. activations'[r.token] > 0
      BY <2>1, <1>2 DEF CommitActivate, Finish, IInv, TypeOK
    <3> QED
      BY <3>1, <3>2, <2>1, <1>2 DEF CommitActivate, Finish
  <2>2. CASE ~(CommitActivate(w) /\ e = r.email)
    <3>1. account[e] = "active"
      BY <2>2, <1>1 DEF Commit, CommitRegister, CommitApprove, CommitReject,
           CommitRequestInfo, CommitActivate, CommitResend, CommitDisable,
           IInv, TypeOK
    <3>2. PICK t \in Tokens : owner[t] = e /\ activations[t] > 0
      BY <3>1 DEF IInv, ActiveWasActivated
    <3>3. owner'[t] = e
      BY <3>2, <1>1, CommitGrows, NobodyIsFresh DEF RequestSound
    <3>4. activations'[t] > 0
      <4>1. activations'[t] = activations[t] \/ activations'[t] = activations[t] + 1
        BY DEF Commit, CommitRegister, CommitApprove, CommitReject,
             CommitRequestInfo, CommitActivate, CommitResend, CommitDisable,
             IInv, TypeOK
      <4> QED
        BY <4>1, <3>2 DEF IInv, TypeOK
    <3> QED
      BY <3>3, <3>4
  <2> QED
    BY <2>1, <2>2
<1>6. AccountsHaveTokens'
  <2> SUFFICES ASSUME NEW e \in Emails, account'[e] # "none"
               PROVE  \E t \in Tokens : owner'[t] = e
    BY DEF AccountsHaveTokens
  <2>1. CASE account[e] # "none"
    <3>1. PICK t \in Tokens : owner[t] = e
      BY <2>1 DEF IInv, AccountsHaveTokens
    <3> QED
      BY <3>1, CommitIssues, NobodyIsFresh
  <2>2. CASE account[e] = "none"
    <3>1. CommitApprove(w) /\ r.email = e
      BY <2>2, CommitGrows DEF Commit, CommitRegister, CommitApprove, CommitReject,
           CommitRequestInfo, CommitActivate, CommitResend, CommitDisable, Finish
    <3>2. owner'[r.token] = e /\ r.token \in Tokens
      BY <1>2, <3>1 DEF CommitApprove, Finish, IInv, TypeOK
    <3> QED
      BY <3>2
  <2> QED
    BY <2>1, <2>2
<1>7. OlderLinkDies'
  <2> SUFFICES ASSUME NEW s \in Tokens, NEW t \in Tokens, s # t,
                      owner'[s] = owner'[t], owner'[t] # Nobody
               PROVE  \E u \in used' : owner'[u] = owner'[t]
    BY DEF OlderLinkDies
  <2>1. used \subseteq used' /\ used \subseteq Tokens
    BY CommitIssues DEF IInv, TypeOK
  <2>2. CASE owner'[s] = owner[s] /\ owner'[t] = owner[t]
    <3>1. PICK u \in used : owner[u] = owner[t]
      BY <2>2 DEF IInv, OlderLinkDies
    <3> QED
      BY <2>1, <2>2, <3>1, CommitIssues
  <2>3. CASE owner'[s] # owner[s] \/ owner'[t] # owner[t]
    <3>1. /\ CommitApprove(w) \/ CommitResend(w)
          /\ owner'[t] = r.email
          /\ owner[s] = r.email \/ owner[t] = r.email
      BY <2>3, CommitIssues
    <3>2. account[r.email] # "none"
      BY <1>1, <3>1, NobodyIsFresh DEF IInv, TokensHaveAccounts
    <3>3. CommitResend(w) /\ r.op = "resend"
      BY <3>1, <3>2, CommitNew DEF CommitApprove, CommitResend, Finish
    <3>4. PICK u \in Tokens : owner[u] = r.email /\ u \in used \cup r.doomed
      BY <3>3 DEF IInv, ResendsDoom
    <3>5. owner'[u] = r.email /\ u \in used'
      BY <1>1, <3>3, <3>4, CommitIssues, NobodyIsFresh DEF CommitResend
    <3> QED
      BY <3>1, <3>5
  <2> QED
    BY <2>2, <2>3
<1> QED
  BY <1>3, <1>4, <1>5, <1>6, <1>7

-----------------------------------------------------------------------------
(* The inductive invariant *)

\* The empty tables of a new database satisfy IInv.
LEMMA InitInv == Init => IInv
<1> SUFFICES ASSUME Init PROVE IInv
  OBVIOUS
<1>1. TypeOK
  BY IdleType DEF Init, TypeOK, Statuses, AccountStates
<1>2. \A w \in Workers : request[w] = Idle
  BY DEF Init
<1>3. RequestsSound /\ TokensReserved /\ LocksExclusive
  BY <1>2, IdleSound DEF RequestsSound, TokensReserved, LocksExclusive, Issues, Idle
<1>4. /\ TokensHaveAccounts /\ OneAccountPerApplicant
      /\ PendingHasNoAccount /\ ActiveWasActivated
  BY DEF Init, TokensHaveAccounts, OneAccountPerApplicant, PendingHasNoAccount,
         ActiveWasActivated
<1>5. AccountsHaveTokens /\ ResendsDoom /\ OlderLinkDies
  BY <1>2 DEF Init, AccountsHaveTokens, ResendsDoom, OlderLinkDies, Idle
<1> QED
  BY <1>1, <1>3, <1>4, <1>5 DEF IInv

\* Every step of every request keeps IInv.
LEMMA StepInv == IInv /\ [Next]_vars => IInv'
<1> SUFFICES ASSUME IInv, [Next]_vars PROVE IInv'
  OBVIOUS
<1>1. TypeOK'
  BY NextType DEF IInv
<1>2. ASSUME NEW w \in Workers, NEW e \in Emails,
             \/ BeginRegister(w, e) \/ BeginApprove(w, e) \/ BeginReject(w, e)
             \/ BeginRequestInfo(w, e) \/ BeginResend(w, e) \/ BeginDisable(w, e)
      PROVE  IInv'
  <2>1. CASE BeginRegister(w, e)
    BY <1>1, <2>1, BeginKeeps DEF BeginRegister, Ops, Statuses
  <2>2. CASE BeginApprove(w, e)
    <3>1. PICK t \in Tokens : Fresh(t) /\ Begin(w, "approve", e, t, "pending", {})
      BY <2>2 DEF BeginApprove
    <3> QED
      BY <1>1, <2>2, <3>1, BeginKeeps DEF BeginApprove, Ops, Statuses
  <2>3. CASE BeginReject(w, e)
    BY <1>1, <2>3, BeginKeeps DEF BeginReject, Ops, Statuses
  <2>4. CASE BeginRequestInfo(w, e)
    <3>1. registration[e] \in Statuses
      BY DEF IInv, TypeOK
    <3> QED
      BY <1>1, <2>4, <3>1, BeginKeeps DEF BeginRequestInfo, Ops
  <2>5. CASE BeginResend(w, e)
    <3>1. account[e] \in AccountStates /\ LiveTokens(e) \in SUBSET Tokens
      BY DEF IInv, TypeOK, LiveTokens
    <3>2. PICK t \in Tokens :
            Fresh(t) /\ Begin(w, "resend", e, t, account[e], LiveTokens(e))
      BY <2>5 DEF BeginResend
    <3> QED
      BY <1>1, <2>5, <3>1, <3>2, BeginKeeps DEF BeginResend, Ops
  <2>6. CASE BeginDisable(w, e)
    <3>1. account[e] \in AccountStates
      BY DEF IInv, TypeOK
    <3> QED
      BY <1>1, <2>6, <3>1, BeginKeeps DEF BeginDisable, Ops
  <2> QED
    BY <1>2, <2>1, <2>2, <2>3, <2>4, <2>5, <2>6
<1>3. ASSUME NEW w \in Workers, NEW t \in Tokens, BeginActivate(w, t)
      PROVE  IInv'
  <2>1. /\ owner[t] \in Emails
        /\ account[owner[t]] \in AccountStates
        /\ account[owner[t]] # "none"
    BY <1>3 DEF BeginActivate, IInv, TypeOK, TokensHaveAccounts
  <2> QED
    BY <1>1, <1>3, <2>1, BeginKeeps DEF BeginActivate, Ops
<1>4. ASSUME NEW w \in Workers, Flush(w) \/ Lock(w)
      PROVE  IInv'
  BY <1>1, <1>4, FlushKeeps, LockKeeps
<1>5. ASSUME NEW w \in Workers, Commit(w)
      PROVE  IInv'
  BY <1>1, <1>5, CommitKeepsRequests, CommitKeepsTables DEF IInv
<1>6. ASSUME NEW w \in Workers, Rollback(w)
      PROVE  IInv'
  BY <1>1, <1>6, DropKeeps DEF Rollback
<1>7. CASE UNCHANGED vars \/ \E t \in Tokens : Expire(t)
  <2>1. UNCHANGED <<registration, account, owner, used, request, approvals, activations>>
    BY <1>7 DEF Expire, vars
  <2>2. RequestsSound'
    BY <2>1 DEF IInv, RequestsSound, RequestSound, Issues, DuplicateKey, Missing,
         WriteSet, Rank
  <2> QED
    BY <1>1, <2>1, <2>2
       DEF IInv, TokensReserved, LocksExclusive, TokensHaveAccounts, AccountsHaveTokens,
           ResendsDoom, OneAccountPerApplicant, PendingHasNoAccount, ActiveWasActivated,
           OlderLinkDies, Issues
<1> QED
  BY <1>2, <1>3, <1>4, <1>5, <1>6, <1>7 DEF Next

\* IInv holds in every reachable state, whatever the number of applicants,
\* tokens and requests in flight.
THEOREM InvariantHolds == Spec => []IInv
BY InitInv, StepInv, PTL DEF Spec

\* The tables and the requests keep their types.
THEOREM TypeCorrect == Spec => []TypeOK
<1>1. IInv => TypeOK
  BY DEF IInv
<1> QED
  BY <1>1, InvariantHolds, PTL

\* However many administrators approve at once, approve_registration creates
\* one account per applicant.
THEOREM AccountsUnique == Spec => []OneAccountPerApplicant
<1>1. IInv => OneAccountPerApplicant
  BY DEF IInv
<1> QED
  BY <1>1, InvariantHolds, PTL

\* approve_registration's two writes are seen together: no application is
\* pending that has an account already.
THEOREM PendingUnapproved == Spec => []PendingHasNoAccount
<1>1. IInv => PendingHasNoAccount
  BY DEF IInv
<1> QED
  BY <1>1, InvariantHolds, PTL

\* Only activate_account turns an account on, with a token of its own.
THEOREM ActiveOnlyByActivation == Spec => []ActiveWasActivated
<1>1. IInv => ActiveWasActivated
  BY DEF IInv
<1> QED
  BY <1>1, InvariantHolds, PTL

\* However many resends overlap, a link that was sent again does not leave all
\* the older links of its applicant alive.
THEOREM OlderLinkInvalid == Spec => []OlderLinkDies
<1>1. IInv => OlderLinkDies
  BY DEF IInv
<1> QED
  BY <1>1, InvariantHolds, PTL

\* A row is a user's, a registration's or a token's.
LEMMA RowCases ==
  ASSUME NEW row \in Rows
  PROVE  \/ \E e \in Emails : row = <<"user", e>> \/ row = <<"registration", e>>
         \/ \E t \in Tokens : row = <<"token", t>>
BY DEF Rows

\* No two requests ever wait for each other, whatever rows they write: all take
\* them in one order.
THEOREM NeverMutual == Spec => []NoMutualWait
<1>1. ASSUME IInv, NEW v \in Workers, NEW w \in Workers, v # w,
             WaitsFor(v, w), WaitsFor(w, v)
      PROVE  FALSE
  <2>1. PICK a \in request[w].held : Turn(request[v], a)
    BY <1>1 DEF WaitsFor
  <2>2. PICK b \in request[v].held : Turn(request[w], b)
    BY <1>1 DEF WaitsFor
  <2>3. a # b
    BY <1>1, <2>1, <2>2 DEF IInv, LocksExclusive
  <2>4. /\ a \in WriteSet(request[v]) /\ b \in WriteSet(request[v])
        /\ a \in Rows /\ b \in Rows
        /\ Rank(b) <= Rank(a) /\ Rank(a) <= Rank(b)
    BY <1>1, <2>1, <2>2, RowType
       DEF IInv, TypeOK, RequestsSound, RequestSound, Turn, Missing
  <2>5. CASE \E e \in Emails : a = <<"user", e>> \/ a = <<"registration", e>>
    <3>1. Rank(a) <= 1
      BY <2>5 DEF Rank
    <3>2. b[1] \in {"user", "registration"}
      BY <2>4, <3>1, RowCases, PlaceAssumption DEF Rank
    <3>3. a[1] = b[1]
      BY <2>4, <2>5, <3>2, RowCases DEF Rank
    <3>4. \A x \in WriteSet(request[v]) :
            x[1] # "token" => x = <<x[1], request[v].email>>
      BY DEF WriteSet
    <3> QED
      BY <2>3, <2>4, <2>5, <3>3, <3>4
  <2>6. ASSUME NEW s \in Tokens, a = <<"token", s>> PROVE FALSE
    <3>1. Rank(a) = 2 + Place[s] /\ Place[s] \in Nat
      BY <2>6, PlaceAssumption DEF Rank
    <3>2. PICK t \in Tokens : b = <<"token", t>>
      BY <2>4, <3>1, RowCases DEF Rank
    <3>3. Rank(b) = 2 + Place[t] /\ Place[t] \in Nat
      BY <3>2, PlaceAssumption DEF Rank
    <3>4. Place[s] = Place[t]
      BY <2>4, <3>1, <3>3
    <3> QED
      BY <2>3, <2>6, <3>2, <3>4, PlaceAssumption
  <2> QED
    BY <2>4, <2>5, <2>6, RowCases
<1>2. IInv => NoMutualWait
  BY <1>1 DEF NoMutualWait
<1> QED
  BY <1>2, InvariantHolds, PTL

-----------------------------------------------------------------------------
(* Refinement *)

\* A step that writes nothing to the tables, or only spends or expires tokens,
\* is a stuttering step of AccountLifecycle.
LEMMA Stutters ==
  ASSUME UNCHANGED <<registration, account, owner>>
  PROVE  UNCHANGED Lifecycle!vars
BY DEF Lifecycle!vars, Stage

\* Each commit is a step of AccountLifecycle, or invisible to it.
LEMMA CommitRefines ==
  ASSUME IInv, NEW w \in Workers, Commit(w)
  PROVE  [Lifecycle!Next]_Lifecycle!vars
<1> DEFINE r == request[w]
           e == r.email
<1>1. RequestSound(r) /\ r.phase = "flushed" /\ e \in Emails
  BY CommitGrows DEF IInv, RequestsSound
<1>2. /\ registration[e] \in Statuses /\ account[e] \in AccountStates
      /\ registration \in [Emails -> Statuses]
      /\ account \in [Emails -> AccountStates]
      /\ owner \in [Tokens -> Emails \cup {Nobody}]
  BY <1>1 DEF IInv, TypeOK
<1>3. CASE CommitRegister(w)
  <2>1. account[e] = "none" /\ registration[e] = "none"
    BY <1>1, <1>2, <1>3, CommitNew
       DEF CommitRegister, Finish, IInv, PendingHasNoAccount
  <2>2. Stage[e] = "absent" /\ Stage' = [Stage EXCEPT ![e] = "applied"]
    BY <1>1, <1>2, <1>3, <2>1 DEF CommitRegister, SetStatus, Stage
  <2>3. Lifecycle!Apply(e)
    BY <1>3, <2>2 DEF CommitRegister, Lifecycle!Apply, Lifecycle!Move
  <2> QED
    BY <1>1, <2>3 DEF Lifecycle!Next
<1>4. CASE CommitApprove(w)
  <2>1. /\ account[e] = "none" /\ registration[e] # "none"
        /\ r.token \in Tokens /\ owner[r.token] = Nobody
    BY <1>1, <1>4, CommitNew DEF CommitApprove, Finish, RequestSound, Issues
  <2>2. Stage[e] = "applied" /\ Stage' = [Stage EXCEPT ![e] = "inactive"]
    BY <1>1, <1>2, <1>4, <2>1 DEF CommitApprove, SetStatus, Stage
  <2>3. Lifecycle!Approve(e, r.token)
    BY <1>4, <2>1, <2>2
       DEF CommitApprove, Lifecycle!Approve, Lifecycle!Move, Lifecycle!Issue
  <2> QED
    BY <1>1, <2>1, <2>3 DEF Lifecycle!Next
<1>5. CASE CommitReject(w) \/ CommitRequestInfo(w)
  <2>1. registration[e] # "none"
    BY <1>1, <1>5 DEF CommitReject, CommitRequestInfo, Finish, RequestSound
  <2>2. Stage' = Stage /\ UNCHANGED owner
    BY <1>1, <1>2, <1>5, <2>1
       DEF CommitReject, CommitRequestInfo, SetStatus, Stage
  <2> QED
    BY <2>2 DEF Lifecycle!vars
<1>6. CASE CommitActivate(w)
  <2>1. /\ account[e] # "none" /\ r.token \in Tokens /\ owner[r.token] = e
    BY <1>1, <1>6 DEF CommitActivate, Finish, RequestSound
  <2>2. CASE account' = account
    BY <1>6, <2>2, Stutters DEF CommitActivate
  <2>3. CASE account' # account
    <3>1. account[e] = "inactive" /\ account' = [account EXCEPT ![e] = "active"]
      BY <1>1, <1>2, <1>6, <2>1, <2>3 DEF CommitActivate, AccountStates
    <3>2. Stage[e] = "inactive" /\ Stage' = [Stage EXCEPT ![e] = "active"]
      BY <1>1, <1>2, <1>6, <3>1 DEF CommitActivate, Stage
    <3>3. Lifecycle!Activate(e, r.token)
      BY <1>6, <2>1, <3>2 DEF CommitActivate, Lifecycle!Activate, Lifecycle!Move
    <3> QED
      BY <1>1, <2>1, <3>3 DEF Lifecycle!Next
  <2> QED
    BY <2>2, <2>3
<1>7. CASE CommitResend(w)
  <2>1. /\ account[e] # "none"
        /\ r.token \in Tokens /\ owner[r.token] = Nobody
    BY <1>1, <1>7 DEF CommitResend, Finish, RequestSound, Issues
  <2>2. Stage[e] \in {"inactive", "active"} /\ Stage' = Stage
    BY <1>1, <1>2, <1>7, <2>1 DEF CommitResend, Stage, AccountStates
  <2>3. Lifecycle!Reissue(e, r.token)
    BY <1>7, <2>1, <2>2 DEF CommitResend, Lifecycle!Reissue, Lifecycle!Issue
  <2> QED
    BY <1>1, <2>1, <2>3 DEF Lifecycle!Next
<1>8. CASE CommitDisable(w)
  <2>1. account[e] # "none"
    BY <1>1, <1>8 DEF CommitDisable, Finish, RequestSound
  <2>2. CASE account' = account
    BY <1>8, <2>2, Stutters DEF CommitDisable
  <2>3. CASE account' # account
    <3>1. account[e] = "active" /\ account' = [account EXCEPT ![e] = "inactive"]
      BY <1>1, <1>2, <1>8, <2>1, <2>3 DEF CommitDisable, AccountStates
    <3>2. Stage[e] = "active" /\ Stage' = [Stage EXCEPT ![e] = "inactive"]
      BY <1>1, <1>2, <1>8, <3>1 DEF CommitDisable, Stage
    <3>3. Lifecycle!Disable(e)
      BY <1>8, <3>2 DEF CommitDisable, Lifecycle!Disable, Lifecycle!Move
    <3> QED
      BY <1>1, <3>3 DEF Lifecycle!Next
  <2> QED
    BY <2>2, <2>3
<1> QED
  BY <1>3, <1>4, <1>5, <1>6, <1>7, <1>8 DEF Commit

\* Onboarding implements AccountLifecycle: an empty database is its initial
\* state, and whatever requests do, an account goes from absent to applied to
\* inactive to active and is turned on only by a key issued to it.
THEOREM LifecycleImplemented == Spec => ImplementsLifecycle
<1>1. Init => Lifecycle!Init
  BY DEF Init, Lifecycle!Init, Stage
<1>2. IInv /\ [Next]_vars => [Lifecycle!Next]_Lifecycle!vars
  <2> SUFFICES ASSUME IInv, [Next]_vars PROVE [Lifecycle!Next]_Lifecycle!vars
    OBVIOUS
  <2>1. CASE \E w \in Workers : Commit(w)
    BY <2>1, CommitRefines
  <2>2. CASE ~\E w \in Workers : Commit(w)
    <3>1. UNCHANGED <<registration, account, owner>>
      BY <2>2 DEF Next, vars, store, Begin, BeginRegister, BeginApprove,
           BeginReject, BeginRequestInfo, BeginActivate, BeginResend,
           BeginDisable, Lock, Flush, Rollback, Expire
    <3> QED
      BY <3>1, Stutters
  <2> QED
    BY <2>1, <2>2
<1> QED
  BY <1>1, <1>2, InvariantHolds, PTL DEF Spec, ImplementsLifecycle, Lifecycle!Spec

=============================================================================
