------------------------ MODULE BrowserSessionProofs ------------------------
(***************************************************************************)
(* What holds of the tabs for every number of tabs, accounts and sessions.  *)
(*                                                                         *)
(* Two invariants per tab carry the properties.  As long as nothing crossed *)
(* a tab, what it shows and what its calls are about to tell it are the     *)
(* owner of the cookie.  As long as nothing at all disturbed it, they are   *)
(* whom the server takes the cookie for, and the hint says the same.        *)
(***************************************************************************)
EXTENDS BrowserSession, TLAPS

Calls == [kind : {"idle", "me", "login", "logout", "leave"}, phase : {"sent", "answered"},
          with : Tokens \cup {None}, as : Users \cup {None},
          answer : Users \cup Tokens \cup {None}]

Types == /\ TypeOK /\ probe \in [Tabs -> Calls] /\ handler \in [Tabs -> Calls]
         /\ \A t \in Tabs : /\ probe[t].kind = "idle" => probe[t] = Idle
                            /\ handler[t].kind = "idle" => handler[t] = Idle

(* A token that anybody holds was handed out.                               *)
HandedOut ==
    /\ cookie # None => owner[cookie] # None
    /\ \A t \in Tabs : handler[t].kind = "login" /\ handler[t].phase = "answered"
                       /\ handler[t].answer # None => owner[handler[t].answer] # None

LEMMA IdleCall ==
    /\ Idle \in Calls /\ Idle.kind = "idle"
    /\ \A kind \in {"me", "login", "logout", "leave"}, with \in Tokens \cup {None}, as \in Users \cup {None} :
         /\ Sent(kind, with, as) \in Calls
         /\ Sent(kind, with, as).kind = kind /\ Sent(kind, with, as).phase = "sent"
         /\ Sent(kind, with, as).with = with /\ Sent(kind, with, as).as = as
         /\ Sent(kind, with, as).answer = None
BY DEF Idle, Sent, Calls

LEMMA AnsweredCall ==
    ASSUME NEW c \in Calls, NEW a \in Users \cup Tokens \cup {None}
    PROVE  /\ Answered(c, a) \in Calls
           /\ Answered(c, a).kind = c.kind /\ Answered(c, a).phase = "answered"
           /\ Answered(c, a).with = c.with /\ Answered(c, a).as = c.as
           /\ Answered(c, a).answer = a
BY DEF Answered, Calls

LEMMA IdentityType ==
    ASSUME Types, NEW c \in Tokens \cup {None}
    PROVE  /\ Identity(c) \in Users \cup {None}
           /\ Identity(c) # None => c \in Tokens /\ Identity(c) = owner[c]
BY SessionAssumption DEF Types, TypeOK, Identity

(* A history keeps its type.                                                *)
LEMMA NoteType ==
    ASSUME Types, NEW t \in Tabs, NEW causes \in SUBSET Causes, Note(t, causes)
    PROVE  /\ disturbed' \in [Tabs -> SUBSET Causes]
           /\ disturbed'[t] = causes
           /\ \A x \in Tabs \ {t} : \/ "crossed" \in disturbed'[x]
                                    \/ Shared' = Shared /\ disturbed'[x] = disturbed[x]
BY DEF Types, TypeOK, Note, Causes

LEMMA HistoryKeeps ==
    ASSUME Types, NEW t \in Tabs
    PROVE  /\ Unheard(t) \in SUBSET Causes /\ Meanwhile(t) \in SUBSET Causes
           /\ Unheard(t) # {}
           /\ "crossed" \in Unheard(t) <=> "crossed" \in disturbed[t]
BY DEF Types, TypeOK, Causes, Unheard, Meanwhile

LEMMA InitTypes == Init => Types
<1> SUFFICES ASSUME Init PROVE Types
  OBVIOUS
<1>1. /\ Idle.phase = "sent" /\ Idle.with = None /\ Idle.as = None
      /\ Idle.kind = "idle" /\ Idle \in Calls
  BY IdleCall DEF Idle
<1>2. \A t \in Tabs : probe[t] = Idle /\ handler[t] = Idle
  BY DEF Init
<1>3. probe \in [Tabs -> Calls] /\ handler \in [Tabs -> Calls]
  BY <1>1 DEF Init
<1>4. TypeOK
  BY <1>1, <1>2 DEF Init, TypeOK
<1>5. QED
  BY <1>2, <1>3, <1>4 DEF Types

(* The calls of a tab that are replaced, and what is left of the types.     *)
AnswerTypes(c) == /\ c.kind = "me" => c.answer \in Users \cup {None}
                  /\ c.kind = "login" => c.answer \in Tokens \cup {None}
                  /\ c.kind = "idle" => c = Idle

CallTypes == /\ probe \in [Tabs -> Calls] /\ handler \in [Tabs -> Calls]
             /\ \A t \in Tabs : AnswerTypes(probe[t]) /\ AnswerTypes(handler[t])
             /\ \A t \in Tabs : probe[t].kind \in {"idle", "me"}

OtherTypes == /\ owner \in [Tokens -> Users \cup {None}] /\ live \subseteq Tokens
              /\ active \subseteq Users /\ cookie \in Tokens \cup {None} /\ hint \in BOOLEAN
              /\ user \in [Tabs -> Users \cup {None}] /\ loading \in [Tabs -> BOOLEAN]
              /\ disturbed \in [Tabs -> SUBSET Causes]

LEMMA TypesSplit == Types <=> CallTypes /\ OtherTypes
<1>1. Types => CallTypes /\ OtherTypes
  BY DEF Types, TypeOK, CallTypes, OtherTypes, AnswerTypes
<1>2. CallTypes /\ OtherTypes => Types
  BY DEF Types, TypeOK, CallTypes, OtherTypes, AnswerTypes, Calls
<1>3. QED
  BY <1>1, <1>2

LEMMA TypesSplitNext == Types' <=> CallTypes' /\ OtherTypes'
<1>1. Types <=> CallTypes /\ OtherTypes
  BY TypesSplit
<1>2. QED
  BY <1>1, PTL

LEMMA CallsReplaced ==
    ASSUME CallTypes, NEW t \in Tabs, NEW p \in Calls, NEW h \in Calls,
           p.kind \in {"idle", "me"}, AnswerTypes(p), AnswerTypes(h),
           probe' = [probe EXCEPT ![t] = p], handler' = [handler EXCEPT ![t] = h]
    PROVE  CallTypes'
<1>1. probe' \in [Tabs -> Calls] /\ handler' \in [Tabs -> Calls]
  BY DEF CallTypes
<1>2. \A x \in Tabs : probe'[x] \in {p, probe[x]} /\ handler'[x] \in {h, handler[x]}
  BY DEF CallTypes
<1>3. QED
  BY <1>1, <1>2 DEF CallTypes

LEMMA HandlerReplaced ==
    ASSUME CallTypes, NEW t \in Tabs, NEW h \in Calls, AnswerTypes(h),
           probe' = probe, handler' = [handler EXCEPT ![t] = h]
    PROVE  CallTypes'
<1>1. handler' \in [Tabs -> Calls] /\ \A x \in Tabs : handler'[x] \in {h, handler[x]}
  BY DEF CallTypes
<1>2. QED
  BY <1>1 DEF CallTypes

LEMMA ProbeReplaced ==
    ASSUME CallTypes, NEW t \in Tabs, NEW p \in Calls, AnswerTypes(p), p.kind \in {"idle", "me"},
           handler' = handler, probe' = [probe EXCEPT ![t] = p]
    PROVE  CallTypes'
<1>1. probe' \in [Tabs -> Calls] /\ \A x \in Tabs : probe'[x] \in {p, probe[x]}
  BY DEF CallTypes
<1>2. QED
  BY <1>1 DEF CallTypes

(* What a page load leaves.                                                 *)
LEMMA LoadedTypes ==
    ASSUME Types, NEW t \in Tabs, NEW hinted \in BOOLEAN, Loaded(t, hinted)
    PROVE  /\ CallTypes'
           /\ user' \in [Tabs -> Users \cup {None}] /\ loading' \in [Tabs -> BOOLEAN]
<1> DEFINE p == IF hinted THEN Sent("me", cookie, None) ELSE Idle
<1>1. /\ p \in Calls /\ Idle \in Calls /\ p.kind \in {"idle", "me"}
      /\ AnswerTypes(p) /\ AnswerTypes(Idle)
  <2>1. AnswerTypes(Idle)
    BY IdleCall, SessionAssumption DEF AnswerTypes, Idle
  <2>2. cookie \in Tokens \cup {None}
    BY TypesSplit DEF OtherTypes
  <2>3. CASE hinted
    BY IdleCall, <2>1, <2>2, <2>3 DEF AnswerTypes
  <2>4. CASE ~hinted
    BY IdleCall, <2>1, <2>4
  <2>5. QED
    BY <2>3, <2>4
<1>2. probe' = [probe EXCEPT ![t] = p] /\ handler' = [handler EXCEPT ![t] = Idle]
  BY DEF Loaded
<1> HIDE DEF p
<1>3. CallTypes
  BY TypesSplit
<1>4. CallTypes'
  BY <1>1, <1>2, <1>3, CallsReplaced
<1>5. QED
  BY <1>4, TypesSplit DEF Loaded, OtherTypes

LEMMA RefreshedTypes ==
    ASSUME Types, NEW t \in Tabs, NEW u \in Users \cup {None}, Refreshed(t, u), UNCHANGED server,
           disturbed' \in [Tabs -> SUBSET Causes]
    PROVE  OtherTypes'
BY TypesSplit DEF Refreshed, server, OtherTypes

LEMMA StepTypes == ASSUME Types, Next PROVE Types'
<1>0. CallTypes /\ OtherTypes
  BY TypesSplit
<1> USE DEF server, browser, tab
<1>1. ASSUME NEW t \in Tabs, Load(t) PROVE Types'
  <2> DEFINE causes == IF hint THEN {}
               ELSE IF handler[t].kind = "me" THEN Unheard(t) ELSE disturbed[t]
  <2>1. causes \in SUBSET Causes
    BY <1>0, HistoryKeeps DEF OtherTypes, Causes
  <2>2. disturbed' \in [Tabs -> SUBSET Causes]
    BY <1>1, <2>1, NoteType DEF Load
  <2>3. QED
    BY <1>0, <1>1, <2>2, LoadedTypes, TypesSplitNext DEF Load, OtherTypes
<1>2. ASSUME NEW t \in Tabs, NEW u \in Users, handleSubmit(t, u) PROVE Types'
  <2> DEFINE h == Sent("login", None, u)
  <2>1. h \in Calls /\ AnswerTypes(h)
    BY IdleCall DEF AnswerTypes
  <2>2. handler' = [handler EXCEPT ![t] = h] /\ probe' = probe
    BY <1>2 DEF handleSubmit
  <2> HIDE DEF h
  <2>3. CallTypes'
    BY <1>0, <2>1, <2>2, HandlerReplaced
  <2>4. OtherTypes'
    BY <1>0, <1>2 DEF handleSubmit, OtherTypes
  <2>5. QED
    BY <2>3, <2>4, TypesSplitNext
<1>3. ASSUME NEW t \in Tabs, logout(t) PROVE Types'
  <2> DEFINE h == Sent("logout", cookie, None)
  <2>1. h \in Calls /\ AnswerTypes(h)
    BY <1>0, IdleCall DEF OtherTypes, AnswerTypes
  <2>2. handler' = [handler EXCEPT ![t] = h] /\ probe' = probe
    BY <1>3 DEF logout
  <2> HIDE DEF h
  <2>3. CallTypes'
    BY <1>0, <2>1, <2>2, HandlerReplaced
  <2>4. OtherTypes'
    BY <1>0, <1>3 DEF logout, OtherTypes
  <2>5. QED
    BY <2>3, <2>4, TypesSplitNext
(* What ends a call leaves the tab without one, or with a refresh.          *)
<1>4. ASSUME NEW t \in Tabs, ProbeAnswered(t) \/ ProbeFails(t) PROVE Types'
  <2>1. PICK u \in Users \cup {None} : Refreshed(t, u)
    <3>1. CASE ProbeAnswered(t)
      <4>1. probe[t].kind = "me"
        BY <1>0, <3>1 DEF ProbeAnswered, CallTypes, AnswerTypes, Idle
      <4>2. QED
        BY <1>0, <3>1, <4>1 DEF ProbeAnswered, CallTypes, AnswerTypes
    <3>2. QED
      BY <1>4, <3>1 DEF ProbeFails
  <2>2. disturbed' \in [Tabs -> SUBSET Causes]
    <3>1. disturbed[t] \in SUBSET Causes /\ Unheard(t) \in SUBSET Causes
      BY <1>0, HistoryKeeps DEF OtherTypes
    <3>2. QED
      BY <1>4, <3>1, NoteType DEF ProbeAnswered, ProbeFails
  <2>3. OtherTypes'
    BY <1>4, <2>1, <2>2, RefreshedTypes DEF ProbeAnswered, ProbeFails
  <2>4. CallTypes'
    BY <1>0, <1>4, IdleCall, ProbeReplaced DEF ProbeAnswered, ProbeFails, AnswerTypes
  <2>5. QED
    BY <2>3, <2>4, TypesSplitNext
<1>5. ASSUME NEW t \in Tabs, LoginAnswered(t) PROVE Types'
  <2> DEFINE h == Sent("me", handler[t].answer, None)
             causes == Meanwhile(t)
  <2>1. handler[t].answer \in Tokens
    BY <1>0, <1>5 DEF LoginAnswered, CallTypes, AnswerTypes
  <2>2. h \in Calls /\ AnswerTypes(h) /\ causes \in SUBSET Causes
    BY <2>1, IdleCall, HistoryKeeps DEF AnswerTypes
  <2>3. handler' = [handler EXCEPT ![t] = h] /\ probe' = probe
    BY <1>5 DEF LoginAnswered
  <2>4. disturbed' \in [Tabs -> SUBSET Causes]
    BY <1>5, <2>2, NoteType DEF LoginAnswered
  <2> HIDE DEF h
  <2>5. CallTypes'
    BY <1>0, <2>2, <2>3, HandlerReplaced
  <2>6. OtherTypes'
    BY <1>0, <1>5, <2>1, <2>4 DEF LoginAnswered, OtherTypes
  <2>7. QED
    BY <2>5, <2>6, TypesSplitNext
<1>6. ASSUME NEW t \in Tabs, LoginFails(t) PROVE Types'
  <2>1. CallTypes'
    BY <1>0, <1>6, IdleCall, HandlerReplaced DEF LoginFails, AnswerTypes
  <2>2. disturbed' \in [Tabs -> SUBSET Causes]
    BY <1>0, <1>6, NoteType DEF LoginFails, OtherTypes, Causes
  <2>3. cookie' \in Tokens \cup {None}
    BY <1>0, <1>6 DEF LoginFails, OtherTypes, CallTypes, AnswerTypes
  <2>4. OtherTypes'
    BY <1>0, <1>6, <2>2, <2>3 DEF LoginFails, OtherTypes
  <2>5. QED
    BY <2>1, <2>4, TypesSplitNext
<1>7. ASSUME NEW t \in Tabs, RefreshAnswered(t) \/ RefreshFails(t) PROVE Types'
  <2>1. PICK u \in Users \cup {None} : Refreshed(t, u)
    BY <1>0, <1>7 DEF RefreshAnswered, RefreshFails, CallTypes, AnswerTypes
  <2>2. disturbed' \in [Tabs -> SUBSET Causes]
    <3>1. disturbed[t] \in SUBSET Causes /\ Unheard(t) \in SUBSET Causes
      BY <1>0, HistoryKeeps DEF OtherTypes
    <3>2. QED
      BY <1>7, <3>1, NoteType DEF RefreshAnswered, RefreshFails
  <2>3. OtherTypes'
    BY <1>7, <2>1, <2>2, RefreshedTypes DEF RefreshAnswered, RefreshFails
  <2>4. CallTypes'
    BY <1>0, <1>7, IdleCall, HandlerReplaced DEF RefreshAnswered, RefreshFails, AnswerTypes
  <2>5. QED
    BY <2>3, <2>4, TypesSplitNext
<1>8. ASSUME NEW t \in Tabs, LogoutAnswered(t) \/ LogoutFails(t) PROVE Types'
  <2> DEFINE h == Sent("leave", None, None)
  <2>1. /\ Meanwhile(t) \in SUBSET Causes
        /\ (IF probe[t] # Idle THEN {"crossed"} ELSE Unheard(t)) \in SUBSET Causes
    BY HistoryKeeps DEF Causes
  <2>2. disturbed' \in [Tabs -> SUBSET Causes]
    BY <1>8, <2>1, NoteType DEF LogoutAnswered, LogoutFails
  <2>3. h \in Calls /\ AnswerTypes(h)
    BY IdleCall DEF AnswerTypes
  <2>4. Forgotten(t) /\ cookie' \in {cookie, None}
    BY <1>8 DEF LogoutAnswered, LogoutFails
  <2>5. handler' = [handler EXCEPT ![t] = h] /\ probe' = probe
    BY <2>4 DEF Forgotten
  <2> HIDE DEF h
  <2>6. CallTypes'
    BY <1>0, <2>3, <2>5, HandlerReplaced
  <2>7. OtherTypes'
    BY <1>0, <2>2, <2>4 DEF Forgotten, OtherTypes
  <2>8. QED
    BY <2>6, <2>7, TypesSplitNext
(* The server answers calls with accounts or tokens.                        *)
<1>9. ASSUME NEW t \in Tabs, ServeProbe(t) \/ ServeRefresh(t) PROVE Types'
  <2>1. \A c \in Calls : Identity(c.with) \in Users \cup {None}
    BY IdentityType DEF Calls
  <2>2. OtherTypes'
    BY <1>0, <1>9 DEF ServeProbe, ServeRefresh, me, OtherTypes
  <2>3. CASE ServeProbe(t)
    <3> DEFINE p == Answered(probe[t], Identity(probe[t].with))
    <3>1. probe[t] \in Calls /\ probe[t].kind = "me" /\ Identity(probe[t].with) \in Users \cup {None}
      BY <1>0, <2>1, <2>3 DEF ServeProbe, me, CallTypes
    <3>2. p \in Calls /\ p.kind = "me" /\ AnswerTypes(p)
      BY <3>1, AnsweredCall DEF AnswerTypes
    <3>3. probe' = [probe EXCEPT ![t] = p] /\ handler' = handler
      BY <2>3 DEF ServeProbe
    <3> HIDE DEF p
    <3>4. CallTypes'
      BY <1>0, <3>2, <3>3, ProbeReplaced
    <3>5. QED
      BY <2>2, <3>4, TypesSplitNext
  <2>4. CASE ServeRefresh(t)
    <3> DEFINE h == Answered(handler[t], Identity(handler[t].with))
    <3>1. handler[t] \in Calls /\ handler[t].kind = "me"
          /\ Identity(handler[t].with) \in Users \cup {None}
      BY <1>0, <2>1, <2>4 DEF ServeRefresh, me, CallTypes
    <3>2. h \in Calls /\ AnswerTypes(h)
      BY <3>1, AnsweredCall DEF AnswerTypes
    <3>3. handler' = [handler EXCEPT ![t] = h] /\ probe' = probe
      BY <2>4 DEF ServeRefresh
    <3> HIDE DEF h
    <3>4. CallTypes'
      BY <1>0, <3>2, <3>3, HandlerReplaced
    <3>5. QED
      BY <2>2, <3>4, TypesSplitNext
  <2>5. QED
    BY <1>9, <2>3, <2>4
<1>10. ASSUME NEW t \in Tabs, login(t) PROVE Types'
  <2>1. PICK s \in Tokens : /\ owner' = [owner EXCEPT ![s] = handler[t].as]
                            /\ live' = live \cup {s}
                            /\ handler' = [handler EXCEPT ![t] = Answered(@, s)]
    BY <1>10 DEF login, Unused
  <2> DEFINE h == Answered(handler[t], s)
  <2>2. handler[t] \in Calls /\ handler[t].kind = "login" /\ handler[t].as \in Users
    BY <1>0, <1>10 DEF login, CallTypes, OtherTypes
  <2>3. h \in Calls /\ AnswerTypes(h)
    BY <2>2, AnsweredCall DEF AnswerTypes
  <2>4. handler' = [handler EXCEPT ![t] = h] /\ probe' = probe
    BY <1>10, <2>1 DEF login
  <2> HIDE DEF h
  <2>5. CallTypes'
    BY <1>0, <2>3, <2>4, HandlerReplaced
  <2>6. OtherTypes'
    BY <1>0, <1>10, <2>1, <2>2 DEF login, OtherTypes
  <2>7. QED
    BY <2>5, <2>6, TypesSplitNext
<1>11. ASSUME NEW t \in Tabs, ServeLogout(t) PROVE Types'
  <2> DEFINE h == Answered(handler[t], None)
  <2>1. handler[t] \in Calls /\ handler[t].kind = "logout"
    BY <1>0, <1>11 DEF ServeLogout, CallTypes
  <2>2. h \in Calls /\ AnswerTypes(h)
    BY <2>1, AnsweredCall DEF AnswerTypes
  <2>3. handler' = [handler EXCEPT ![t] = h] /\ probe' = probe
    BY <1>11 DEF ServeLogout
  <2>4. disturbed[t] \in SUBSET Causes
    BY <1>0 DEF OtherTypes
  <2>5. disturbed' \in [Tabs -> SUBSET Causes]
    BY <1>11, <2>4, NoteType DEF ServeLogout
  <2> HIDE DEF h
  <2>6. CallTypes'
    BY <1>0, <2>2, <2>3, HandlerReplaced
  <2>7. OtherTypes'
    BY <1>0, <1>11, <2>5 DEF ServeLogout, OtherTypes
  <2>8. QED
    BY <2>6, <2>7, TypesSplitNext
<1>12. ASSUME NEW s \in Tokens, Expire(s) PROVE Types'
  BY <1>0, <1>12, HistoryKeeps, TypesSplitNext DEF Expire, Unannounced, CallTypes, OtherTypes
<1>13. ASSUME NEW u \in Watched, SetActive(u) PROVE Types'
  BY <1>0, <1>13, HistoryKeeps, TypesSplitNext, SessionAssumption
     DEF SetActive, Unannounced, CallTypes, OtherTypes
<1>14. QED
  BY <1>1, <1>2, <1>3, <1>4, <1>5, <1>6, <1>7, <1>8, <1>9, <1>10, <1>11, <1>12, <1>13
     DEF Next, Person, Server, ProbeEnds, HandlerGoesOn

(* Every reachable state is well typed; what me answers is an account and   *)
(* what login answers a token (api/routers/auth.py).                        *)
THEOREM Typed == Spec => []TypeOK
<1>1. Types /\ [Next]_vars => Types'
  <2> SUFFICES ASSUME Types, [Next]_vars PROVE Types'
    OBVIOUS
  <2>1. CASE UNCHANGED vars
    BY <2>1 DEF vars, Types, TypeOK
  <2>2. QED
    BY <2>1, StepTypes
<1>2. Types => TypeOK
  BY DEF Types
<1>3. QED
  BY InitTypes, <1>1, <1>2, PTL DEF Spec

----------------------------------------------------------------------------
(* Signing out *)

(* What becomes of a logout: the server's answer, a page that forgot the    *)
(* person and is about to leave, or the page that is loaded in its place.   *)
SignedOut(t) ==
    \/ handler'[t] = Answered(handler[t], None)
    \/ handler'[t].kind = "leave" /\ user'[t] = None /\ ~hint'
    \/ /\ handler'[t] = Idle /\ user'[t] = None
       /\ probe'[t] = IF hint THEN Sent("me", cookie, None) ELSE Idle

(* AuthProvider.logout forgets the person whatever becomes of its call, and *)
(* a probe that is answered before the page is left does so for nothing.    *)
THEOREM SignsOut == Spec => SignOutSignsOut
<1>1. ASSUME Types, [Next]_vars, NEW t \in Tabs, handler[t].kind \in {"logout", "leave"},
             handler'[t] # handler[t]
      PROVE  SignedOut(t)
  <2>0. handler \in [Tabs -> Calls] /\ probe \in [Tabs -> Calls] /\ user \in [Tabs -> Users \cup {None}]
        /\ Idle.kind = "idle"
    BY <1>1, IdleCall DEF Types, TypeOK
  <2>1. PICK x \in Tabs : Person(x) \/ Server(x) \/ HandlerGoesOn(x)
    BY <1>1 DEF Next, vars, ProbeEnds, ProbeAnswered, ProbeFails, Expire, SetActive, Unannounced
  <2>2. CASE x # t
    BY <1>1, <2>0, <2>1, <2>2 DEF Person, Server, HandlerGoesOn, Load, Loaded, handleSubmit, logout,
       ServeProbe, ServeRefresh, login, ServeLogout, LoginAnswered, LoginFails, RefreshAnswered,
       RefreshFails, LogoutAnswered, LogoutFails, Forgotten
  <2>3. CASE x = t
    <3>1. Load(t) \/ ServeLogout(t) \/ LogoutAnswered(t) \/ LogoutFails(t)
      BY <1>1, <2>0, <2>1, <2>3 DEF Person, Server, HandlerGoesOn, handleSubmit, logout, ServeProbe,
         ServeRefresh, me, login, LoginAnswered, LoginFails, RefreshAnswered, RefreshFails
    <3>2. CASE ServeLogout(t)
      BY <2>0, <3>2 DEF ServeLogout, SignedOut
    <3>3. CASE LogoutAnswered(t) \/ LogoutFails(t)
      <4>1. Sent("leave", None, None).kind = "leave"
        BY DEF Sent
      <4>2. QED
        BY <2>0, <3>3, <4>1 DEF LogoutAnswered, LogoutFails, Forgotten, SignedOut
    <3>4. CASE Load(t)
      BY <2>0, <3>4 DEF Load, Loaded, SignedOut
    <3>5. QED
      BY <3>1, <3>2, <3>3, <3>4
  <2>4. QED
    BY <2>2, <2>3
<1>2. Types /\ [Next]_vars =>
        [\A t \in Tabs : handler[t].kind \in {"logout", "leave"} /\ handler'[t] # handler[t] =>
            \/ handler'[t] = Answered(handler[t], None)
            \/ handler'[t].kind = "leave" /\ user'[t] = None /\ ~hint'
            \/ /\ handler'[t] = Idle /\ user'[t] = None
               /\ probe'[t] = IF hint THEN Sent("me", cookie, None) ELSE Idle]_vars
  BY <1>1 DEF SignedOut
<1>3. Types /\ [Next]_vars => Types'
  BY StepTypes DEF vars, Types, TypeOK
<1>4. QED
  BY InitTypes, <1>2, <1>3, PTL DEF Spec, SignOutSignsOut

----------------------------------------------------------------------------
(* What a tab shows *)

Owners == /\ \A s \in Tokens : owner[s] # None => owner'[s] = owner[s]
          /\ HandedOut'

(* A token stays with the account it was handed out to, and a cookie is a   *)
(* token that was handed out.                                               *)
LEMMA OwnersStay == ASSUME Types, HandedOut, [Next]_vars PROVE Owners
<1> USE DEF Owners, HandedOut
<1>0. /\ handler \in [Tabs -> Calls] /\ owner \in [Tokens -> Users \cup {None}]
      /\ cookie \in Tokens \cup {None} /\ active \subseteq Users
      /\ \A t \in Tabs : handler[t].kind = "login" => handler[t].answer \in Tokens \cup {None}
      /\ Idle.kind = "idle"
  BY IdleCall DEF Types, TypeOK
<1>1. CASE UNCHANGED <<owner, cookie, handler>>
  BY <1>1
<1>2. ASSUME NEW t \in Tabs, NEW u \in Users, handleSubmit(t, u) PROVE Owners
  <2>1. Sent("login", None, u).answer = None
    BY IdleCall
  <2>2. QED
    BY <1>0, <1>2, <2>1 DEF handleSubmit, server, browser
<1>3. ASSUME NEW t \in Tabs,
             \/ Load(t) \/ logout(t) \/ LoginFails(t)
             \/ RefreshAnswered(t) \/ RefreshFails(t) \/ LogoutAnswered(t) \/ LogoutFails(t)
      PROVE  Owners
  <2>1. /\ owner' = owner
        /\ cookie' # None => owner[cookie'] # None
        /\ cookie' \in Tokens \cup {None}
        /\ \A x \in Tabs : handler'[x] = handler[x] \/ handler'[x].kind # "login"
    <3>1. CASE logout(t)
      <4>1. Sent("logout", cookie, None).kind = "logout"
        BY DEF Sent
      <4>2. QED
        BY <1>0, <3>1, <4>1 DEF logout, server, browser
    <3>2. CASE LogoutAnswered(t) \/ LogoutFails(t)
      <4>1. Sent("leave", None, None).kind = "leave"
        BY DEF Sent
      <4>2. QED
        BY <1>0, <3>2, <4>1 DEF LogoutAnswered, LogoutFails, Forgotten, server
    <3>3. CASE LoginFails(t)
      BY <1>0, <3>3 DEF LoginFails, server
    <3>4. CASE Load(t) \/ RefreshAnswered(t) \/ RefreshFails(t)
      BY <1>0, <3>4 DEF Load, Loaded, RefreshAnswered, RefreshFails, Refreshed, server, browser
    <3>5. QED
      BY <1>3, <3>1, <3>2, <3>3, <3>4
  <2>2. ASSUME NEW x \in Tabs, handler'[x].kind = "login", handler'[x].phase = "answered",
               handler'[x].answer # None
        PROVE  owner'[handler'[x].answer] # None
    BY <2>1, <2>2
  <2>3. QED
    BY <2>1, <2>2
<1>4. ASSUME NEW t \in Tabs, LoginAnswered(t) PROVE Owners
  <2>1. /\ owner' = owner /\ cookie' = handler[t].answer /\ owner[cookie'] # None
        /\ \A x \in Tabs : handler'[x] = handler[x] \/ handler'[x].kind # "login"
    BY <1>0, <1>4, IdleCall DEF LoginAnswered, server
  <2>2. QED
    BY <1>0, <2>1
<1>5. ASSUME NEW t \in Tabs, ServeRefresh(t) \/ ServeLogout(t) PROVE Owners
  <2>1. /\ owner' = owner /\ cookie' = cookie
        /\ \A x \in Tabs : handler'[x] = handler[x] \/ handler'[x].kind # "login"
    <3>1. \A c \in Calls : /\ Answered(c, Identity(c.with)).kind = c.kind
                          /\ Answered(c, None).kind = c.kind
      BY DEF Answered, Calls
    <3>2. QED
      BY <1>0, <1>5, <3>1 DEF ServeRefresh, ServeLogout, me, server, browser
  <2>2. QED
    BY <1>0, <2>1
<1>6. ASSUME NEW t \in Tabs, login(t) PROVE Owners
  <2>1. PICK s \in Tokens : /\ owner[s] = None /\ owner' = [owner EXCEPT ![s] = handler[t].as]
                            /\ handler' = [handler EXCEPT ![t] = Answered(@, s)]
    BY <1>6 DEF login, Unused
  <2>2. cookie' = cookie /\ handler[t].as \in Users /\ handler[t].as # None
    BY <1>0, <1>6, SessionAssumption DEF login, browser
  <2>3. Answered(handler[t], s).answer = s
    BY <1>0, AnsweredCall
  <2>4. QED
    BY <1>0, <2>1, <2>2, <2>3
<1>7. QED
  BY <1>1, <1>2, <1>3, <1>4, <1>5, <1>6 DEF Next, Person, Server, ProbeEnds, HandlerGoesOn, vars,
     ProbeAnswered, ProbeFails, ServeProbe, me, Refreshed, Expire, SetActive, Unannounced, server,
     browser

(* A tab that nothing crossed.                                              *)
Promises(c) == c.kind = "me" =>
    /\ c.with = cookie
    /\ c.phase = "answered" /\ c.answer # None => cookie # None /\ c.answer = owner[cookie]

Uncrossed(t) == "crossed" \notin disturbed[t] =>
    /\ handler[t].kind # "me" /\ user[t] # None => cookie # None /\ user[t] = owner[cookie]
    /\ Promises(probe[t]) /\ Promises(handler[t])

(* A tab that nothing disturbed.                                            *)
Tells(c) == c.kind = "me" =>
    /\ c.with = cookie
    /\ c.phase = "answered" => c.answer = Identity(cookie)

SignedOff(t) == handler[t].kind = "logout" /\ handler[t].phase = "answered"

Undisturbed(t) == disturbed[t] = {} =>
    /\ Tells(probe[t]) /\ Tells(handler[t])
    /\ probe[t] # Idle => hint /\ loading[t] /\ handler[t].kind \notin {"me", "logout", "leave"}
    /\ handler[t].kind = "logout" => handler[t].with = cookie
    /\ SignedOff(t) => Identity(cookie) = None
    /\ probe[t] = Idle /\ handler[t].kind # "me" =>
         /\ hint <=> user[t] # None
         /\ ~SignedOff(t) => user[t] = Identity(cookie)

SInv == Types /\ HandedOut /\ \A t \in Tabs : Uncrossed(t) /\ Undisturbed(t)

(* A tab sees of the steps of others what its history says.                 *)
Apart(x) ==
    /\ UNCHANGED <<user[x], loading[x], probe[x], handler[x]>>
    /\ \/ "crossed" \in disturbed'[x]
       \/ Shared' = Shared /\ disturbed'[x] = disturbed[x]
       \/ cookie' = cookie /\ disturbed'[x] = Unheard(x)

LEMMA ApartKeeps ==
    ASSUME SInv, Owners, NEW x \in Tabs, Apart(x)
    PROVE  Uncrossed(x)' /\ Undisturbed(x)'
<1>1. Uncrossed(x)'
  <2> SUFFICES ASSUME "crossed" \notin disturbed'[x]
               PROVE  Uncrossed(x)'
    BY DEF Uncrossed
  <2>1. cookie' = cookie /\ "crossed" \notin disturbed[x]
    BY HistoryKeeps DEF Apart, Shared, SInv
  <2>2. cookie # None => owner'[cookie] = owner[cookie]
    BY DEF SInv, HandedOut, Owners, Types, TypeOK
  <2>3. QED
    BY <2>1, <2>2 DEF SInv, Uncrossed, Promises, Apart
<1>2. Undisturbed(x)'
  <2> SUFFICES ASSUME disturbed'[x] = {}
               PROVE  Undisturbed(x)'
    BY DEF Undisturbed
  <2>1. /\ cookie' = cookie /\ Identity(cookie)' = Identity(cookie) /\ hint' = hint
        /\ disturbed[x] = {}
    BY HistoryKeeps DEF Apart, Shared, SInv
  <2>2. QED
    BY <2>1 DEF SInv, Undisturbed, Tells, SignedOff, Apart
<1>3. QED
  BY <1>1, <1>2

LEMMA NoteSays ==
    ASSUME NEW t \in Tabs, NEW causes, Note(t, causes)
    PROVE  /\ disturbed'[t] = causes
           /\ \A x \in Tabs \ {t} : \/ "crossed" \in disturbed'[x]
                                    \/ Shared' = Shared /\ disturbed'[x] = disturbed[x]
BY DEF Note

(* A login hands out a token nobody has, so it changes no cookie's meaning. *)
LEMMA LoginIsApart ==
    ASSUME SInv, NEW t \in Tabs, login(t)
    PROVE  Shared' = Shared
<1>1. PICK s \in Tokens : owner[s] = None /\ owner' = [owner EXCEPT ![s] = handler[t].as]
                          /\ live' = live \cup {s}
  BY DEF login, Unused
<1>2. cookie # s /\ cookie' = cookie /\ hint' = hint /\ active' = active
  BY <1>1, SessionAssumption DEF login, browser, SInv, HandedOut
<1>3. cookie \in live' <=> cookie \in live
  BY <1>1, <1>2
<1>4. cookie \in live => owner'[cookie] = owner[cookie]
  BY <1>1, <1>2 DEF SInv, Types, TypeOK
<1>5. Identity(cookie)' = Identity(cookie)
  BY <1>2, <1>3, <1>4 DEF Identity
<1>6. QED
  BY <1>2, <1>5 DEF Shared

LEMMA OthersApart ==
    ASSUME SInv, NEW t \in Tabs, NEW x \in Tabs, x # t,
           Person(t) \/ Server(t) \/ ProbeEnds(t) \/ HandlerGoesOn(t)
    PROVE  Apart(x)
<1>0. /\ probe \in [Tabs -> Calls] /\ handler \in [Tabs -> Calls]
      /\ user \in [Tabs -> Users \cup {None}] /\ loading \in [Tabs -> BOOLEAN]
  BY DEF SInv, Types, TypeOK
<1>1. UNCHANGED <<user[x], loading[x], probe[x], handler[x]>>
  BY <1>0 DEF Person, Server, ProbeEnds, HandlerGoesOn, Load, Loaded, handleSubmit, logout, ServeProbe,
     ServeRefresh, login, ServeLogout, ProbeAnswered, ProbeFails, LoginAnswered, LoginFails,
     RefreshAnswered, RefreshFails, LogoutAnswered, LogoutFails, Forgotten, Refreshed, tab
<1>2. CASE \/ \E u \in Users : handleSubmit(t, u)
           \/ logout(t) \/ (LoginFails(t) /\ UNCHANGED <<cookie, disturbed>>) \/ ServeProbe(t) \/ ServeRefresh(t)
  BY <1>1, <1>2 DEF handleSubmit, logout, LoginFails, ServeProbe, ServeRefresh, me, server, browser,
     Shared, Identity, Apart
<1>3. CASE login(t)
  BY <1>1, <1>3, LoginIsApart DEF login, Apart
<1>4. CASE \E causes : Note(t, causes)
  BY <1>1, <1>4, NoteSays DEF Apart
<1>5. QED
  BY <1>2, <1>3, <1>4 DEF Person, Server, ProbeEnds, HandlerGoesOn, Load, ServeLogout, ProbeAnswered,
     ProbeFails, LoginAnswered, LoginFails, RefreshAnswered, RefreshFails, LogoutAnswered, LogoutFails

LEMMA UnannouncedApart ==
    ASSUME SInv, Unannounced, NEW x \in Tabs
    PROVE  Apart(x)
BY HistoryKeeps DEF Unannounced, browser, tab, Apart

----------------------------------------------------------------------------
(* The tab that acts *)

(* A page load forgets, and asks with the cookie there is.                  *)
LEMMA LoadKeeps ==
    ASSUME SInv, Owners, NEW t \in Tabs, Load(t)
    PROVE  Uncrossed(t)' /\ Undisturbed(t)'
<1> DEFINE p == IF hint THEN Sent("me", cookie, None) ELSE Idle
<1>0. /\ probe \in [Tabs -> Calls] /\ handler \in [Tabs -> Calls] /\ hint \in BOOLEAN
      /\ user \in [Tabs -> Users \cup {None}] /\ loading \in [Tabs -> BOOLEAN]
      /\ cookie \in Tokens \cup {None}
  BY DEF SInv, Types, TypeOK
<1>1. /\ user'[t] = None /\ loading'[t] = hint /\ handler'[t] = Idle /\ probe'[t] = p
      /\ cookie' = cookie /\ hint' = hint /\ Identity(cookie)' = Identity(cookie)
  BY <1>0 DEF Load, Loaded, server, browser, Identity
<1>2. /\ p.kind = "me" => hint /\ p.with = cookie /\ p.phase = "sent"
      /\ ~hint <=> p = Idle
      /\ Idle.kind = "idle"
  BY <1>0, IdleCall
<1>3. hint => disturbed'[t] = {}
  BY NoteSays DEF Load
<1>4. ~hint /\ disturbed'[t] = {} => disturbed[t] = {} /\ handler[t].kind # "me"
  BY NoteSays, HistoryKeeps DEF Load, SInv
<1> HIDE DEF p
<1>5. Uncrossed(t)'
  BY <1>1, <1>2 DEF Uncrossed, Promises
<1>6. ~hint /\ disturbed'[t] = {} => Identity(cookie) = None
  BY <1>4 DEF SInv, Undisturbed
<1>7. Undisturbed(t)'
  BY <1>1, <1>2, <1>6 DEF Undisturbed, Tells, SignedOff
<1>8. QED
  BY <1>5, <1>7

(* What a tab is told by a refresh, and what the failure of one leaves.     *)
LEMMA RefreshKeeps ==
    ASSUME SInv, Owners, NEW t \in Tabs,
           ProbeAnswered(t) \/ ProbeFails(t) \/ RefreshAnswered(t) \/ RefreshFails(t)
    PROVE  Uncrossed(t)' /\ Undisturbed(t)'
<1>0. /\ probe \in [Tabs -> Calls] /\ handler \in [Tabs -> Calls]
      /\ user \in [Tabs -> Users \cup {None}] /\ loading \in [Tabs -> BOOLEAN]
      /\ Idle.kind = "idle" /\ Idle.phase = "sent"
      /\ probe[t].kind \in {"idle", "me"} /\ (probe[t].kind = "idle" => probe[t] = Idle)
  BY IdleCall DEF SInv, Types, TypeOK, Idle
<1>1. owner' = owner /\ cookie' = cookie /\ Identity(cookie)' = Identity(cookie)
  BY DEF ProbeAnswered, ProbeFails, RefreshAnswered, RefreshFails, Refreshed, server, Identity
<1>2. CASE ProbeAnswered(t)
  <2>1. /\ user'[t] = probe[t].answer /\ hint' = (probe[t].answer # None)
        /\ probe'[t] = Idle /\ handler'[t] = handler[t] /\ disturbed'[t] = disturbed[t]
        /\ probe[t].kind = "me" /\ probe[t].phase = "answered" /\ probe[t] # Idle
    BY <1>0, <1>2, NoteSays DEF ProbeAnswered, Refreshed
  <2>2. QED
    BY <1>0, <1>1, <2>1 DEF SInv, Uncrossed, Promises, Undisturbed, Tells, SignedOff
<1>3. CASE RefreshAnswered(t)
  <2>1. /\ user'[t] = handler[t].answer /\ hint' = (handler[t].answer # None)
        /\ handler'[t] = Idle /\ probe'[t] = probe[t] /\ disturbed'[t] = disturbed[t]
        /\ handler[t].kind = "me" /\ handler[t].phase = "answered"
    BY <1>0, <1>3, NoteSays DEF RefreshAnswered, Refreshed
  <2>2. QED
    BY <1>0, <1>1, <2>1 DEF SInv, Uncrossed, Promises, Undisturbed, Tells, SignedOff
<1>4. CASE ProbeFails(t) \/ RefreshFails(t)
  <2>1. /\ user'[t] = None /\ disturbed'[t] = Unheard(t)
        /\ probe'[t] \in {Idle, probe[t]} /\ handler'[t] \in {Idle, handler[t]}
    BY <1>0, <1>4, NoteSays DEF ProbeFails, RefreshFails, Refreshed
  <2>2. disturbed'[t] # {} /\ ("crossed" \in disturbed'[t] <=> "crossed" \in disturbed[t])
    BY <2>1, HistoryKeeps DEF SInv
  <2>3. QED
    BY <1>0, <1>1, <2>1, <2>2 DEF SInv, Uncrossed, Promises, Undisturbed
<1>5. QED
  BY <1>2, <1>3, <1>4

(* The handlers of the forms and buttons.                                   *)
LEMMA HandlerKeeps ==
    ASSUME SInv, Owners, NEW t \in Tabs,
           \/ \E u \in Users : handleSubmit(t, u)
           \/ logout(t) \/ LoginAnswered(t) \/ LoginFails(t) \/ LogoutAnswered(t) \/ LogoutFails(t)
    PROVE  Uncrossed(t)' /\ Undisturbed(t)'
<1>0. /\ probe \in [Tabs -> Calls] /\ handler \in [Tabs -> Calls]
      /\ user \in [Tabs -> Users \cup {None}] /\ loading \in [Tabs -> BOOLEAN]
      /\ cookie \in Tokens \cup {None} /\ live \subseteq Tokens
      /\ Idle.kind = "idle"
  BY IdleCall DEF SInv, Types, TypeOK
<1>1. CASE \/ logout(t) \/ \E u \in Users : handleSubmit(t, u)
           \/ LoginFails(t) /\ UNCHANGED <<cookie, disturbed>>
  <2>1. /\ UNCHANGED <<owner, live, active, cookie, hint, user, loading, probe, disturbed>>
        /\ Identity(cookie)' = Identity(cookie)
    BY <1>1 DEF logout, LoginFails, handleSubmit, server, browser, tab, Identity
  <2>2. CASE logout(t)
    <3>1. /\ handler'[t].kind = "logout" /\ handler'[t].with = cookie /\ handler'[t].phase = "sent"
          /\ handler[t] = Idle /\ ~loading[t]
      BY <1>0, <2>2 DEF logout, Sent
    <3>2. Uncrossed(t)'
      BY <1>0, <2>1, <3>1 DEF SInv, Uncrossed, Promises
    <3>3. Undisturbed(t)'
      BY <1>0, <2>1, <3>1 DEF SInv, Undisturbed, Tells, SignedOff
    <3>4. QED
      BY <3>2, <3>3
  <2>3. CASE LoginFails(t) \/ \E u \in Users : handleSubmit(t, u)
    <3>1. handler'[t].kind \in {"idle", "login"} /\ handler[t].kind \in {"idle", "login"}
      BY <1>0, <2>3 DEF LoginFails, handleSubmit, Sent
    <3>2. Uncrossed(t)'
      BY <1>0, <2>1, <3>1 DEF SInv, Uncrossed, Promises
    <3>3. Undisturbed(t)'
      BY <1>0, <2>1, <3>1 DEF SInv, Undisturbed, Tells, SignedOff
    <3>4. QED
      BY <3>2, <3>3
  <2>4. QED
    BY <1>1, <2>2, <2>3
<1>2. CASE LoginFails(t) /\ ~UNCHANGED <<cookie, disturbed>>
  <2>1. "crossed" \in disturbed'[t]
    BY <1>2, NoteSays DEF LoginFails
  <2>2. QED
    BY <2>1 DEF Uncrossed, Undisturbed
<1>3. CASE LoginAnswered(t)
  <2>1. handler[t].answer \in Tokens /\ handler[t].answer # None
    BY <1>3 DEF LoginAnswered, SInv, Types, TypeOK
  <2>2. /\ cookie' = handler[t].answer /\ owner' = owner
        /\ handler'[t] = Sent("me", handler[t].answer, None)
        /\ probe'[t] = probe[t]
        /\ disturbed'[t] = (IF probe[t] # Idle THEN {"crossed"} ELSE {})
    BY <1>0, <1>3, NoteSays DEF LoginAnswered, server, Meanwhile
  <2>3. handler'[t].kind = "me" /\ handler'[t].with = cookie' /\ handler'[t].phase = "sent"
    BY <2>1, <2>2, IdleCall
  <2>4. probe[t] # Idle => "crossed" \in disturbed'[t]
    BY <2>2
  <2>5. QED
    BY <1>0, <2>2, <2>3, <2>4 DEF Uncrossed, Promises, Undisturbed, Tells, SignedOff
<1>4. CASE LogoutAnswered(t) \/ LogoutFails(t)
  <2>1. /\ user'[t] = None /\ probe'[t] = probe[t] /\ hint' = FALSE /\ handler'[t].kind = "leave"
        /\ UNCHANGED <<owner, live, active>>
    <3>1. Sent("leave", None, None).kind = "leave"
      BY DEF Sent
    <3>2. QED
      BY <1>0, <1>4, <3>1 DEF LogoutAnswered, LogoutFails, Forgotten, server
  <2>2. /\ probe[t] # Idle => "crossed" \in disturbed'[t]
        /\ disturbed'[t] = {} => cookie' = None
    BY <1>4, NoteSays, HistoryKeeps DEF LogoutAnswered, LogoutFails, Meanwhile, SInv
  <2>3. cookie' = None => Identity(cookie)' = None
    BY <1>0, <2>1, SessionAssumption DEF Identity
  <2>4. Uncrossed(t)'
    BY <1>0, <2>1, <2>2 DEF Uncrossed, Promises
  <2>5. Undisturbed(t)'
    BY <1>0, <2>1, <2>2, <2>3 DEF Undisturbed, Tells, SignedOff
  <2>6. QED
    BY <2>4, <2>5
<1>5. QED
  BY <1>1, <1>2, <1>3, <1>4

(* The server answers for the cookie that came with the call.               *)
LEMMA ServerKeeps ==
    ASSUME SInv, Owners, NEW t \in Tabs, Server(t)
    PROVE  Uncrossed(t)' /\ Undisturbed(t)'
<1>0. /\ probe \in [Tabs -> Calls] /\ handler \in [Tabs -> Calls]
      /\ owner \in [Tokens -> Users \cup {None}] /\ cookie \in Tokens \cup {None}
      /\ live \subseteq Tokens /\ Idle.kind = "idle"
  BY IdleCall DEF SInv, Types, TypeOK
<1>a. Types
  BY DEF SInv
<1>1. CASE ServeProbe(t) \/ ServeRefresh(t)
  <2>1. /\ UNCHANGED <<owner, live, active, cookie, hint, user, loading, disturbed>>
        /\ Identity(cookie)' = Identity(cookie)
    BY <1>1 DEF ServeProbe, ServeRefresh, me, server, browser, tab, Identity
  <2>2. ASSUME NEW c \in Calls, c.kind = "me", NEW d, d = Answered(c, Identity(c.with))
        PROVE  /\ d.kind = "me" /\ d.with = c.with /\ d # Idle
               /\ (c.with = cookie => Tells(d) /\ Promises(d))
    <3>1. c.with \in Tokens \cup {None}
      BY DEF Calls
    <3>2. Identity(c.with) \in Users \cup {None}
          /\ (Identity(c.with) # None => c.with \in Tokens /\ Identity(c.with) = owner[c.with])
      BY <1>a, <3>1, IdentityType
    <3>3. d.kind = "me" /\ d.with = c.with /\ d.answer = Identity(c.with)
      BY <2>2, <3>2, AnsweredCall
    <3>4. QED
      BY <1>0, <2>2, <3>2, <3>3, SessionAssumption DEF Tells, Promises
  <2>3. CASE ServeProbe(t)
    <3>1. probe[t].kind = "me" /\ handler'[t] = handler[t] /\ probe[t] # Idle
          /\ probe'[t] = Answered(probe[t], Identity(probe[t].with))
      BY <1>0, <2>3 DEF ServeProbe, me
    <3>2. /\ probe'[t].kind = "me" /\ probe'[t] # Idle
          /\ probe[t].with = cookie => Tells(probe'[t]) /\ Promises(probe'[t])
      BY <1>0, <2>2, <3>1
    <3>3. QED
      BY <2>1, <3>1, <3>2 DEF SInv, Uncrossed, Promises, Undisturbed, Tells, SignedOff
  <2>4. CASE ServeRefresh(t)
    <3>1. handler[t].kind = "me" /\ probe'[t] = probe[t]
          /\ handler'[t] = Answered(handler[t], Identity(handler[t].with))
      BY <1>0, <2>4 DEF ServeRefresh, me
    <3>2. /\ handler'[t].kind = "me"
          /\ handler[t].with = cookie => Tells(handler'[t]) /\ Promises(handler'[t])
      BY <1>0, <2>2, <3>1
    <3>3. QED
      BY <2>1, <3>1, <3>2 DEF SInv, Uncrossed, Promises, Undisturbed, Tells, SignedOff
  <2>5. QED
    BY <1>1, <2>3, <2>4
<1>2. CASE login(t)
  <2>1. Identity(cookie)' = Identity(cookie)
    BY <1>2, LoginIsApart DEF Shared
  <2>2. UNCHANGED <<cookie, hint, user, loading, probe, disturbed>>
    BY <1>2 DEF login, browser, tab
  <2>3. handler[t].kind = "login" /\ handler'[t].kind = "login"
    BY <1>0, <1>2, AnsweredCall DEF login, Unused
  <2>4. cookie # None => owner'[cookie] = owner[cookie]
    BY <1>0 DEF SInv, HandedOut, Owners
  <2>5. Uncrossed(t)'
    BY <2>2, <2>3, <2>4 DEF SInv, Uncrossed, Promises
  <2>6. Undisturbed(t)'
    BY <2>1, <2>2, <2>3 DEF SInv, Undisturbed, Tells, SignedOff
  <2>7. QED
    BY <2>5, <2>6
<1>3. CASE ServeLogout(t)
  <2>1. /\ UNCHANGED <<owner, cookie, hint, user, loading, probe>>
        /\ disturbed'[t] = disturbed[t] /\ live' = live \ {handler[t].with} /\ active' = active
        /\ handler[t].kind = "logout" /\ handler[t].phase = "sent"
        /\ handler'[t] = Answered(handler[t], None)
    BY <1>0, <1>3, NoteSays DEF ServeLogout, browser, tab
  <2>2. /\ handler'[t].kind = "logout" /\ handler'[t].with = handler[t].with
        /\ handler'[t].phase = "answered"
    BY <1>0, <2>1, AnsweredCall
  <2>3. handler[t].with = cookie => Identity(cookie)' = None
    BY <2>1 DEF Identity
  <2>4. Uncrossed(t)'
    BY <2>1, <2>2 DEF SInv, Uncrossed, Promises
  <2>5. Undisturbed(t)'
    BY <1>0, <2>1, <2>2, <2>3 DEF SInv, Undisturbed, Tells, SignedOff
  <2>6. QED
    BY <2>4, <2>5
<1>4. QED
  BY <1>1, <1>2, <1>3 DEF Server

----------------------------------------------------------------------------
(* The properties *)

LEMMA SInvInit == Init => SInv
<1> SUFFICES ASSUME Init PROVE SInv
  OBVIOUS
<1>1. Types
  BY InitTypes
<1>2. HandedOut
  BY IdleCall DEF Init, HandedOut
<1>3. ASSUME NEW t \in Tabs PROVE Uncrossed(t) /\ Undisturbed(t)
  <2>1. /\ probe[t] = Idle /\ handler[t] = Idle /\ user[t] = None /\ hint = FALSE
        /\ Idle.kind = "idle" /\ Identity(cookie) = None
    BY IdleCall DEF Init, Identity
  <2>2. QED
    BY <2>1 DEF Uncrossed, Promises, Undisturbed, Tells, SignedOff
<1>4. QED
  BY <1>1, <1>2, <1>3 DEF SInv

LEMMA SInvStep == SInv /\ [Next]_vars => SInv'
<1> SUFFICES ASSUME SInv, [Next]_vars PROVE SInv'
  OBVIOUS
<1>1. Types'
  BY StepTypes DEF SInv, vars, Types, TypeOK
<1>2. Owners
  BY OwnersStay DEF SInv
<1>3. ASSUME NEW x \in Tabs PROVE Uncrossed(x)' /\ Undisturbed(x)'
  <2>1. CASE UNCHANGED vars
    <3>1. Apart(x)
      BY <2>1 DEF vars, Apart, Shared, Identity
    <3>2. QED
      BY <1>2, <3>1, ApartKeeps
  <2>2. CASE (\E s \in Tokens : Expire(s)) \/ (\E u \in Watched : SetActive(u))
    <3>1. Apart(x)
      BY <2>2, UnannouncedApart DEF Expire, SetActive
    <3>2. QED
      BY <1>2, <3>1, ApartKeeps
  <2>3. ASSUME NEW t \in Tabs, Person(t) \/ Server(t) \/ ProbeEnds(t) \/ HandlerGoesOn(t)
        PROVE  Uncrossed(x)' /\ Undisturbed(x)'
    <3>1. CASE x # t
      BY <1>2, <2>3, <3>1, OthersApart, ApartKeeps
    <3>2. CASE x = t
      BY <1>2, <2>3, <3>2, LoadKeeps, RefreshKeeps, HandlerKeeps, ServerKeeps
         DEF Person, ProbeEnds, HandlerGoesOn
    <3>3. QED
      BY <3>1, <3>2
  <2>4. QED
    BY <2>1, <2>2, <2>3 DEF Next
<1>4. QED
  BY <1>1, <1>2, <1>3 DEF SInv, Owners

(* A tab at rest that nothing disturbed shows whom the server takes it for: *)
(* AuthProvider.tsx, refresh, and get_session_user.                         *)
THEOREM Agrees == Spec => []AgreesUnlessDisturbed
<1>1. SInv => AgreesUnlessDisturbed
  <2> SUFFICES ASSUME SInv, NEW t \in Tabs, ~Busy(t), disturbed[t] = {}
               PROVE  user[t] = Identity(cookie) /\ (hint <=> user[t] # None)
    BY DEF AgreesUnlessDisturbed
  <2>1. probe[t] = Idle /\ handler[t] = Idle /\ Idle.kind = "idle"
    BY IdleCall DEF Busy
  <2>2. QED
    BY <2>1 DEF SInv, Undisturbed, SignedOff
<1>2. QED
  BY <1>1, SInvInit, SInvStep, PTL DEF Spec

(* Nothing the server does on its own makes a tab show one person while its *)
(* calls are those of another.                                              *)
THEOREM NobodyElse == Spec => []NeverSomebodyElse
<1>1. SInv => NeverSomebodyElse
  <2> SUFFICES ASSUME SInv, NEW t \in Tabs, ~Busy(t), disturbed[t] \subseteq {"unheard"}, user[t] # None
               PROVE  cookie # None /\ user[t] = owner[cookie]
    BY DEF NeverSomebodyElse
  <2>1. handler[t] = Idle /\ Idle.kind = "idle"
    BY IdleCall DEF Busy
  <2>2. "crossed" \notin disturbed[t]
    OBVIOUS
  <2>3. QED
    BY <2>1, <2>2 DEF SInv, Uncrossed
<1>2. QED
  BY <1>1, SInvInit, SInvStep, PTL DEF Spec

=============================================================================
