--------------------------- MODULE BrowserSession ---------------------------
(***************************************************************************)
(* Who a tab shows as signed in, and who the server takes it for.           *)
(*                                                                         *)
(* The session is a row of the server and a cookie of the browser that no   *)
(* script can read.  What a tab shows is its AuthProvider's copy of an      *)
(* answer of /api/auth/me, and whether it asks at all after a page load     *)
(* depends on a hint in localStorage.  Cookie and hint are shared by the    *)
(* tabs, the copy is not.                                                   *)
(*                                                                         *)
(* A call is sent with the cookie the browser has at that moment, processed *)
(* by the server, and its answer delivered, each in a step of its own; it   *)
(* may fail before or after it was processed.  A tab has at most the probe  *)
(* of its page load and the call of one handler in flight.                  *)
(*                                                                         *)
(* What the server does for a call is taken as committed before its answer  *)
(* is on its way: this rests on the FastAPI that is installed.              *)
(***************************************************************************)
EXTENDS FiniteSets

CONSTANTS
    Tabs,     \* tabs of one browser
    Users,    \* accounts
    Tokens,   \* session tokens the server can hand out (bounds the logins)
    Watched,  \* accounts an administrator may disable and activate again
    None

ASSUME SessionAssumption ==
    /\ None \notin Tabs \cup Users \cup Tokens
    /\ Watched \subseteq Users

VARIABLES
    owner,      \* server: the sessions there are, and whose
    live,       \* server: those neither revoked nor expired
    active,     \* server: the accounts with is_active
    cookie,     \* browser: affectlog_session
    hint,       \* browser: affectlog_has_session in localStorage
    user,       \* tab: AuthProvider's user
    loading,    \* tab: AuthProvider's loading
    probe,      \* tab: the refresh() of the page load
    handler,    \* tab: the call of Login.handleSubmit or of logout
    disturbed   \* history, per tab: what has come between it and the server

server  == <<owner, live, active>>
browser == <<cookie, hint>>
tab     == <<user, loading>>
vars    == <<owner, live, active, cookie, hint, user, loading, probe, handler, disturbed>>

----------------------------------------------------------------------------
(* Calls *)

Idle == [kind |-> "idle", phase |-> "sent", with |-> None, as |-> None, answer |-> None]

(* A call of a kind, with the cookie it was sent with (which login ignores) *)
(* or, for login, the account; the answer is a user for me and a token for  *)
(* login.                                                                   *)
Sent(kind, with, as) == [kind |-> kind, phase |-> "sent", with |-> with, as |-> as, answer |-> None]
Answered(call, answer) == [call EXCEPT !.phase = "answered", !.answer = answer]

(* What can come between a tab and the server: something it did not hear of *)
(* (a lost answer, an expired session, a disabled account), or two things   *)
(* at once: a login or logout while its probe is under way, another tab, or *)
(* the answer of a login that was cut short after its headers.              *)
Causes == {"unheard", "crossed"}

TypeOK ==
    /\ owner \in [Tokens -> Users \cup {None}]
    /\ live \subseteq Tokens
    /\ active \subseteq Users
    /\ cookie \in Tokens \cup {None}
    /\ hint \in BOOLEAN
    /\ user \in [Tabs -> Users \cup {None}]
    /\ loading \in [Tabs -> BOOLEAN]
    /\ disturbed \in [Tabs -> SUBSET Causes]
    /\ \A t \in Tabs : \A c \in {probe[t], handler[t]} :
         /\ c.phase \in {"sent", "answered"}
         /\ c.with \in Tokens \cup {None}
         /\ c.as \in Users \cup {None}
         /\ c.kind = "me" => c.answer \in Users \cup {None}
         /\ c.kind = "login" => c.answer \in Tokens \cup {None}
    /\ \A t \in Tabs : probe[t].kind \in {"idle", "me"}
    /\ \A t \in Tabs : handler[t].kind \in {"idle", "login", "me", "logout", "leave"}

(* get_session_user: the account a cookie stands for.                       *)
Identity(c) ==
    IF c \in live /\ owner[c] \in active THEN owner[c] ELSE None

Init ==
    /\ owner = [s \in Tokens |-> None]
    /\ live = {}
    /\ active = Users
    /\ cookie = None
    /\ hint = FALSE
    /\ user = [t \in Tabs |-> None]
    /\ loading = [t \in Tabs |-> FALSE]
    /\ probe = [t \in Tabs |-> Idle]
    /\ handler = [t \in Tabs |-> Idle]
    /\ disturbed = [t \in Tabs |-> {}]

Busy(t) == probe[t] # Idle \/ handler[t] # Idle

(* History.  What a step of t changes of the cookie, of whom it stands for  *)
(* and of the hint comes between the server and every other tab.  Of what   *)
(* has come between, the worse is remembered.                               *)
Shared == <<cookie, Identity(cookie), hint>>

Unheard(t) == IF disturbed[t] = {} THEN {"unheard"} ELSE disturbed[t]

Note(t, causes) ==
    disturbed' = [x \in Tabs |-> IF x = t THEN causes
                                 ELSE IF Shared' # Shared THEN {"crossed"}
                                 ELSE disturbed[x]]

----------------------------------------------------------------------------
(* The page *)

(* What a tab is after a page load with the hint as given: AuthProvider     *)
(* asks the server only if it is there.  Calls in flight are dropped.       *)
Loaded(t, hinted) ==
    /\ user' = [user EXCEPT ![t] = None]
    /\ loading' = [loading EXCEPT ![t] = hinted]
    /\ probe' = [probe EXCEPT ![t] = IF hinted THEN Sent("me", cookie, None) ELSE Idle]
    /\ handler' = [handler EXCEPT ![t] = Idle]

(* A reload, a typed address, a new tab, or the /login that a logout leads  *)
(* to.  If a dropped call reaches the server all the same, Expire has what  *)
(* it does to the session.                                                  *)
Load(t) ==
    /\ Loaded(t, hint)
    /\ UNCHANGED <<server, browser>>
    /\ Note(t, IF hint THEN {}
               ELSE IF handler[t].kind = "me" THEN Unheard(t) ELSE disturbed[t])

(* Login.handleSubmit: the form is disabled until its handler is through.   *)
handleSubmit(t, u) ==
    /\ handler[t] = Idle
    /\ handler' = [handler EXCEPT ![t] = Sent("login", None, u)]
    /\ UNCHANGED <<server, browser, tab, probe, disturbed>>

(* The sign-out button of the console's sidebar.                            *)
logout(t) ==
    /\ handler[t] = Idle
    /\ user[t] # None /\ ~loading[t]
    /\ handler' = [handler EXCEPT ![t] = Sent("logout", cookie, None)]
    /\ UNCHANGED <<server, browser, tab, probe, disturbed>>

MUT_Refreshed_KeepsUser(t, u) ==
    /\ user' = [user EXCEPT ![t] = IF u = None THEN @ ELSE u]
    /\ loading' = [loading EXCEPT ![t] = FALSE]
    /\ hint' = (u # None)
    /\ UNCHANGED cookie

MUT_Refreshed_OnlyIfSignedIn(t, u) ==
    /\ user' = [user EXCEPT ![t] = u]
    /\ loading' = [loading EXCEPT ![t] = @ /\ u = None]
    /\ hint' = (u # None)
    /\ UNCHANGED cookie

(* refresh() once its call is through: every failure counts as signed out.  *)
Refreshed(t, u) ==
    /\ user' = [user EXCEPT ![t] = u]
    /\ loading' = [loading EXCEPT ![t] = FALSE]
    /\ hint' = (u # None)
    /\ UNCHANGED cookie

ProbeAnswered(t) ==
    /\ probe[t].phase = "answered"
    /\ Refreshed(t, probe[t].answer)
    /\ probe' = [probe EXCEPT ![t] = Idle]
    /\ UNCHANGED <<server, handler>>
    /\ Note(t, disturbed[t])

ProbeFails(t) ==
    /\ probe[t] # Idle
    /\ Refreshed(t, None)
    /\ probe' = [probe EXCEPT ![t] = Idle]
    /\ UNCHANGED <<server, handler>>
    /\ Note(t, Unheard(t))

Meanwhile(t) == IF probe[t] # Idle THEN {"crossed"} ELSE {}

MUT_LoginAnswered_NoRefresh(t) ==
    /\ handler[t].kind = "login" /\ handler[t].phase = "answered"
    /\ handler[t].answer # None
    /\ cookie' = handler[t].answer
    /\ handler' = [handler EXCEPT ![t] = Idle]
    /\ UNCHANGED <<server, hint, tab, probe>>
    /\ Note(t, Meanwhile(t))

(* The answer to a login brings the cookie; the handler goes on to refresh. *)
LoginAnswered(t) ==
    /\ handler[t].kind = "login" /\ handler[t].phase = "answered"
    /\ handler[t].answer # None
    /\ cookie' = handler[t].answer
    /\ handler' = [handler EXCEPT ![t] = Sent("me", handler[t].answer, None)]
    /\ UNCHANGED <<server, hint, tab, probe>>
    /\ Note(t, Meanwhile(t))

(* A login that was refused, or whose request or answer was lost, leaves an *)
(* error on the form and everything else as it was; only the cookie is the  *)
(* new one if no more than the body of the answer was lost.                 *)
LoginFails(t) ==
    /\ handler[t].kind = "login"
    /\ handler' = [handler EXCEPT ![t] = Idle]
    /\ UNCHANGED <<server, hint, tab, probe>>
    /\ \/ UNCHANGED <<cookie, disturbed>>
       \/ /\ handler[t].phase = "answered" /\ handler[t].answer # None
          /\ cookie' = handler[t].answer
          /\ Note(t, {"crossed"})

RefreshAnswered(t) ==
    /\ handler[t].kind = "me" /\ handler[t].phase = "answered"
    /\ Refreshed(t, handler[t].answer)
    /\ handler' = [handler EXCEPT ![t] = Idle]
    /\ UNCHANGED <<server, probe>>
    /\ Note(t, disturbed[t])

RefreshFails(t) ==
    /\ handler[t].kind = "me"
    /\ Refreshed(t, None)
    /\ handler' = [handler EXCEPT ![t] = Idle]
    /\ UNCHANGED <<server, probe>>
    /\ Note(t, Unheard(t))

(* logout() swallows the failure of its call: the page forgets the person   *)
(* and sets out for /login either way.  Until that is loaded, the old page  *)
(* goes on, and a probe that is answered brings the person and the hint     *)
(* back.                                                                    *)
Forgotten(t) ==
    /\ user' = [user EXCEPT ![t] = None]
    /\ hint' = FALSE
    /\ handler' = [handler EXCEPT ![t] = Sent("leave", None, None)]
    /\ UNCHANGED <<server, loading, probe>>

LogoutAnswered(t) ==
    /\ handler[t].kind = "logout" /\ handler[t].phase = "answered"
    /\ cookie' = None
    /\ Forgotten(t)
    /\ Note(t, Meanwhile(t))

MUT_LogoutFails_Rethrows(t) ==
    /\ handler[t].kind = "logout"
    /\ handler' = [handler EXCEPT ![t] = Idle]
    /\ UNCHANGED <<server, browser, tab, probe>>
    /\ Note(t, Unheard(t))

LogoutFails(t) ==
    /\ handler[t].kind = "logout"
    /\ \/ UNCHANGED cookie
       \/ handler[t].phase = "answered" /\ cookie' = None
    /\ Forgotten(t)
    /\ Note(t, IF probe[t] # Idle THEN {"crossed"} ELSE Unheard(t))

----------------------------------------------------------------------------
(* The server *)

(* GET /api/auth/me                                                         *)
me(calls, t) ==
    /\ calls[t].kind = "me" /\ calls[t].phase = "sent"
    /\ UNCHANGED server

ServeProbe(t) ==
    /\ me(probe, t)
    /\ probe' = [probe EXCEPT ![t] = Answered(@, Identity(@.with))]
    /\ UNCHANGED <<browser, tab, handler, disturbed>>

ServeRefresh(t) ==
    /\ me(handler, t)
    /\ handler' = [handler EXCEPT ![t] = Answered(@, Identity(@.with))]
    /\ UNCHANGED <<browser, tab, probe, disturbed>>

(* Tokens are random: which one is handed out makes no difference.          *)
Unused == {s \in Tokens : owner[s] = None}

(* POST /api/auth/login, once active account, lock and password are passed. *)
(* A login that is refused raises, and the failure it counted is rolled     *)
(* back with the transaction, so it changes nothing: LoginFails.            *)
login(t) ==
    /\ handler[t].kind = "login" /\ handler[t].phase = "sent"
    /\ handler[t].as \in active
    /\ Unused # {}
    /\ LET s == CHOOSE s \in Unused : TRUE
       IN  /\ owner' = [owner EXCEPT ![s] = handler[t].as]
           /\ live' = live \cup {s}
           /\ handler' = [handler EXCEPT ![t] = Answered(@, s)]
    /\ UNCHANGED <<active, browser, tab, probe, disturbed>>

(* POST /api/auth/logout: the session of the cookie that came with it.      *)
ServeLogout(t) ==
    /\ handler[t].kind = "logout" /\ handler[t].phase = "sent"
    /\ live' = live \ {handler[t].with}
    /\ handler' = [handler EXCEPT ![t] = Answered(@, None)]
    /\ UNCHANGED <<owner, active, browser, tab, probe>>
    /\ Note(t, disturbed[t])

(* Time passes, or an administrator acts: neither tells the page.           *)
Unannounced ==
    /\ UNCHANGED <<browser, tab, probe, handler>>
    /\ disturbed' = [t \in Tabs |-> IF Shared' # Shared THEN Unheard(t) ELSE disturbed[t]]

Expire(s) ==
    /\ s \in live
    /\ live' = live \ {s}
    /\ UNCHANGED <<owner, active>>
    /\ Unannounced

(* disable_user leaves the sessions alone, so an account that is activated  *)
(* again has those back that have not expired.                              *)
SetActive(u) ==
    /\ active' = IF u \in active THEN active \ {u} ELSE active \cup {u}
    /\ UNCHANGED <<owner, live>>
    /\ Unannounced

----------------------------------------------------------------------------
ProbeEnds(t) == ProbeAnswered(t) \/ ProbeFails(t)
HandlerGoesOn(t) ==
    \/ LoginAnswered(t) \/ LoginFails(t)
    \/ RefreshAnswered(t) \/ RefreshFails(t)
    \/ LogoutAnswered(t) \/ LogoutFails(t)

Person(t) == Load(t) \/ (\E u \in Users : handleSubmit(t, u)) \/ logout(t)
Server(t) == ServeProbe(t) \/ ServeRefresh(t) \/ login(t) \/ ServeLogout(t)

Next ==
    \/ \E t \in Tabs : Person(t) \/ Server(t) \/ ProbeEnds(t) \/ HandlerGoesOn(t)
    \/ \E s \in Tokens : Expire(s)
    \/ \E u \in Watched : SetActive(u)

Spec == Init /\ [][Next]_vars

(* A fetch ends: with an answer, or with an error of the network.           *)
FairSpec == Spec /\ \A t \in Tabs : WF_vars(ProbeEnds(t))

----------------------------------------------------------------------------
(* Properties *)

(* A tab at rest, with nothing lost, no login while its probe was under     *)
(* way, nothing done in another tab or by the server on its own: it shows   *)
(* whom the server takes it for, and the hint says whether there is anybody *)
(* to ask for after a reload.                                               *)
AgreesUnlessDisturbed ==
    \A t \in Tabs : ~Busy(t) /\ disturbed[t] = {} =>
        /\ user[t] = Identity(cookie)
        /\ hint <=> user[t] # None

(* Lost calls, expired sessions and disabled accounts can make a tab show   *)
(* nobody, or somebody whose session is over; they never make it show one   *)
(* person while its calls are those of another.                             *)
NeverSomebodyElse ==
    \A t \in Tabs : ~Busy(t) /\ disturbed[t] \subseteq {"unheard"} /\ user[t] # None =>
        cookie # None /\ user[t] = owner[cookie]

(* The spinner of a page that waits for AuthProvider comes to an end.       *)
SpinnerEnds == \A t \in Tabs : loading[t] ~> ~loading[t]

(* A person who signs out is signed out of this tab, whatever becomes of    *)
(* the call: the page forgets him, and the one that is loaded in its place  *)
(* knows of him only what it asks the server itself with the cookie there   *)
(* is.  Nothing that was still under way brings him back for good.          *)
SignOutSignsOut ==
    [][\A t \in Tabs : handler[t].kind \in {"logout", "leave"} /\ handler'[t] # handler[t] =>
           \/ handler'[t] = Answered(handler[t], None)
           \/ handler'[t].kind = "leave" /\ user'[t] = None /\ ~hint'
           \/ /\ handler'[t] = Idle /\ user'[t] = None
              /\ probe'[t] = IF hint THEN Sent("me", cookie, None) ELSE Idle]_vars
=============================================================================
