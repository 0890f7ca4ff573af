--------------------------- MODULE SiteNavigation ---------------------------
(***************************************************************************)
(* A person walking through the front end: the links each page offers, the  *)
(* guards of the console, signing in and out, and the header of the public  *)
(* pages with its hover menus, its closing timer and its drawer.            *)
(*                                                                         *)
(* A page is mounted when it is reached and unmounted when it is left, and  *)
(* the header with it; only a click that leads to the page it was made on   *)
(* leaves them alone.  Whether the session behind the sign-in is still good *)
(* is the subject of BrowserSession; here a person keeps the role he signed *)
(* in with until the page is loaded anew.                                   *)
(***************************************************************************)
EXTENDS SiteMap

VARIABLES
    at,       \* the address the router shows
    role,     \* what the page takes the person for
    from,     \* router state of the sign-in page: where the person was sent from
    header,   \* the menu under the pointer, the one open, the armed timer, the drawer
    wide,     \* whether the window shows the desktop bar
    wanted    \* history: the guarded page that a visitor was turned away from

vars == <<at, role, from, header, wide, wanted>>

Roles    == {"visitor", "member", "admin"}
Settings == "/app/settings"     \* where a person who must change the password is sent
Places   == Paths \cup {Settings}
NoMenu   == "none"
Nowhere  == "nowhere"

FreshHeader == [pointer |-> NoMenu, active |-> NoMenu, closing |-> FALSE, drawer |-> FALSE]

TypeOK ==
    /\ at \in Places
    /\ role \in Roles
    /\ from \in Places \cup {Nowhere}
    /\ header \in [pointer : Menus \cup {NoMenu}, active : Menus \cup {NoMenu},
                   closing : BOOLEAN, drawer : BOOLEAN]
    /\ wide \in BOOLEAN
    /\ wanted \in Places \cup {Nowhere}

----------------------------------------------------------------------------
(* What is on show *)

GuardAt(p) == IF p \in Paths THEN RouteAt[p].guard ELSE "none"

RequireAuth(r)  == r # "visitor"
RequireAdmin(r) == r = "admin"

Admits(p, r) ==
    \/ GuardAt(p) = "open"
    \/ GuardAt(p) = "auth" /\ RequireAuth(r)
    \/ GuardAt(p) = "admin" /\ RequireAdmin(r)

Public == {p \in Paths : GuardAt(p) = "open"}

PublicHeader ==
    IF wide THEN HeaderBar \cup (IF header.active = NoMenu THEN {} ELSE NAV_MENUS[header.active])
    ELSE IF header.drawer THEN DrawerBar \cup UNION {NAV_MENUS[m] : m \in Menus}
    ELSE HeaderNarrow

(* The drawer covers the page beneath it.                                   *)
Around ==
    IF header.drawer /\ ~wide THEN PublicHeader
    ELSE PublicHeader \cup PublicFooter \cup FooterBand \cup RouteAt[at].links

Offered ==
    IF ~Admits(at, role) THEN {}
    ELSE IF at \in Public THEN Around
    ELSE RouteAt[at].links \cup ConsoleSidebar(IF GuardAt(at) = "admin" THEN "admin" ELSE "app", role)

----------------------------------------------------------------------------
(* Walking *)

Init ==
    /\ at \in Paths
    /\ role \in Roles
    /\ from = Nowhere
    /\ header = FreshHeader
    /\ wide \in BOOLEAN
    /\ wanted = Nowhere

(* The router replaces the page; a menu that was open goes with the page.   *)
GoTo(p, state) ==
    /\ at' = p
    /\ from' = state
    /\ header' = IF p = at THEN [header EXCEPT !.drawer = FALSE] ELSE FreshHeader

FollowLink ==
    \E p \in Offered :
        /\ GoTo(p, Nowhere)
        /\ wanted' = Nowhere
        /\ UNCHANGED <<role, wide>>

MUT_Redirect_Forgets ==
    /\ ~Admits(at, role)
    /\ IF at \notin Paths THEN GoTo("/", Nowhere) /\ UNCHANGED wanted
       ELSE IF role = "visitor" THEN GoTo("/login", Nowhere) /\ wanted' = at
       ELSE GoTo("/app", Nowhere) /\ UNCHANGED wanted
    /\ UNCHANGED <<role, wide>>

MUT_Redirect_VisitorsToApp ==
    /\ ~Admits(at, role)
    /\ IF at \notin Paths THEN GoTo("/", Nowhere) /\ UNCHANGED wanted
       ELSE GoTo("/app", Nowhere) /\ wanted' = at
    /\ UNCHANGED <<role, wide>>

(* A guard that does not admit the person, or an address without a route.   *)
Redirect ==
    /\ ~Admits(at, role)
    /\ IF at \notin Paths THEN GoTo("/", Nowhere) /\ UNCHANGED wanted
       ELSE IF role = "visitor" THEN GoTo("/login", at) /\ wanted' = at
       ELSE GoTo("/app", Nowhere) /\ UNCHANGED wanted
    /\ UNCHANGED <<role, wide>>

(* A form that was accepted: the person becomes somebody.  One who must     *)
(* change the password is sent to an address of the console instead.        *)
SignIn ==
    /\ at = "/login"
    /\ role' \in Roles \ {"visitor"}
    /\ \E mustChange \in BOOLEAN :
         GoTo(IF mustChange THEN Settings ELSE IF from = Nowhere THEN "/app" ELSE from, Nowhere)
    /\ wanted' = Nowhere
    /\ UNCHANGED wide

(* The only way out is the console's; it loads the sign-in page anew.       *)
SignOut ==
    /\ Admits(at, role) /\ at \notin Public
    /\ role' = "visitor"
    /\ at' = "/login" /\ from' = Nowhere /\ header' = FreshHeader /\ wanted' = Nowhere
    /\ UNCHANGED wide

(* Register leads on by itself once the application is in.                  *)
Applied ==
    /\ at = "/register"
    /\ GoTo("/awaiting-approval", Nowhere)
    /\ wanted' = Nowhere
    /\ UNCHANGED <<role, wide>>

(* A full load: of the same address, which keeps the router state in the    *)
(* browser's history, or of one that was typed or came by e-mail.  The      *)
(* session may be over by then.                                             *)
Load ==
    \E p \in Paths :
        /\ at' = p
        /\ from' = IF p = at THEN from ELSE Nowhere
        /\ wanted' = IF p = at THEN wanted ELSE Nowhere
        /\ header' = FreshHeader
        /\ role' \in {role, "visitor"}
        /\ UNCHANGED wide

----------------------------------------------------------------------------
(* The header of the public pages *)

HeaderShown == at \in Public

MUT_openMenu_KeepsTimer(m) ==
    /\ HeaderShown /\ wide
    /\ header.pointer = NoMenu
    /\ header' = [header EXCEPT !.pointer = m, !.active = m]
    /\ UNCHANGED <<at, role, from, wide, wanted>>

(* onMouseEnter of a menu: a pending close is called off.                   *)
openMenu(m) ==
    /\ HeaderShown /\ wide
    /\ header.pointer = NoMenu
    /\ header' = [header EXCEPT !.pointer = m, !.active = m, !.closing = FALSE]
    /\ UNCHANGED <<at, role, from, wide, wanted>>

(* onMouseLeave: the menu stays open for another 120 ms.                    *)
scheduleClose ==
    /\ HeaderShown
    /\ header.pointer # NoMenu
    /\ header' = [header EXCEPT !.pointer = NoMenu, !.closing = TRUE]
    /\ UNCHANGED <<at, role, from, wide, wanted>>

TimerFires ==
    /\ header.closing
    /\ header' = [header EXCEPT !.active = NoMenu, !.closing = FALSE]
    /\ UNCHANGED <<at, role, from, wide, wanted>>

(* The hamburger, or a click beside the drawer.                             *)
ToggleDrawer ==
    /\ HeaderShown /\ ~wide
    /\ header' = [header EXCEPT !.drawer = ~@]
    /\ UNCHANGED <<at, role, from, wide, wanted>>

(* The bar of the other width is shown; the state of the header stays.  A   *)
(* menu that disappears takes the pointer's place in it along.              *)
Resize ==
    /\ wide' = ~wide
    /\ header' = [header EXCEPT !.pointer = NoMenu, !.closing = @ \/ header.pointer # NoMenu]
    /\ UNCHANGED <<at, role, from, wanted>>

Next ==
    \/ FollowLink
    \/ Redirect
    \/ SignIn
    \/ SignOut
    \/ Applied
    \/ Load
    \/ \E m \in Menus : openMenu(m)
    \/ scheduleClose
    \/ TimerFires
    \/ ToggleDrawer
    \/ Resize

Spec == Init /\ [][Next]_vars

----------------------------------------------------------------------------
(* Properties *)

(* Every link on show, the menus, the drawer, the footer and the console's  *)
(* sidebar included, leads to a route, and from inside the console to a     *)
(* page whose guard admits the person it is shown to: the sidebar and       *)
(* RequireAdmin judge the role each for itself.                             *)
LinksLead ==
    \A p \in Offered :
        /\ p \in Paths
        /\ at \notin Public => Admits(p, role)

(* The menu under the pointer is open: a close that was scheduled before    *)
(* the pointer came (back) must not fire on it.                             *)
OpenUnderPointer == header.pointer # NoMenu => header.active = header.pointer

(* A visitor who was turned away from a page of the console and signs in is *)
(* brought to that page, unless the password must be changed first.         *)
ReturnsWhereSent ==
    [][at = "/login" /\ role' # "visitor" /\ wanted # Nowhere => at' \in {wanted, Settings}]_vars

(* One redirect is enough, and so nobody is sent in circles: the address a  *)
(* guard or the fallback sends a person to has a route, whose guard admits  *)
(* that person.                                                             *)
RedirectsSettle == [][Redirect => Admits(at, role)']_vars
=============================================================================
