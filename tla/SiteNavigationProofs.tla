------------------------ MODULE SiteNavigationProofs ------------------------
(***************************************************************************)
(* The walk through the front end: the closing timer of the header never    *)
(* takes away the menu under the pointer, signing in leads back to where a  *)
(* visitor was sent from, every link on show leads where the person may go, *)
(* and so does every redirect.                                              *)
(***************************************************************************)
EXTENDS SiteNavigation, TLAPS

HeaderType == header \in [pointer : Menus \cup {NoMenu}, active : Menus \cup {NoMenu},
                          closing : BOOLEAN, drawer : BOOLEAN]

(* A close that is scheduled means that the pointer has left.               *)
HeaderInv == HeaderType /\ OpenUnderPointer /\ (header.closing => header.pointer = NoMenu)

LEMMA GoToKeeps ==
    ASSUME HeaderInv, NEW p, NEW state, GoTo(p, state)
    PROVE  HeaderInv'
BY DEF HeaderInv, HeaderType, OpenUnderPointer, GoTo, FreshHeader

LEMMA HeaderFresh == ASSUME HeaderInv, header' = FreshHeader PROVE HeaderInv'
BY DEF HeaderInv, HeaderType, OpenUnderPointer, FreshHeader

LEMMA HeaderStep == HeaderInv /\ [Next]_vars => HeaderInv'
<1> SUFFICES ASSUME HeaderInv, [Next]_vars PROVE HeaderInv'
  OBVIOUS
<1>1. CASE FollowLink \/ Redirect \/ SignIn \/ Applied
  BY <1>1, GoToKeeps DEF FollowLink, Redirect, SignIn, Applied
<1>2. CASE SignOut \/ Load
  BY <1>2, HeaderFresh DEF SignOut, Load
<1>3. ASSUME NEW m \in Menus, openMenu(m) PROVE HeaderInv'
  BY <1>3 DEF openMenu, HeaderInv, HeaderType, OpenUnderPointer
<1>4. CASE scheduleClose
  BY <1>4 DEF scheduleClose, HeaderInv, HeaderType, OpenUnderPointer
<1>5. CASE TimerFires
  BY <1>5 DEF TimerFires, HeaderInv, HeaderType, OpenUnderPointer
<1>6. CASE ToggleDrawer
  BY <1>6 DEF ToggleDrawer, HeaderInv, HeaderType, OpenUnderPointer
<1>7. CASE Resize
  BY <1>7 DEF Resize, HeaderInv, HeaderType, OpenUnderPointer
<1>8. CASE UNCHANGED vars
  BY <1>8 DEF vars, HeaderInv, HeaderType, OpenUnderPointer
<1>9. QED
  BY <1>1, <1>2, <1>3, <1>4, <1>5, <1>6, <1>7, <1>8 DEF Next

(* The menu under the pointer is open: PublicHeader.tsx, openMenu calls off *)
(* the close that scheduleClose has armed.                                  *)
THEOREM MenuStaysOpen == Spec => []OpenUnderPointer
<1>1. Init => HeaderInv
  BY DEF Init, FreshHeader, HeaderInv, HeaderType, OpenUnderPointer
<1>2. HeaderInv => OpenUnderPointer
  BY DEF HeaderInv
<1>3. QED
  BY <1>1, <1>2, HeaderStep, PTL DEF Spec

----------------------------------------------------------------------------
(* The map: which addresses have a route, behind which guard, and where the *)
(* links of each page lead.                                                 *)

OpenPaths ==
    {"/", "/product", "/guided-assessment", "/dataset-audit", "/model-assessment",
     "/compliance-exports", "/ecosystem", "/openapi", "/docs", "/community", "/cloud", "/pricing",
     "/self-host", "/developers", "/request-access", "/security", "/login", "/register",
     "/awaiting-approval", "/activate", "/forgot-password", "/reset-password"}

LEMMA RoutePath ==
    ASSUME NEW p, NEW g, NEW l, Route(p, g, l) \in Routes
    PROVE  p \in Paths
<1>1. Route(p, g, l).path = p
  BY DEF Route
<1> QED
  BY <1>1 DEF Paths, PathsOf

(* The public pages have routes without a guard.                            *)
LEMMA OpenRoutes == OpenPaths \subseteq Paths
<1> SUFFICES ASSUME NEW p \in OpenPaths PROVE p \in Paths
  OBVIOUS
<1>1. \E l : Route(p, "open", l) \in MarketingRoutes \cup AuthRoutes
  BY DEF OpenPaths, MarketingRoutes, AuthRoutes
<1> QED
  BY <1>1, RoutePath DEF Routes

(* The application's sidebar and the links of the wizard lead to routes of  *)
(* the application, and nothing else of it has one.                         *)
AppPaths == APP_NAV \cup WizardHome

LEMMA ConsoleRoutes == AppPaths \cup ADMIN_NAV \subseteq Paths
<1>1. ASSUME NEW p \in AppPaths PROVE p \in Paths
  <2>1. \E l : Route(p, "auth", l) \in AppRoutes
    BY DEF AppPaths, APP_NAV, WizardHome, AppRoutes
  <2> QED
    BY <2>1, RoutePath DEF Routes
<1>2. ASSUME NEW p \in ADMIN_NAV PROVE p \in Paths
  <2>1. \E l : Route(p, "admin", l) \in AdminRoutes
    BY DEF AdminRoutes
  <2> QED
    BY <2>1, RoutePath DEF Routes
<1> QED
  BY <1>1, <1>2

(* A closing band leads to the routes of its items, and to "/".             *)
LEMMA BandLeads ==
    ASSUME NEW items, \A i \in items : i = Href \/ \E p \in OpenPaths : i = To(p)
    PROVE  CTABand(items) \subseteq OpenPaths
<1> SUFFICES ASSUME NEW i \in items
             PROVE  (IF "to" \in DOMAIN i THEN i.to ELSE "/") \in OpenPaths
  BY DEF CTABand
<1>1. CASE i = Href
  <2>1. "to" \notin DOMAIN i
    BY <1>1 DEF Href
  <2> QED
    BY <2>1 DEF OpenPaths
<1>2. ASSUME NEW p \in OpenPaths, i = To(p)
      PROVE  (IF "to" \in DOMAIN i THEN i.to ELSE "/") \in OpenPaths
  BY <1>2 DEF To
<1> QED
  BY <1>1, <1>2

(* The links of the public pages.                                           *)
LEMMA PublicLinks ==
    ASSUME NEW r \in MarketingRoutes \cup AuthRoutes
    PROVE  r.path \in OpenPaths /\ r.guard = "open" /\ r.links \subseteq OpenPaths
<1>1. /\ HomeClosing \subseteq OpenPaths
      /\ ProductPage \subseteq OpenPaths /\ GuidedAssessmentPage \subseteq OpenPaths
      /\ DatasetAuditPage \subseteq OpenPaths /\ ModelAssessmentPage \subseteq OpenPaths
      /\ ComplianceExportsPage \subseteq OpenPaths /\ EcosystemPage \subseteq OpenPaths
      /\ OpenAPIPage \subseteq OpenPaths /\ DocsPage \subseteq OpenPaths
      /\ CommunityEdition \subseteq OpenPaths /\ ManagedCloud \subseteq OpenPaths
      /\ PricingPage \subseteq OpenPaths /\ SelfHost \subseteq OpenPaths
      /\ DevelopersPage \subseteq OpenPaths /\ SecurityPage \subseteq OpenPaths
  <2>1. \A items : (\A i \in items : i = Href \/ \E p \in OpenPaths : i = To(p))
                     => CTABand(items) \subseteq OpenPaths
    BY BandLeads
  <2> USE <2>1 DEF OpenPaths
  <2>2. HomeClosing \subseteq OpenPaths /\ ProductPage \subseteq OpenPaths
    BY DEF HomeClosing, ProductPage
  <2>3. GuidedAssessmentPage \subseteq OpenPaths /\ DatasetAuditPage \subseteq OpenPaths
    BY DEF GuidedAssessmentPage, DatasetAuditPage
  <2>4. ModelAssessmentPage \subseteq OpenPaths /\ ComplianceExportsPage \subseteq OpenPaths
    BY DEF ModelAssessmentPage, ComplianceExportsPage
  <2>5. EcosystemPage \subseteq OpenPaths /\ OpenAPIPage \subseteq OpenPaths
    BY DEF EcosystemPage, OpenAPIPage
  <2>6. DocsPage \subseteq OpenPaths
    BY DEF DocsPage, DocsHero, DocsCards, DocsPaths
  <2>7. CommunityEdition \subseteq OpenPaths /\ ManagedCloud \subseteq OpenPaths
    BY DEF CommunityEdition, ManagedCloud
  <2>8. PricingPage \subseteq OpenPaths /\ SelfHost \subseteq OpenPaths
    BY DEF PricingPage, PricingTiers, SelfHost
  <2>9. DevelopersPage \subseteq OpenPaths /\ SecurityPage \subseteq OpenPaths
    BY DEF DevelopersPage, SecurityPage
  <2> QED
    BY <2>2, <2>3, <2>4, <2>5, <2>6, <2>7, <2>8, <2>9
<1>2. HomePage \subseteq OpenPaths
  BY <1>1 DEF HomePage, HomeHero, HomeGrid, HomeEditions, HomeEcosystem, HomeDevelopers, OpenPaths
<1>3. /\ LoginPage \subseteq OpenPaths /\ Register \subseteq OpenPaths
      /\ AwaitingApproval \subseteq OpenPaths /\ Activation \subseteq OpenPaths
      /\ ForgotPassword \subseteq OpenPaths /\ ResetPassword \subseteq OpenPaths
      /\ RequestAccess \subseteq OpenPaths
  BY DEF LoginPage, Register, AwaitingApproval, Activation, ForgotPassword, ResetPassword,
     RequestAccess, OpenPaths
<1>4. ASSUME NEW p \in OpenPaths, NEW l, l \subseteq OpenPaths, r = Route(p, "open", l)
      PROVE  r.path \in OpenPaths /\ r.guard = "open" /\ r.links \subseteq OpenPaths
  BY <1>4 DEF Route
<1>5. CASE r \in AuthRoutes
  BY <1>3, <1>4, <1>5 DEF AuthRoutes, OpenPaths
<1>6. CASE r \in MarketingRoutes
  BY <1>1, <1>2, <1>3, <1>4, <1>6 DEF MarketingRoutes, OpenPaths
<1> QED
  BY <1>5, <1>6

(* The links of the application's pages stay in it; the wizard's have its   *)
(* home, and its home the wizard's.                                         *)
LEMMA AppLinks ==
    ASSUME NEW r \in AppRoutes
    PROVE  r.path \in AppPaths /\ r.guard = "auth" /\ r.links \subseteq AppPaths
<1>1. PICK p \in AppPaths, l \in SUBSET AppPaths : r = Route(p, "auth", l)
  BY DEF AppRoutes, AppPaths, APP_NAV, WizardHome, WizardPages, AppHome
<1> QED
  BY <1>1 DEF Route

(* The links of the administrators' pages stay among them.                  *)
LEMMA AdminLinks ==
    ASSUME NEW r \in AdminRoutes
    PROVE  r.path \in ADMIN_NAV /\ r.guard = "admin" /\ r.links \subseteq ADMIN_NAV
<1>1. PICK p \in ADMIN_NAV, l \in SUBSET ADMIN_NAV : r = Route(p, "admin", l)
  BY DEF AdminRoutes, ADMIN_NAV, AdminDashboard
<1> QED
  BY <1>1 DEF Route

(* Every address has the one guard of its part of the site, and a page      *)
(* links within that part only.                                             *)
LEMMA PartsOfTheSite ==
    /\ \A p \in OpenPaths : GuardAt(p) = "open" /\ RouteAt[p].links \subseteq OpenPaths
    /\ \A p \in AppPaths : GuardAt(p) = "auth" /\ RouteAt[p].links \subseteq AppPaths
    /\ \A p \in ADMIN_NAV : GuardAt(p) = "admin" /\ RouteAt[p].links \subseteq ADMIN_NAV
    /\ \A p : GuardAt(p) # "none" => p \in OpenPaths \cup AppPaths \cup ADMIN_NAV
<1>1. ASSUME NEW p \in Paths PROVE RouteAt[p] \in Routes /\ RouteAt[p].path = p
  <2>1. \E r \in Routes : r.path = p
    BY DEF Paths, PathsOf
  <2> QED
    BY <2>1 DEF RouteAt
<1>2. \A p \in Paths : GuardAt(p) = RouteAt[p].guard
  BY DEF GuardAt
<1>3. \A p : GuardAt(p) # "none" => p \in Paths
  BY DEF GuardAt
<1>4. \A p \in OpenPaths : p \notin AppPaths /\ p \notin ADMIN_NAV
  BY DEF OpenPaths, AppPaths, APP_NAV, WizardHome, ADMIN_NAV
<1>5. \A p \in AppPaths : p \notin ADMIN_NAV
  BY DEF AppPaths, APP_NAV, WizardHome, ADMIN_NAV
<1>6. \A r \in Routes : r \in MarketingRoutes \cup AuthRoutes \/ r \in AppRoutes \/ r \in AdminRoutes
  BY DEF Routes
<1>7. OpenPaths \subseteq Paths /\ AppPaths \subseteq Paths /\ ADMIN_NAV \subseteq Paths
  BY OpenRoutes, ConsoleRoutes
<1>8. ASSUME NEW p \in Paths
      PROVE  \/ /\ p \in OpenPaths /\ GuardAt(p) = "open"
                /\ RouteAt[p].links \subseteq OpenPaths
             \/ /\ p \in AppPaths /\ GuardAt(p) = "auth"
                /\ RouteAt[p].links \subseteq AppPaths
             \/ /\ p \in ADMIN_NAV /\ GuardAt(p) = "admin"
                /\ RouteAt[p].links \subseteq ADMIN_NAV
  <2>1. CASE RouteAt[p] \in MarketingRoutes \cup AuthRoutes
    BY <1>1, <1>2, <2>1, PublicLinks
  <2>2. CASE RouteAt[p] \in AppRoutes
    BY <1>1, <1>2, <2>2, AppLinks
  <2>3. CASE RouteAt[p] \in AdminRoutes
    BY <1>1, <1>2, <2>3, AdminLinks
  <2> QED
    BY <1>1, <1>6, <2>1, <2>2, <2>3
<1> QED
  BY <1>3, <1>4, <1>5, <1>7, <1>8

----------------------------------------------------------------------------
(* Whoever is wanted elsewhere is a visitor at the sign-in page, and the    *)
(* router remembers the address.                                            *)
SentInv == wanted # Nowhere => at = "/login" /\ from = wanted /\ role = "visitor"

LEMMA SentStep == SentInv /\ [Next]_vars => SentInv'
<1> SUFFICES ASSUME SentInv, [Next]_vars PROVE SentInv'
  OBVIOUS
<1> USE DEF SentInv
<1>1. CASE FollowLink \/ SignIn \/ SignOut \/ Applied
  BY <1>1 DEF FollowLink, SignIn, SignOut, Applied
<1>2. CASE Redirect
  BY <1>2, OpenRoutes DEF Redirect, GoTo, OpenPaths
<1>3. CASE Load
  BY <1>3 DEF Load
<1>4. CASE UNCHANGED <<at, role, from, wanted>>
  BY <1>4
<1>5. QED
  BY <1>1, <1>2, <1>3, <1>4 DEF Next, vars, openMenu, scheduleClose, TimerFires, ToggleDrawer, Resize

(* Signing in leads back to the page a visitor was turned away from:        *)
(* RequireAuth.tsx puts it into the router's state, Login.tsx takes it out. *)
THEOREM SignInReturns == Spec => ReturnsWhereSent
<1>1. Init => SentInv
  BY DEF Init, SentInv
<1>2. SentInv /\ [Next]_vars =>
        [at = "/login" /\ role' # "visitor" /\ wanted # Nowhere => at' \in {wanted, Settings}]_vars
  <2>1. ASSUME SentInv, Next, at = "/login", role' # "visitor", wanted # Nowhere
        PROVE  at' \in {wanted, Settings}
    <3>1. role = "visitor" /\ from = wanted
      BY <2>1 DEF SentInv
    <3>2. SignIn
      BY <2>1, <3>1 DEF Next, FollowLink, Redirect, SignOut, Applied, Load, openMenu, scheduleClose,
         TimerFires, ToggleDrawer, Resize
    <3>3. QED
      BY <2>1, <3>1, <3>2 DEF SignIn, GoTo
  <2>2. QED
    BY <2>1
<1>3. QED
  BY <1>1, <1>2, SentStep, PTL DEF Spec, ReturnsWhereSent

----------------------------------------------------------------------------
(* Links and redirects                                                      *)

(* What the header, its menus, the drawer and the footer offer.             *)
LEMMA HeaderLinks ==
    ASSUME HeaderType
    PROVE  PublicHeader \cup PublicFooter \cup FooterBand \subseteq OpenPaths
<1>1. \A m \in Menus : NAV_MENUS[m] \subseteq OpenPaths
  BY DEF Menus, NAV_MENUS, OpenPaths
<1>2. header.active = NoMenu \/ header.active \in Menus
  BY DEF HeaderType
<1>3. HeaderBar \cup HeaderNarrow \cup DrawerBar \cup PublicFooter \cup FooterBand \subseteq OpenPaths
  BY DEF HeaderBar, HeaderNarrow, DrawerBar, PublicFooter, FooterBand, OpenPaths
<1> QED
  BY <1>1, <1>2, <1>3 DEF PublicHeader

LEMMA OfferedLead == HeaderType => LinksLead
<1> SUFFICES ASSUME HeaderType, NEW p \in Offered
             PROVE  p \in Paths /\ (at \notin Public => Admits(p, role))
  BY DEF LinksLead
<1>1. Admits(at, role)
  BY DEF Offered
<1>2. CASE at \in Public
  <2>1. RouteAt[at].links \subseteq OpenPaths
    BY <1>2, PartsOfTheSite DEF Public, OpenPaths, AppPaths, APP_NAV, WizardHome, ADMIN_NAV
  <2>2. p \in OpenPaths
    BY <1>1, <1>2, <2>1, HeaderLinks DEF Offered, Around
  <2> QED
    BY <1>2, <2>2, OpenRoutes
<1>3. CASE at \notin Public /\ GuardAt(at) = "auth"
  <2>1. at \in AppPaths /\ RequireAuth(role)
    BY <1>1, <1>3, PartsOfTheSite DEF Admits
  <2>2. p \in RouteAt[at].links \cup ConsoleSidebar("app", role)
    BY <1>1, <1>3 DEF Offered
  <2>3. \/ p \in AppPaths \/ p = "/"
        \/ p = "/admin" /\ role = "admin"
    BY <2>1, <2>2, PartsOfTheSite DEF ConsoleSidebar, AppPaths
  <2>4. p \in OpenPaths \/ p \in AppPaths \/ (p \in ADMIN_NAV /\ role = "admin")
    BY <2>3 DEF OpenPaths, ADMIN_NAV
  <2> QED
    BY <2>1, <2>4, PartsOfTheSite, OpenRoutes, ConsoleRoutes DEF Admits, RequireAdmin
<1>4. CASE at \notin Public /\ GuardAt(at) = "admin"
  <2>1. at \in ADMIN_NAV /\ RequireAdmin(role)
    BY <1>1, <1>4, PartsOfTheSite DEF Admits
  <2>2. p \in RouteAt[at].links \cup ConsoleSidebar("admin", role)
    BY <1>1, <1>4 DEF Offered
  <2>3. p \in OpenPaths \cup ADMIN_NAV
    BY <2>1, <2>2, PartsOfTheSite DEF ConsoleSidebar, OpenPaths
  <2> QED
    BY <2>1, <2>3, PartsOfTheSite, OpenRoutes, ConsoleRoutes DEF Admits
<1>5. GuardAt(at) \in {"open", "auth", "admin"} /\ (GuardAt(at) = "open" => at \in Public)
  BY <1>1, PartsOfTheSite, OpenRoutes DEF Admits, Public, GuardAt
<1> QED
  BY <1>2, <1>3, <1>4, <1>5

(* Every link on show leads to a page, and in the console to one that lets  *)
(* the person in: pages, sidebar, menus and footer against App.tsx's        *)
(* routes, in every state of the header.                                    *)
THEOREM LinksHaveRoutes == Spec => []LinksLead
<1>1. Init => HeaderInv
  BY DEF Init, FreshHeader, HeaderInv, HeaderType, OpenUnderPointer
<1>2. HeaderInv => LinksLead
  BY OfferedLead DEF HeaderInv
<1> QED
  BY <1>1, <1>2, HeaderStep, PTL DEF Spec

LEMMA PlacesKept == TypeOK /\ [Next]_vars => TypeOK'
<1> SUFFICES ASSUME TypeOK, [Next]_vars PROVE TypeOK'
  OBVIOUS
<1> USE DEF TypeOK
<1>1. /\ "/login" \in Places /\ "/" \in Places /\ "/awaiting-approval" \in Places
      /\ "/app" \in Places /\ Settings \in Places /\ Paths \subseteq Places
  BY OpenRoutes, ConsoleRoutes DEF OpenPaths, AppPaths, APP_NAV, Places
<1>2. FreshHeader \in [pointer : Menus \cup {NoMenu}, active : Menus \cup {NoMenu},
                       closing : BOOLEAN, drawer : BOOLEAN]
  BY DEF FreshHeader
<1>3. ASSUME NEW p \in Places, NEW state \in Places \cup {Nowhere}, GoTo(p, state)
      PROVE  /\ at' \in Places /\ from' \in Places \cup {Nowhere}
             /\ header' \in [pointer : Menus \cup {NoMenu}, active : Menus \cup {NoMenu},
                             closing : BOOLEAN, drawer : BOOLEAN]
  BY <1>2, <1>3 DEF GoTo
<1>4. CASE FollowLink
  <2>1. PICK p \in Offered : GoTo(p, Nowhere) /\ wanted' = Nowhere /\ UNCHANGED <<role, wide>>
    BY <1>4 DEF FollowLink
  <2>2. p \in Places
    BY <1>1, OfferedLead DEF HeaderType, LinksLead
  <2> QED
    BY <1>3, <2>1, <2>2
<1>5. CASE Redirect
  BY <1>1, <1>3, <1>5 DEF Redirect
<1>6. CASE SignIn
  BY <1>1, <1>3, <1>6 DEF SignIn
<1>7. CASE SignOut \/ Load
  BY <1>1, <1>2, <1>7 DEF SignOut, Load, Roles
<1>8. CASE Applied
  BY <1>1, <1>3, <1>8 DEF Applied
<1>9. ASSUME NEW m \in Menus, openMenu(m) PROVE TypeOK'
  BY <1>9 DEF openMenu
<1>10. CASE scheduleClose \/ TimerFires \/ ToggleDrawer \/ Resize
  BY <1>10 DEF scheduleClose, TimerFires, ToggleDrawer, Resize
<1>11. CASE UNCHANGED vars
  BY <1>11 DEF vars
<1> QED
  BY <1>4, <1>5, <1>6, <1>7, <1>8, <1>9, <1>10, <1>11 DEF Next

(* Nobody is ever at, or sent from, an address without a route but the one  *)
(* Login.tsx makes up for who must change the password.                     *)
THEOREM PlacesCorrect == Spec => []TypeOK
<1>1. Init => TypeOK
  BY DEF Init, TypeOK, FreshHeader, Places
<1> QED
  BY <1>1, PlacesKept, PTL DEF Spec

(* One redirect is enough, wherever the person is and whoever he is: the    *)
(* targets of RequireAuth, RequireAdmin and App.tsx's fallback all admit    *)
(* whom they are for.                                                       *)
THEOREM RedirectSettles == Spec => RedirectsSettle
<1>1. Redirect => Admits(at', role')
  <2> SUFFICES ASSUME Redirect PROVE Admits(at', role')
    OBVIOUS
  <2>1. CASE at \notin Paths \/ role = "visitor"
    <3>1. at' \in OpenPaths
      BY <2>1 DEF Redirect, GoTo, OpenPaths
    <3> QED
      BY <3>1, PartsOfTheSite DEF Admits
  <2>2. CASE at \in Paths /\ role # "visitor"
    <3>1. at' \in AppPaths /\ RequireAuth(role')
      BY <2>2 DEF Redirect, GoTo, AppPaths, APP_NAV, RequireAuth
    <3> QED
      BY <3>1, PartsOfTheSite DEF Admits
  <2> QED
    BY <2>1, <2>2
<1>2. [Next]_vars => [Redirect => Admits(at, role)']_vars
  BY <1>1 DEF Admits, GuardAt, RequireAuth, RequireAdmin
<1> QED
  BY <1>2, PTL DEF Spec, RedirectsSettle
=============================================================================
