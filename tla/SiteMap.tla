------------------------------ MODULE SiteMap ------------------------------
(***************************************************************************)
(* The front end's pages as a graph: the routes of App.tsx with the guard   *)
(* each stands behind, and for every page the addresses its links lead to.  *)
(* A page is abstracted to its links; text and layout are left out, and so  *)
(* are links that leave the site or open a document of the API in a tab of  *)
(* its own.                                                                 *)
(***************************************************************************)

(* What a call-to-action is given: a route of the site or an address of any *)
(* kind.                                                                    *)
To(path)   == [to |-> path]
Href       == [href |-> "elsewhere"]

(* The closing band of a marketing page renders each of its items as a      *)
(* router link to item.to, and to "/" when the item has none.               *)
CTABand(items) == {IF "to" \in DOMAIN i THEN i.to ELSE "/" : i \in items}

----------------------------------------------------------------------------
(* Marketing pages *)

HomeHero       == {"/request-access", "/community", "/product"}
HomeGrid       == {"/product"}
HomeEditions   == {"/community", "/request-access"}
HomeEcosystem  == {"/ecosystem"}
HomeDevelopers == {"/developers"}
HomeClosing    == CTABand({To("/request-access"), To("/community"), To("/docs")})

HomePage == UNION {HomeHero, HomeGrid, HomeEditions, HomeEcosystem, HomeDevelopers, HomeClosing}

ProductPage == {"/guided-assessment", "/dataset-audit"} \cup
               CTABand({To("/guided-assessment"), To("/dataset-audit"), To("/request-access")})

GuidedAssessmentPage == {"/login", "/dataset-audit"} \cup
                        CTABand({To("/login"), To("/dataset-audit"), To("/request-access")})

DatasetAuditPage == {"/login", "/guided-assessment"} \cup
                    CTABand({To("/login"), To("/guided-assessment"), To("/openapi")})

ModelAssessmentPage == {"/login"} \cup CTABand({To("/login"), Href})

ComplianceExportsPage == {"/login", "/openapi"} \cup CTABand({To("/login"), Href, To("/request-access")})

EcosystemPage == {"/product", "/ecosystem", "/dataset-audit"} \cup CTABand({To("/product"), Href})

OpenAPIPage == CTABand({Href, To("/self-host")})

DocsHero  == {"/openapi", "/self-host"}
DocsCards == {"/openapi", "/self-host", "/security"}
DocsPaths == {"/dataset-audit", "/security", "/model-assessment", "/self-host", "/developers",
              "/request-access"}
DocsPage  == DocsHero \cup DocsCards \cup DocsPaths \cup CTABand({Href, To("/openapi")})

CommunityEdition == {"/self-host"} \cup CTABand({Href, To("/self-host"), To("/cloud")})

ManagedCloud == {"/request-access", "/community"} \cup
                CTABand({To("/request-access"), To("/community"), To("/security")})

PricingTiers == {"/community", "/request-access"}
PricingPage  == PricingTiers \cup CTABand({To("/request-access"), To("/community"), To("/self-host")})

SelfHost == {"/security"} \cup CTABand({Href, To("/community"), To("/request-access")})

DevelopersPage == CTABand({Href})

SecurityPage == {"/request-access"} \cup CTABand({To("/request-access"), Href})

RequestAccess == {"/", "/community"}

----------------------------------------------------------------------------
(* The pages around signing in *)

LoginPage        == {"/", "/forgot-password", "/register"}
Register         == {"/", "/login", "/awaiting-approval"}
AwaitingApproval == {"/"}
Activation       == {"/", "/login"}
ForgotPassword   == {"/", "/login"}
ResetPassword    == {"/", "/login"}

----------------------------------------------------------------------------
(* The console *)

AppHome == {"/app/wizard", "/app/datasets", "/app/compliance", "/app/models", "/app/audit"}

(* The wizard's own routes: the list of past runs, a new assessment, and    *)
(* the results of a run, all under /app/wizard/*.  WizardShell leaves to    *)
(* /app from its first step.                                                *)
WizardHome  == {"/app/wizard/new", "/app/wizard/runs"}
WizardPages == {"/app"}

AdminDashboard == {"/admin/pending-registrations", "/admin/users", "/admin/audit-log",
                   "/admin/system", "/admin/email"}

APP_NAV   == {"/app", "/app/wizard", "/app/datasets", "/app/audit", "/app/compliance", "/app/models"}
ADMIN_NAV == {"/admin", "/admin/pending-registrations", "/admin/users", "/admin/audit-log",
              "/admin/email", "/admin/system"}

MUT_ConsoleSidebar_AdminForAll(variant, role) ==
    {"/"} \cup (IF variant = "admin" THEN ADMIN_NAV ELSE APP_NAV \cup {"/admin"})

(* The sidebar of the console: the logo, the navigation of its variant, and *)
(* in the application the administrators' way to /admin.                    *)
ConsoleSidebar(variant, role) ==
    {"/"} \cup (IF variant = "admin" THEN ADMIN_NAV ELSE APP_NAV)
          \cup (IF role = "admin" /\ variant # "admin" THEN {"/admin"} ELSE {})

----------------------------------------------------------------------------
(* Header and footer of the public pages *)

Menus == {"product", "platform", "ecosystem", "developers", "resources"}

NAV_MENUS == [
    product    |-> {"/product", "/guided-assessment", "/dataset-audit", "/model-assessment",
                    "/compliance-exports"},
    platform   |-> {"/community", "/cloud", "/security", "/openapi", "/pricing"},
    ecosystem  |-> {"/ecosystem"},
    developers |-> {"/openapi", "/developers"},
    resources  |-> {"/docs", "/self-host", "/ecosystem", "/security"}]

HeaderBar    == {"/", "/login", "/self-host", "/request-access"}
HeaderNarrow == {"/", "/request-access"}
DrawerBar    == {"/", "/request-access", "/self-host", "/login"}

PublicFooter ==
    {"/product", "/guided-assessment", "/dataset-audit", "/model-assessment", "/compliance-exports",
     "/community", "/cloud", "/security", "/openapi", "/pricing", "/developers", "/ecosystem",
     "/docs", "/self-host"}
FooterBand == {"/request-access", "/self-host", "/docs", "/", "/openapi"}

----------------------------------------------------------------------------
(* The route table of App.tsx: path, guard, links of the page's own.        *)

Route(path, guard, links) == [path |-> path, guard |-> guard, links |-> links]

MarketingRoutes ==
    {Route("/", "open", HomePage), Route("/product", "open", ProductPage),
     Route("/guided-assessment", "open", GuidedAssessmentPage),
     Route("/dataset-audit", "open", DatasetAuditPage),
     Route("/model-assessment", "open", ModelAssessmentPage),
     Route("/compliance-exports", "open", ComplianceExportsPage),
     Route("/ecosystem", "open", EcosystemPage), Route("/openapi", "open", OpenAPIPage),
     Route("/docs", "open", DocsPage), Route("/community", "open", CommunityEdition),
     Route("/cloud", "open", ManagedCloud), Route("/pricing", "open", PricingPage),
     Route("/self-host", "open", SelfHost), Route("/developers", "open", DevelopersPage),
     Route("/request-access", "open", RequestAccess), Route("/security", "open", SecurityPage)}

AuthRoutes ==
    {Route("/login", "open", LoginPage), Route("/register", "open", Register),
     Route("/awaiting-approval", "open", AwaitingApproval), Route("/activate", "open", Activation),
     Route("/forgot-password", "open", ForgotPassword),
     Route("/reset-password", "open", ResetPassword)}

AppRoutes ==
    {Route("/app", "auth", AppHome), Route("/app/wizard", "auth", WizardHome)} \cup
    {Route(p, "auth", WizardPages) : p \in WizardHome} \cup
    {Route(p, "auth", {}) : p \in {"/app/datasets", "/app/audit", "/app/compliance", "/app/models"}}

AdminRoutes ==
    {Route("/admin", "admin", AdminDashboard)} \cup
    {Route(p, "admin", {}) : p \in ADMIN_NAV \ {"/admin"}}

Routes == MarketingRoutes \cup AuthRoutes \cup AppRoutes \cup AdminRoutes

PathsOf(routes) == {r.path : r \in routes}
Paths == PathsOf(Routes)

RouteAt == [p \in Paths |-> CHOOSE r \in Routes : r.path = p]
============================================================================
