# Verification of AffectLog T-AI

AffectLog is a server (FastAPI over PostgreSQL, with background threads for
audits) and a React front end that guide a user from a dataset to a documented
audit. This directory holds TLA+ models of the parts of it that keep state and
that several actors act on at once, the TLC runs that check them on small
instances, and TLAPS proofs of what matters most for instances of every size.

Source paths below are relative to `src/affectlog/` in the repository, front
end paths to `frontend/src/` under it.

- [The system](#the-system)
- [The modules](#the-modules)
- [The runs](#the-runs)
- [Fairness](#fairness)
- [What is proved](#what-is-proved)
- [What the code does otherwise than it says](#what-the-code-does-otherwise-than-it-says)
- [Not modelled](#not-modelled)
- [Plan](#plan)

## The system

| Part | State it keeps | Operations | Hard behaviour | What makes it correct | Here |
|---|---|---|---|---|---|
| Account onboarding (`auth/registration.py`, `auth/onboarding.py`, `api/routers/{public,admin}.py`) | tables `pending_registrations`, `users`, `activation_tokens` | register, approve, reject, request info, activate, resend, disable | administrators and applicants at once at READ COMMITTED; e-mail sent before the commit; rollback | one account per approved applicant; an account is on only by its own token; older links die; nobody waits for ever; every application ends | `AccountOnboarding`, `AccountLifecycle`, `OnboardingAtomic` |
| Wizard run execution (`wizard/executor.py`, `api/routers/wizard.py`, `recipes/runner.py`, `components/wizard/StepRunProgress.tsx`) | `_WIZARD_RUNS` in memory, one directory per run with its artifacts and `wizard_meta.json` | submit, the two pipelines, status, results, polling | thread against requests, restart, files half written | completed means every output is there, and stays so; every run ends | `WizardRun`, `RunLifecycle` |
| Wizard page (`components/wizard/WizardShell.tsx` and its steps) | step, completed steps, form, answers of five calls | edit, Continue, Back, jump, five calls and their answers | handlers that go on after an await while the user acts | no step is skipped; what is on show fits together; what runs is what was confirmed | `WizardShell`, `WizardGuide` |
| Recommender, guardrails, validator (`wizard/recommender.py`, `capabilities/guardrails.py`, `wizard/validator.py`) | none | recommend, validate | the two read different fields of one plan | what is offered is not blocked | `WizardPlan` |
| Routes, guards and links (`App.tsx`, `auth/RequireAuth.tsx`, `pages/public/*`, `design-system/layout/*`, `CTAGroup.tsx`) | address, router state, header menus and drawer | follow a link, redirect, sign in and out, hover | links, guards and the sidebar are kept apart; a closing timer against the pointer | every link leads somewhere its reader may go; who is sent to sign in comes back | `SiteMap`, `SiteNavigation` |
| Login, sessions, roles (`api/routers/auth.py`, `auth/*`, `auth/AuthProvider.tsx`, `api/client.ts`) | table `sessions`, `users.is_active`; cookie and hint of the browser; each tab's user | login, logout, who am I, load a page, expire, disable | tabs share the cookie, not the user; answers lost or late; sessions that end unannounced | a page shows whom its calls are made for; who signs out is signed out | `BrowserSession` |
| Audit runs (`api/routers/audits.py`, `recipes/runner.py`, `core/run_context.py`, CLI) | `_run_status` in memory, run directories | start, write, complete, fail, status, documents | background task, restart, documents of a run that failed | what is reported completed has all its documents | `AuditRuns` |
| Pages that keep state (`pages/{Audit,Compliance,Datasets}.tsx`, `pages/admin/PendingRegistrations.tsx`, `pages/public/RequestAccess.tsx`) | what each shows, its calls and timers | start and follow a run, load by id, validate, decide, submit | two loops or loads at work on one page, fields edited during a call, lost answers | what is on show belongs together and is current | `AuditPage`, `CompliancePage`, `DatasetsPage`, `AdminLists`, `AccessForm`, `Pages` |
| Tenancy, quotas, support access (`tenancy/*`, `api/routers/platform_admin.py`) | `tenants` and their settings | create, suspend, reactivate, change | a tenant suspended while it is used | limits hold, support access ends | planned |
| Output contract (`wizard/{output_contract,planner}.py`, `capabilities/{exports,plots}.py`) | none | build a contract from a plan | promise against what a run writes | every promised artifact is written | planned |
| Ingestion and transform (`ingest/*`, `transform/*`) | counters of one pass | read in chunks, map rows | chunk boundaries, malformed rows | every row is counted once | planned |
| Privacy (`privacy/*`) | key of the pseudonymizer | pseudonymize, detect, redact | which fields leave in the clear | no identifier leaves unless asked for | planned |
| Input inspection, metrics, profiling, explanations, compliance documents, interoperability, models, dataset and recipe endpoints, the pages that only show, e-mail and configuration | none between requests | | | | no, see below |

How they interact. The page calls `inspect`, `recommend-analyses`,
`validate-plan`, `output-contract`, `run` and, once a run is completed,
`results`. `create_run` validates the plan once more and starts a daemon thread,
which for xAPI formats calls `run_audit` of `recipes/runner.py` and publishes
its status in the process; the progress page polls that status. Onboarding and
login share the `users` table and the sessions of `db/session.py`, where
`get_db` commits after the handler returns and rolls back when it throws. The
wizard and onboarding share no state.

A session is a row of the server and a cookie that no script reads; the front
end knows of it from `GET /api/auth/me`, which every tab's `AuthProvider` asks
for itself. The guards of the routes go by that copy, the server by the cookie.
The audit page starts a run with `POST /v1/audits/run` and polls it; the
compliance page reads what the run left in its directory; the list of pending
registrations shows and decides what onboarding keeps. A page is mounted when
its route is reached and starts afresh each time.

PROJECT.json lists every component with its sources, and the hazards of this
code with the line where each bites and the properties that would catch it.

## The modules

| Module | What it is |
|---|---|
| `AccountOnboarding` | the onboarding handlers as interleaved transactions |
| `AccountLifecycle` | what onboarding promises, whatever overlaps |
| `OnboardingAtomic` | onboarding if every handler were one step |
| `WizardRun` | the run threads, their files, the endpoints and the progress page |
| `RunLifecycle` | what a status endpoint promises |
| `WizardPlan` | pure: what the recommender offers, what the guardrails block |
| `WizardShell` | the ten steps of the page, the form, the calls; extends `WizardPlan` |
| `WizardGuide` | the wizard if every call were answered at the click |
| `SiteMap` | constant: every route with its guard and the links of its page |
| `SiteNavigation` | a person walking through it, signed in or not; the public header; extends `SiteMap` |
| `BrowserSession` | sessions, cookie, hint and tabs, with every call in three steps |
| `AuditRuns` | the audit runs of the API and what they leave on disk |
| `AuditPage`, `CompliancePage` | two pages over those runs; extend `AuditRuns` |
| `DatasetsPage`, `AdminLists`, `AccessForm` | three pages with state of their own |
| `Pages` | the five pages and the server, one page mounted at a time |
| `...MC` | small sets for TLC, and the symmetries |
| `...Proofs` | the theorems of each module |

Definitions whose names start with `MUT_` are deliberately wrong variants of the
definition that follows them. No specification uses them: each is how a
plausible bug would look, and the property named beside it in PROJECT.json
fails when it is put in the place of the right one. PROJECT.json `map` names
the source lines of each definition.

### AccountOnboarding

A request of `api/routers/public.py` or `admin.py` is one transaction, cut where
another one can come in between:

- `Begin...` does the SELECTs and the checks on what they return. A request
  whose checks fail answers 4xx and changes nothing, so it is no step at all.
- `Lock` writes one row, which locks it (`held`). A row that another request
  holds blocks it (`Locked`), and a unique key that is taken ends it
  (`DuplicateKey`). `Turn` is the order of one request's rows: the user, which
  `approve_registration` flushes first and the unit of work writes before what
  refers to it; the registration; then tokens, where the bulk UPDATE of a resend
  takes them as its scan finds them (`Place`).
- `Flush`: all rows are written and the e-mail is sent, which arrives or does
  not: `send_email` returns `False` and the handler goes on.
- `Commit...` makes the rows visible and gives up the locks.
- `Rollback` stands for any exception or crash on the way, and undoes all but
  the e-mail.

The request keeps what it read (`seen`, `doomed`), because that, and not the row
as it is by then, decides what it writes: the ORM writes only the columns that
differ from the values it loaded. `resend_activation`'s bulk UPDATE looks again
at each row it matched once it has the lock, and leaves alone one that no longer
matches (`Mismatch`): the one write that does not go by what was read.

`registration` and `account` are the status columns, `owner`, `used` and
`expired` the token table, `inbox` the tokens whose plaintext somebody has.
`approvals` and `activations` count commits; they are history that no guard
reads. Passwords, roles, workspaces, notes and audit events are left out.

`AccountLifecycle` sees of an applicant only absent, applied, inactive, active
and whom each token was issued to; `Stage` is the refinement mapping.

The handlers promise more when requests do not overlap, and the last section of
the module says which requests: `OneActivation`, `OneResend` and `NoStaleLink`
name overlaps that break something two theorems are about, `Apart` excludes all
that are about one applicant. `OnboardingAtomic` is what the handlers then
amount to: its actions are the handlers, each one step on the tables. Of its
variables `delivered` is mapped to the mailed tokens whose row is there
(`Delivered`: an e-mail that went out before a rollback is none), and `expired`
to the tokens past their time but for one an activation has already found good
(`Lapsed`): that activation counts as before the clock.

### WizardRun

A run's thread (`_run_background`) is cut at every file it writes and every
status it publishes. `Outputs` are the files of either pipeline in the order of
the code; `Fail` is any exception inside the try block, `StartFails` the one
outside it. `OpenMeta` and `CloseMeta` are the two halves of `write_text` on
`wizard_meta.json`. The order of publishing and saving differs between the
pipelines and is the point of the module: `_run_tabular` publishes first,
the recipe branch saves first.

`Crash` ends the process and all its threads and empties `_WIZARD_RUNS`; the
next request finds what the files tell (`Reported`, which is `get_run_status`
with its fallback to `wizard_meta.json`). `get_run_results` reads the status
twice, so it is two steps. `Poll` is one tick of the progress page that changes
it; a tick that finds the run still going changes nothing. `PollLost` is a
request without an answer: any exception ends the polling, whatever becomes of
the run. `PollAgain` is the page polling anew, which its effect does whenever the
wizard is rendered with another `onComplete`.

`RunLifecycle` is what a client may rely on. Its state is `Report`: the answer of
the status endpoint, but running for a run that is completed and not yet saved.

### WizardPlan

The registry of `capabilities/analyses.py` has nearly fifty analyses. The
recommender and the guardrails tell apart only the formats, the inputs and the
mapped roles that an analysis requires, and which of them the guardrails name.
So one analysis stands for all with the same requirements. A field mapping is
absent, cleared (the page leaves `""` behind), a text column or a numeric one,
because `_is_analysis_available` tests for the key and the guardrails for the
value. `Available` is the recommender's test, the `check_...` operators are the
guardrails of the same names, and `Verdict` is `validate_plan`. Of the plots
there are those that a guardrail looks at. `RefusedOffer` sums up where the two
disagree: what needs a model or predictions, whose keys the page never sends,
what reads a label that was cleared or a target that is text, and a curve that
was ticked while there were probabilities, stays ticked when they are taken
back, and is then no longer on show to be unticked.

### WizardShell

One action for each thing the user can do at a step, with the guard the page
gives it: a button that is not shown or is disabled is no enabled action.
A call is an entry of `calls` with what its handler keeps in its closure: the
step it was clicked at, the plan as it was rendered then, the run. `Answered`
is the rest of the handler after the await. Answers come in any order, or not
at all. `Advance(from)` is `advanceStep`: it marks the step of the closure as
completed, but adds one to the step the page is at by the time of the answer.

`overlapped` is history: whether the user (or the progress page) has done
anything while a call was in flight. The page disables only the Run button
during a call, so all of that is possible, and two of the properties hold only
for a user who waits. The rest of the invariant holds for anybody.

`WizardGuide` is the wizard as such a user may think of it. It has no calls: an
inspection, a recommendation or a contract is made of the plan as it is and
there at once. `PatientSpec` is the page for him, and the refinement maps its
form to one plan (`Plan`) and the answer of the inspector to whether the format
is known (`KnownFormat`). Its `Run` says what is left of "the user must confirm
before running" when `RunsAsConfirmed` has failed: the first visit to step 9
comes with a confirmation, and nothing runs that the validator blocks now or
blocked in the contract on show.

The mode decides which files count as given (`Given`), and not which are named
in the plan. Left out: presets, plots that no guardrail looks at, the privacy
switches other than the acknowledgement, of the model context all but whether
there are probabilities, and the inspector's confidence. What a dataset contains
(`Detected`: a format, and which of the columns that are known by name) is a
constant.

### SiteMap, SiteNavigation

`SiteMap` is the front end's content as far as a person can move by it: one set
of addresses per section of a page, one record per `<Route>`. It is long because
the site is. A link the code gives by `href` to another site, or an accordion
that only opens, is left out. `CTABand` is modelled by what it does with its
items: one that has an address of the old kind (`href`) and no `to` leads to `/`.

In `SiteNavigation` the links on show (`Offered`) depend on the page, on the
window, on the open menu and on the role. `GoTo` unmounts the page and its
header with it. `from` is the router state that `RequireAuth` leaves for the
sign-in page; a reload keeps it, following a link does not. `wanted` is
history: where a visitor was when he was turned away.

### BrowserSession

A call is sent with the cookie of that moment, served, and answered: three
steps, between which anything may happen, and it may fail before or after it
was served. `Refreshed` is the end of `AuthProvider.refresh`: any failure counts
as "signed out" and takes the hint away. `handler` is the one handler a tab may
have at work (`Login.handleSubmit`, which logs in and then refreshes, or
`logout`), `probe` the refresh of its page load.

The end of a logout sets `window.location.href`, and the old page goes on until
the new one is there: the handler is then in its phase `leave`, a probe that is
answered meanwhile brings the person and the hint back, and `Load` ends it. A
login whose answer is cut short after its headers has set the cookie and yet
fails (`LoginFails`).

`disturbed` is history, and says what the properties have to except: something
the page was never told (`unheard`: a lost answer, an expired session, a
disabled account) or two things at once (`crossed`: another tab that changed
cookie, hint or session; a login or logout while the probe is on its way; a
login that was cut short). Of what has come between, the worse is remembered.

The server's part of a call is one step, its commit included, and its answer
leaves after it. That is so of `get_db` up to FastAPI 0.117; `pyproject.toml`
allows later ones, under which the commit comes after the answer. Everything this
module says of who a tab shows rests on the former.

### AuditRuns and the pages

A background task writes the documents the pages ask for in the order of
`run_audit` (what the recipe exports, then the dashboard) and then publishes how
it ended. A restart forgets the status and leaves the files; the endpoints for
the documents look at the files alone. `write_text` truncates a file and then
fills it, two steps between which it can be read, and between which a failure or a
restart leaves it (`partial`). A graph or a dashboard in that state is no JSON,
which is an error answer like any other; an SOP is answered with status 200 and
the part of its text there is, and the compliance page shows it (`Part`). No
property rules that out: the page cannot tell. What holds is that a completed run
has none of it (`CompletedHasResults`).

Each page is one record, with its fields named after the state variables of its
component. `Loops` of `AuditPage` are the invocations of `handleRun`: nothing
disables the form below it that loads a run by its id, so a second one can begin
while the first is at work (`mixed`). `CompliancePage` has the two requests of
`Promise.all` answered one by one. `AdminLists` has loads and decisions as
slots: a load takes the rows off the page, so the row a decision was clicked in
may be gone when its answer comes (`row`). A decision reads its item and commits
in two steps, so that two of one item can both go through. `AccessForm` waits and
sends nothing, as `handleSubmit` does. Its steps fade over one another
(`AnimatePresence mode="wait"`): the one that is left stays on the page with
fields and buttons that work and look as they did (`shown`, `ready`), so it can
be gone back from, submitted or cleared while another is already the step. How
long a fade (0.3 s) and the wait (1.2 s) take is not compared: either may end
first.

`Pages` mounts one of them at a time. `Mount` drops all that was under way on
the page; if a dropped request reaches the server all the same, it is a request
of somebody else (`Others`, `StartFails`).

## The runs

| Run | Instance | States | Checks |
|---|---|---|---|
| `onboarding_contended` | one applicant, two tokens, two requests | 153,000 | what holds under every interleaving; `ImplementsLifecycle`; every request ends |
| `onboarding_reuse` | one applicant, two tokens, two requests | | violated: a token activates twice |
| `onboarding_apart` | two applicants, three tokens, two requests | 400,000 | `ImplementsAtomic`: handlers are atomic if none about one applicant overlap |
| `onboarding_more_info` | one applicant, two tokens, two requests | | violated: an application is never decided |
| `wizard_any` | two runs of either kind, every fault | 145,000 | completed has outputs, failed stays failed, completion is lost only between publishing and saving, `ImplementsRunLifecycle`, the page settles |
| `wizard_restart` | one tabular run | | violated: a completion is taken back |
| `wizard_shell` | two datasets, both modes, a model, two calls, two runs, three detours | 2,540,000 | the page's invariant; who waits skips no step |
| `shell_patient` | three datasets, both modes, every file, labels mapped, cleared or of text, plots, one call, one run, five detours | 1,760,000 | `ImplementsGuide`: to a user who waits, each call is one step; what is blocked of what was offered |
| `shell_stale` | one dataset, one call | | violated: what runs was not confirmed |
| `site` | the whole site map, every address to begin with, three roles | 2,808 | links lead, the menu in use stays open, signing in returns, one redirect is enough |
| `session` | two tabs, two accounts, two logins | 502,000 | a tab agrees with the server or was disturbed, is never somebody else's, its spinner ends; signing out signs out |
| `pages` | two runs, two loops, two loads, two decisions, two files, two submissions | 579,000 | the pages' invariant, what each shows, and that the audit page stops waiting |

### Bounds

- **Emails, Tokens, Workers.** Rows of different applicants share no column,
  key or lock, and `Stage` maps each alone; one applicant shows every
  interleaving on its rows. A second one would only matter if a request could
  touch another's rows, which `onboarding_apart` has. `Tokens` bounds approvals
  and resends: two are the first and the one that replaces it, a third lets both
  applicants have one and one be replaced. Two requests are two that race, again
  and again. With two tokens a resend never has two rows to lock; in what order
  it takes several (`Place`) matters to `NoMutualWait` alone, which is proved for
  any number of tokens and requests (`NeverMutual`). An activation, an approval
  and a disable do take two rows or wait for one of two, which is what
  `RequestsEnd` is checked about; with the order of `Turn` given up TLC finds
  `RequestsEnd` violated.
- **Runs, Faults.** Runs share nothing but the process, which `Crash` stops for
  all: two are enough.
- **Slots.** Two calls in flight are a stale and a fresh one. **MaxEdits**
  bounds detours: going back, jumping, changing the dataset, files, format,
  mappings or analyses. The straight way through the page takes no edit but the
  entry of a dataset, so three leave two: enough to go back and change one
  thing, or change one thing while a call is in flight. `shell_patient` has
  five, for a dataset, two files and two labels, or for one of each and going
  back. One slot is all that a user who waits can fill. **MaxRuns** of two lets a
  second run follow the first, while the results of that are on their way. The
  disjunct of `RefusedOffer` about the curves takes more edits than five (a
  dataset, two labels, two files, an analysis, a plot, and the way back): it is proved
  (`OfferBlockedIff`, `OffersJudged`), and not reached by the run.
- The datasets are a Maskott file, a table and one that is not supported: the
  three ways `inspect` can turn out for the page. `wizard_shell` has no table,
  and of the files the model alone: what is at hand changes what is offered
  and blocked, which is what `shell_patient` is about, and nothing in the order of
  answers. The plots are ticked in `shell_patient` only, for the same reason.
- **The site** has no bound: all its routes, from each of them, with both
  widths of the window. `Menus` are those of the header.
- **Tabs, Users, Tokens.** A tab sees of all others only what they do to cookie,
  hint and session, so one other tab stands for them. Two accounts are oneself
  and somebody else, two tokens a session and the one that replaces it.
  `Watched` is the one account an administrator disables: the other would
  behave alike.
- **Tours.** The pages that are visited one after another. Audit and compliance
  are both over the runs; the other pages share nothing with them or with each
  other, so visiting them in turn would only multiply the states, and the runs
  stand still while they are mounted.
- **Recipes.** The recipe that exports everything: a run of it that is going or
  has failed stands for one that exports less.
- **Loops, Loads, Clicks.** Two at once are one and the one it crosses. A third
  can only begin once `mixed` or `crossed` is history, which the properties
  except. **MaxPolls** is 2 where the code has 60: the first poll that finds
  nothing and the last.
- **Backlogs, MaxWaits.** The list begins empty, and whoever else acts fills it;
  a page that is mounted later finds it as it is by then. Two submissions at once
  are what a fading step that looks as it did lets one have.

Tokens, workers and slots are interchangeable and declared so (`SYMMETRY`) in
`onboarding_apart` and `wizard_shell`, which check safety only. The order of the
tokens' rows (`Place`) tells tokens apart, but no resend of `onboarding_apart` ever
finds two live ones to order. Deadlock is checked except in the wizard page's
runs: a user who has spent his edits and has his results is done.

## Fairness

- `FairSpec` of `AccountOnboarding`: a handler once begun is run on by the
  server, hence WF on `Flush` and `Commit`. `Lock` may be disabled again and again
  by other requests' row locks; PostgreSQL queues those who wait for a lock, so a
  request that could have it again and again gets it: SF. A circle of requests
  that wait for one another would disable all their `Lock` steps for good, and no
  fairness would help: PostgreSQL would abort one of them, which is `Rollback`,
  and nothing obliges a request to roll back. Nothing obliges
  anybody to begin a request, and nothing keeps a request from rolling back.
- `DecidingSpec` adds what the violated `ApplicationProcessed` would need from
  the administrators, so that only the code can be to blame: an application
  they can decide again and again they do take up, and some decision commits.
- `FairSpec` of `WizardRun`: a thread that can go on does (WF `ThreadStep`), and
  the page polls every 2.5 seconds and is answered (WF `Poll`). There is no
  fairness on faults, lost requests, restarts or the user.
- `SiteNavigation` has none: that one redirect is enough is an action property.
- `BrowserSession`: a fetch ends, with an answer or with the browser's error: WF
  on the end of the probe, which may be a failure. That is all `SpinnerEnds`
  needs; nothing is assumed of the server or of the handlers.
- `Pages`: WF on each loop of the audit page, while it is mounted: its timer
  fires and its fetches end somehow. The runs need not go on, end or answer:
  it is the count of polls that ends the waiting.
- `WizardShell` has none: it is the user's turn, and nothing is promised of him.

## What is proved

For every value of the constants, by TLAPS:

| Theorem | Says |
|---|---|
| `AccountOnboardingProofs!InvariantHolds` and `TypeCorrect`, `AccountsUnique`, `PendingUnapproved`, `ActiveOnlyByActivation`, `OlderLinkInvalid` | the invariants of the contended run |
| `AccountOnboardingProofs!NeverMutual` | no two requests ever wait for each other's rows, for any number of tokens, requests and any order of the token table |
| `AccountOnboardingProofs!LifecycleImplemented` | onboarding implements `AccountLifecycle` |
| `AccountRaceProofs!LiveTokenUnique`, `ReactivationNeedsToken` | one live token per account unless two resends overlap; an account that is off is turned on by a live token only, unless two activations with one token, or an activation and a resend, overlap |
| `AccountRaceProofs!HandlersAtomic` | if no two requests about one applicant overlap, onboarding implements `OnboardingAtomic` |
| `WizardRunProofs!InvariantHolds`, `CompletedComplete`, `FailureFinal`, `LossWindow` | whatever the plans and the faults: outputs before completion, failure is final, and a completion is taken back only of a tabular run whose thread had yet to save it |
| `WizardRunProofs!CompletionDurable`, `PromisesKept` | of a run of the recipe runner, whatever runs beside it: completion survives restarts, and it has the files the guide promises |
| `WizardRunProofs!LifecycleImplemented` | the status endpoint implements `RunLifecycle`, if a run published and not yet saved counts as running |
| `WizardPlanProofs!OfferedPlanPasses`, `OfferBlockedIff` | when an offered plan is not blocked; exactly when it is |
| `WizardShellProofs!InvariantHolds`, `StepsInOrder`, `OfferPasses`, `OffersJudged` | the page's invariant and what follows from it |
| `WizardShellProofs!ModelAnalysesNeverRun` | no run the page asks for and the server accepts has an analysis that needs a model |
| `WizardShellProofs!GuideImplemented` | for a user who waits, the page implements `WizardGuide` |
| `SiteNavigationProofs!MenuStaysOpen`, `SignInReturns` | the menu in use stays open; who was turned away and signs in is brought back |
| `SiteNavigationProofs!PlacesCorrect`, `LinksHaveRoutes`, `RedirectSettles` | every address that is reached or remembered is one of the site's (or the one of `Login.tsx`); every link on show leads to a page that lets its reader in; one redirect is enough |
| `BrowserSessionProofs!Typed`, `Agrees`, `NobodyElse`, `SignsOut` | what a tab shows, and what becomes of a logout, for any number of tabs, accounts and logins |
| `PagesProofs!PagesSound`, `TypedAndSound` and `AuditFollows`, `DoneIsNotBlank`, `DocumentsBelongTogether`, `VerdictBelongs`, `ListsAreCurrent`, `ReceivedIsComplete` | the pages' invariant and what follows from it |

**Assumptions.** `NobodyIsFresh` and `PlaceAssumption` (two rows of the token
table are in two places, and stay there while the tokens are live); `KnownFormats` and `KnownFaults` of
`WizardRun`; `ShellAssumption`; `SessionAssumption`; `RunAssumption`,
`PollAssumption`, `ComplianceAssumption`, `FileAssumption`, `LoadAssumption`,
`WaitAssumption` and `BacklogAssumption` of the pages. TLC evaluates all of them
in the runs. Beside these stated ones, `BrowserSession` and `AdminLists` have the
server commit before it answers, in every property and theorem about them.
Each theorem of `AccountRaceProofs` assumes in its statement that certain
requests do not overlap, and says which; everything else may. The other theorems
about a specification assume nothing further: what holds only of xAPI runs, or
only without a model, says so in the property.

**AccountOnboarding.** What a commit does is right because of what its request
checked when it began, and between the two anything may have happened. So the
inductive invariant has, beside the properties, what stays true of a request in
flight (`RequestSound`): the token it activates belongs to its applicant for
good, the account it writes cannot vanish, the token it issues is nobody's. That
two approvals cannot both commit needs the lock and the unique key together:
`LocksExclusive` says that no row is held twice, and `RequestSound` that an
approval which holds the user's row has no account before it. `OlderLinkDies`
holds though two resends may overlap, because each spends what it found or finds
it spent (`ResendsDoom`), and the first of all found the token of the approval
(`AccountsHaveTokens`). Nothing relies on a status that was read being still the
status at the commit. `NeverMutual` needs the last line of `RequestSound`: what a
request holds comes before what it has yet to get. Of two requests that wait for
each other, each holds a row the other wants, so both rows have one rank, and
rows of one rank that one request writes are one row. A longer circle would fail
in the same way; the theorem is about two.

**AccountRaceProofs.** The theorems have the form `Spec /\ []NoSuchOverlap =>
[]Property`: the assumption is about the whole behaviour, so that each proof is
an induction in which a step may use what it excludes. Two lemmas carry all
three. `QuietStep` says that between two commits the tables stand still and that
a request begins on what it has just read; `CommitEnds` that a commit ends its
own request and no other. What is left to prove each time is what a commit of
one request does to what another has read: that the token of an
activation is still unspent (`LinkInv`), that a resend has matched all the live
tokens there are (`LiveInv`). For `HandlersAtomic` all of it is still so
(`AllUpToDate`), since no row of an applicant changes but by a request about them
(`CommitLocal`). Then a commit is the handler's one step (`CommitAtomic`), and nothing else shows but a
token running out, perhaps only when the activation that found it good is rolled
back (`QuietAtomic`).

**WizardRun.** The proof follows the thread: `RunSound` says for each place
what the memory and `wizard_meta.json` hold. `meta = "full"` only after every
output is what makes the fallback to the file safe. Its last line says where the
pipelines differ: completed in memory implies complete on disk, but for a
tabular run whose thread is between publishing and saving (`Unsaved`). There,
and nowhere else, a completion is lost. `RunLifecycle` promises that completed is
final, so the refinement takes such a run to be running: then its failure is the
failure of a running run, its save is its completion, and a restart forgets it
as it may.

**WizardShell.** `AnswersFit` needs no more than that every handler sets what it
sets together. `InStep` is about the user who waits: there is at most one call
and it is from the step the page is at, so `Advance`, which mixes the closure's
step with the page's, agrees with itself. `UpToDate` adds that what such a call
asks is still so when it is answered: its dataset or plan is the form's. That is
all the refinement needs: by `PatientAnswer` nothing but the one answer due
comes to a user who waits, and what its handler leaves is then the guide's step.
The validator's answers are about any plan (`OffersJudged`), since `AnswersFit`
keeps the verdict with the contract in every order of the answers.

**SiteNavigation.** `HeaderInv` adds to `OpenUnderPointer` that an armed timer
means the pointer is away: it is `clearTimeout` in `openMenu` that keeps it true.
`SentInv` says that somebody wanted elsewhere is a visitor on the sign-in page
and that the router's state still names the address. The site has three
parts (`PartsOfTheSite`): public pages, console and administration. The pages of
each have one guard and link within their part. A link on show is then one of
its page's, or of the bar, the open menu, the footer or the sidebar around it (`OfferedLead`).

**BrowserSession.** An answer under way is as good as what is on show, so the
invariant is about both. `Uncrossed` says of a tab that nothing crossed that its
calls to `me` carry the cookie of the browser and name nobody but its owner;
`Undisturbed` that, with nothing lost or expired either, they name whom the
server takes the cookie for right now, and that the probe is alone, with the hint
and the spinner. `HandedOut` keeps tokens that nobody was given out of cookies, so
that no login changes whom a cookie stands for.
What other tabs do is one lemma (`Apart`): they leave a tab's own state alone and
either write it into its history or change nothing that it could notice.

**Pages.** `DashboardLast` is what `CompletedHasResults` rests on: the dashboard
comes after the exports and the status after the dashboard. `LoopsSound` carries
it to the loop that was told "completed"; `OneLoop` says why a page of one mind
follows its run. `AnswersSound` says of the two answers held by `Promise.all`
that they are of the run they were asked for. `OneValidation` rests on the
disabled buttons. `FormSound` says of the form that whoever has come to a step, or
can go on to one from a step that is fading, has filled in what is before it.
`ListSound` says where the current list is if it is not on
show: in a load that is under way alone, or still to be asked for, or due
because a decision went through.

**Only model-checked.** Liveness (`RequestsEnd`, `PageSettles`,
`SpinnerEnds`, `RunningEnds`), which is out of the prover's reach. Every
invariant and every other action property a passing run checks has a theorem.
Some theorems state what no run checks by itself: `TypeCorrect`, `Typed` and
`PlacesCorrect` (the types); `CompletionDurable`, `PromisesKept` and
`OfferPasses`, which follow from `LostOnlyUnsaved`, `CompletedHasOutputs` and
`OfferJudged`; and `NeverMutual`, `LiveTokenUnique` and `ReactivationNeedsToken`,
of which the last two assume that certain requests do not overlap.

## What the code does otherwise than it says

Each has a run that TLC finds violated.

1. **"More information" is a dead end** (`onboarding_more_info`). Nothing takes
   up a registration of that status, while the e-mail announces that the
   application will be processed.
2. **A completed tabular run can be forgotten** (`wizard_restart`): it is
   published before it is saved.
3. **An activation token can be used twice** (`onboarding_reuse`):
   `activate_account` reads `used_at` without a lock and sets it by primary key,
   so two overlapping activations with one token both commit and the second
   password wins. `docs/adr/0002-authentication-rbac.md:41` calls the tokens
   single-use.
4. **What runs need not be what was confirmed** (`shell_stale`): nothing clears
   `contractConfirmed`, and the request always says the contract is confirmed.

Seen while modelling, without a run of its own. Onboarding and login:

- Three more overlaps break what a reader would expect, and no run or theorem
  excludes what they do: an approval and a rejection that both read the
  application as pending leave a rejected registration with an account; two
  overlapping resends leave two live tokens (`LiveTokenUnique` assumes there are
  none; `OlderLinkDies` holds all the same); and an activation that overlaps a
  resend turns an account on with a link that is no longer valid
  (`ReactivationNeedsToken` assumes there is none).
- A failed login raises its counter in the transaction that the 401 rolls back.
- One lost or failed `me` takes the hint away, and a page loaded between the
  answer of a login and its refresh never asks: either way a live session is
  hidden until the next login, though the ADR (`:11`) wants sessions that survive
  reloads. `AgreesUnlessDisturbed` excepts both.
- Signing in again leaves the older session live, and disabling an account leaves
  its sessions in the table; `revoke_all_sessions`, quotas and support access
  have no callers.
- Who must change the password is sent to `/app/settings` (`Login.tsx:40`), which
  is no route, and so to `/`.
- `RequireAdmin` goes by role names, the server by permissions.
- The models of the browser (`BrowserSession`, `AdminLists`) take `get_db`'s
  commit to come before the answer. `pyproject.toml:27` allows any FastAPI from
  0.111, and from 0.118 on the commit comes after it: then a tab can ask with a
  session that is not there yet, or load a list without its own decision in it.
  `ListCurrentAtRest` and the properties of `BrowserSession` rest on the former.

Wizard and runs:

- `mkdir` of the run directory stands before the try block of `_run_background`:
  where it fails the run stays queued for ever, and the page polls for ever.
  `PageSettles` excepts it.
- One status request without an answer ends the polling with an error, while the
  run goes on; another render of the wizard may take it up again (`PollAgain`).
- The page sends `model_path` and `prediction_path`, the guardrails look for
  `model_reference` and `predictions_reference`: model-aware analyses are offered
  as available and then blocked, and never run from this page
  (`ModelAnalysesNeverRun`). `OfferJudged` says what else is offered and blocked.
- `get_run_results` may answer `completed` with empty lists, for a run that
  completes between its two reads of the status. The next request is right.
- Two clicks on Continue advance twice. At step 7 that leads to step 9 without
  the confirmation. `NoStepSkipped` is therefore about the user who waits.
- Re-inspecting at step 2 throws the field mappings away.
- The listing of audit runs looks for `manifest.json`, while runs write
  `audit_manifest.json`.
- The plan of a run is kept in memory only: after a restart a completed run has
  none.
- `run_audit` makes up an id of its own for its documents (`recipes/runner.py:297`);
  the audit page shows it, and no endpoint knows it.

Pages:

- A run loaded by its id while another is going, and then a new audit, leave two
  loops at work on one page (`mixed`): the one that ends last decides what is on
  show.
- The compliance page shows the text of an error answer as the SOP, and names its
  downloads by the id that is in the field by then.
- A load of the pending list puts new rows on the page: what is under way in the
  old ones can be asked for again (and is refused, unless both requests read it
  as pending), and a token shown in development is gone.
- Of two loads of the pending list the one answered last stays, be it the older
  one (`crossed`).
- An SOP that is being written, or was when the process died, is served and shown
  as if it were whole.
- What is changed on the access form during the wait, or in a step that is fading,
  is not what was checked: an organization cleared then is received as it is
  (`touched`). A fading last step can be submitted twice.
- The list of recipes that fails to load leaves the audit page's Start disabled.
- `RequestAccess.tsx` sends nothing, though `docs/managed-operations.md:121` says
  which endpoint it submits to.
- `CTABand` leads to `/` for items that have only an `href`, though
  `docs/visual-qa-checklist.md:105` expects the correct routes. The links to
  `/api/docs` reach the server, which serves its documentation at `/docs`.
- A drawer that is open when the window is widened leaves the page unscrollable.

## Not modelled

Numerical code (metrics, profiling, explanations) computes floating point
functions of one data frame, without state and out of TLC's arithmetic. Input
inspection and PII detection are heuristics on the content of a file; their
outcome is a constant where it matters. Compliance documents and reports render
finished results: `WizardRun` has them as files that are written or not. Model
adapters, the dataset, recipe, transform and capability endpoints keep nothing
between requests. The interoperability clients call once and do not retry; the
job queue is a stub that nothing calls. Of e-mail, only the fate of the
activation message is modelled, and of `db/session.py`, commit and rollback.

Of the front end, the pages that show one answer of the server (models, users,
audit log), the charts and the drawings, and the choices inside the wizard's
steps that the page hands on unread. Unused content (`content/homepage.ts`,
`content/marketing`) has no behaviour.

Of the modelled parts: role and workspace assignment, `access_expires_at`
(stored and never read), admin notes, audit events and listings of onboarding;
the content of artifacts, the plan and scope endpoints and artifact download of
the runs; the presets of the wizard page, the plots no guardrail looks at, and of its model
context all but the probabilities; permissions,
rate limits, forgotten and changed passwords of login; the listing, the metrics
endpoint, a caller's own output directory and the CLI of the audit runs; what
the pages show beside the runs' documents; links that leave the site.

Not modelled because nothing uses it: quotas and support access, and the job
queue.

## Plan

Done, in the order of importance: onboarding, run execution, the wizard page with
its plan checks, the session between browser and server, the routes and links,
the audit runs with the pages over them. What is left, in order:

1. Forgotten and changed passwords, whose tokens share `users` with
   `AccountOnboarding`, and its composition with `BrowserSession`: what an
   activation, a disable or a reset does to the sessions there are.
2. The output contract: promised artifacts against those `WizardRun` writes, and
   the composition of wizard page, plan and run: what the contract on show
   promises is in the directory of the run it led to.
3. The listing of audit runs, which goes by other files than the runs write, and
   a second refinement of `RunLifecycle` by the API's own runs.
4. Chunk boundaries and row accounting of the readers and the Maskott transform,
   against a whole-file reference definition.
5. Which fields leave the pseudonymizer in the clear under which settings.
6. What platform administrators do to a tenant in use.
