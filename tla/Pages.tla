------------------------------- MODULE Pages -------------------------------
(***************************************************************************)
(* The pages of the web frontend that keep state of their own, with the      *)
(* server code they call; the action list of the workflow builder counts as  *)
(* one.  Each behaviour is of one page, chosen at the beginning; the others' *)
(* variables stay 0.  The pages have no state in common, so nothing is lost  *)
(* by this.                                                                  *)
(***************************************************************************)
EXTENDS Naturals, Sequences

CONSTANTS
  Workflow, Existing, MaxEdits, MaxOpened, MaxClicks, MaxLate, NewWorkflow,
  NoDraft,
  Tab, LossLimit, MaxCalls,
  Plan, MaxMounts, MaxLoads, NoPlan,
  MaxLeads, MaxTyped, Found, MaxFlight,
  Provider, Account, MaxPending, None,
  MaxKeys, MaxTries,
  Template, Category, category, is_featured, NoTemplate,
  User, Me, Admins, MaxChanges,
  Row, MaxOthers,
  MaxCampaigns, MaxTexts,
  Type, Stored, MaxActions

VARIABLES
  which,  \* the page a behaviour is of
  stored, builderActive, deleted, late, listed, template, editingId, content,
    storage, available, call, origin, reviewed, crossed, detached, edits,
    builderLoads, clicks,
  exists, verified, links, accountCalls, waiting, told, opened, doubled, raced,
    unanswered,
  recorded, charged, subscription, checkoutLoading, refreshing, checkoutPlan,
    failed, mount, checkoutLoads, begun, timers, overlay, listener, loadCount,
  notes, newest, leads, selectedLeadId, notesDraft, leadCalls, author,
  connected, profile, loadingProvider, away, integrationCalls,
    integrationUnsure,
  created, revoked, keyItems, newKey, keyLoading, keyCalls, keyShown, lost,
    explorerKey, requests, explorer, tries,
  copies, templatePage, templates, chosen, templateSearch, installing,
    templateCalls, templateAsked, mixed,
  admin, userActive, userPage, userShown, userCalls, userAsked, cause,
  tablePage, table, tableItems, tableSearch, tableCalls, others, outdated,
    tableUnsure,
  campaigns, newestCampaign, campaignItems, campaignForm, campaignEditing,
    campaignCalls, campaignAuthor, born,
  drafts, form, editing, crashed, moved, touched

WB == INSTANCE WorkflowBuilder WITH active <- builderActive,
       loads <- builderLoads, MaxLoads <- MaxOpened
AC == INSTANCE Account WITH calls <- accountCalls
CO == INSTANCE Checkout WITH loads <- checkoutLoads,
       loading <- checkoutLoading
LB == INSTANCE LeadsBoard WITH calls <- leadCalls
IG == INSTANCE Integrations WITH calls <- integrationCalls,
       unsure <- integrationUnsure, MaxFlight <- MaxPending
AK == INSTANCE ApiKeys WITH calls <- keyCalls, loading <- keyLoading,
       items <- keyItems, shown <- keyShown
TP == INSTANCE Templates WITH calls <- templateCalls, page <- templatePage,
       search <- templateSearch, asked <- templateAsked
AU == INSTANCE AdminUsers WITH active <- userActive, calls <- userCalls,
       shown <- userShown, page <- userPage, asked <- userAsked, MaxCalls <- MaxChanges
AT == INSTANCE AdminTables WITH calls <- tableCalls, unsure <- tableUnsure,
       items <- tableItems, page <- tablePage, search <- tableSearch
CA == INSTANCE Campaigns WITH newest <- newestCampaign, items <- campaignItems,
       form <- campaignForm, editingId <- campaignEditing, calls <- campaignCalls,
       author <- campaignAuthor, MaxTyped <- MaxTexts
AL == INSTANCE ActionList

ASSUME PagesAssumption ==
  /\ WB!WorkflowBuilderAssumption
  /\ AC!AccountAssumption
  /\ CO!CheckoutAssumption
  /\ LB!LeadsBoardAssumption
  /\ IG!IntegrationsAssumption
  /\ AK!ApiKeysAssumption
  /\ TP!TemplatesAssumption
  /\ AU!AdminUsersAssumption
  /\ AT!AdminTablesAssumption
  /\ CA!CampaignsAssumption
  /\ AL!ActionListAssumption

wb == <<stored, builderActive, deleted, late, listed, template, editingId,
        content, storage, available, call, origin, reviewed, crossed, detached,
        edits, builderLoads, clicks>>
ac == <<exists, verified, links, accountCalls, waiting, told, opened, doubled,
        raced, unanswered>>
co == <<recorded, charged, subscription, checkoutLoading, refreshing,
        checkoutPlan, failed, mount, checkoutLoads, begun, timers, overlay,
        listener, loadCount>>
lb == <<notes, newest, leads, selectedLeadId, notesDraft, leadCalls, author>>
ig == <<connected, profile, loadingProvider, away, integrationCalls,
        integrationUnsure>>
ak == <<created, revoked, keyItems, newKey, keyLoading, keyCalls, keyShown,
        lost, explorerKey, requests, explorer, tries>>
tp == <<copies, templatePage, templates, chosen, templateSearch, installing,
        templateCalls, templateAsked, mixed>>
au == <<admin, userActive, userPage, userShown, userCalls, userAsked, cause>>
at == <<tablePage, table, tableItems, tableSearch, tableCalls, others,
        outdated, tableUnsure>>
ca == <<campaigns, newestCampaign, campaignItems, campaignForm, campaignEditing,
        campaignCalls, campaignAuthor, born>>
al == <<drafts, form, editing, crashed, moved, touched>>
vars == <<which, wb, ac, co, lb, ig, ak, tp, au, at, ca, al>>

\* What a behaviour is not of stays 0.
WBInit ==
  IF which = "builder" THEN WB!Init
  ELSE stored = 0 /\ builderActive = 0 /\ deleted = 0 /\ late = 0 /\ listed = 0
    /\ template = 0 /\ editingId = 0 /\ content = 0 /\ storage = 0
    /\ available = 0 /\ call = 0 /\ origin = 0 /\ reviewed = 0 /\ crossed = 0
    /\ detached = 0 /\ edits = 0 /\ builderLoads = 0 /\ clicks = 0

ACInit ==
  IF which = "account" THEN AC!Init
  ELSE exists = 0 /\ verified = 0 /\ links = 0 /\ accountCalls = 0
    /\ waiting = 0 /\ told = 0 /\ opened = 0 /\ doubled = 0 /\ raced = 0
    /\ unanswered = 0

COInit ==
  IF which = "checkout" THEN CO!Init
  ELSE recorded = 0 /\ charged = 0 /\ subscription = 0 /\ checkoutLoading = 0
    /\ refreshing = 0 /\ checkoutPlan = 0 /\ failed = 0 /\ mount = 0
    /\ checkoutLoads = 0 /\ begun = 0 /\ timers = 0 /\ overlay = 0
    /\ listener = 0 /\ loadCount = 0

LBInit ==
  IF which = "leads" THEN LB!Init
  ELSE notes = 0 /\ newest = 0 /\ leads = 0 /\ selectedLeadId = 0
    /\ notesDraft = 0 /\ leadCalls = 0 /\ author = 0

IGInit ==
  IF which = "integrations" THEN IG!Init
  ELSE connected = 0 /\ profile = 0 /\ loadingProvider = 0 /\ away = 0
    /\ integrationCalls = 0 /\ integrationUnsure = 0

AKInit ==
  IF which = "api-keys" THEN AK!Init
  ELSE created = 0 /\ revoked = 0 /\ keyItems = 0 /\ newKey = 0
    /\ keyLoading = 0 /\ keyCalls = 0 /\ keyShown = 0 /\ lost = 0
    /\ explorerKey = 0 /\ requests = 0 /\ explorer = 0 /\ tries = 0

TPInit ==
  IF which = "templates" THEN TP!Init
  ELSE copies = 0 /\ templatePage = 0 /\ templates = 0 /\ chosen = 0
    /\ templateSearch = 0 /\ installing = 0 /\ templateCalls = 0
    /\ templateAsked = 0 /\ mixed = 0

AUInit ==
  IF which = "admin-users" THEN AU!Init
  ELSE admin = 0 /\ userActive = 0 /\ userPage = 0 /\ userShown = 0
    /\ userCalls = 0 /\ userAsked = 0 /\ cause = 0

ATInit ==
  IF which = "admin-tables" THEN AT!Init
  ELSE tablePage = 0 /\ table = 0 /\ tableItems = 0 /\ tableSearch = 0
    /\ tableCalls = 0 /\ others = 0 /\ outdated = 0 /\ tableUnsure = 0

CAInit ==
  IF which = "campaigns" THEN CA!Init
  ELSE campaigns = 0 /\ newestCampaign = 0 /\ campaignItems = 0
    /\ campaignForm = 0 /\ campaignEditing = 0 /\ campaignCalls = 0
    /\ campaignAuthor = 0 /\ born = 0

ALInit ==
  IF which = "actions" THEN AL!Init
  ELSE drafts = 0 /\ form = 0 /\ editing = 0 /\ crashed = 0 /\ moved = 0
    /\ touched = 0

\* Where the page of a behaviour begins.
Start == WBInit /\ ACInit /\ COInit /\ LBInit /\ IGInit /\ AKInit /\ TPInit /\ AUInit
         /\ ATInit /\ CAInit /\ ALInit

Page == {"builder", "account", "checkout", "leads", "integrations", "api-keys",
         "templates", "admin-users", "admin-tables", "campaigns", "actions"}

Init == which \in Page /\ Start

Next ==
  \/ /\ which = "builder" /\ WB!Next
     /\ UNCHANGED <<which, ac, co, lb, ig, ak, tp, au, at, ca, al>>
  \/ /\ which = "account" /\ AC!Next
     /\ UNCHANGED <<which, wb, co, lb, ig, ak, tp, au, at, ca, al>>
  \/ /\ which = "checkout" /\ CO!Next
     /\ UNCHANGED <<which, wb, ac, lb, ig, ak, tp, au, at, ca, al>>
  \/ /\ which = "leads" /\ LB!Next
     /\ UNCHANGED <<which, wb, ac, co, ig, ak, tp, au, at, ca, al>>
  \/ /\ which = "integrations" /\ IG!Next
     /\ UNCHANGED <<which, wb, ac, co, lb, ak, tp, au, at, ca, al>>
  \/ /\ which = "api-keys" /\ AK!Next
     /\ UNCHANGED <<which, wb, ac, co, lb, ig, tp, au, at, ca, al>>
  \/ /\ which = "templates" /\ TP!Next
     /\ UNCHANGED <<which, wb, ac, co, lb, ig, ak, au, at, ca, al>>
  \/ /\ which = "admin-users" /\ AU!Next
     /\ UNCHANGED <<which, wb, ac, co, lb, ig, ak, tp, at, ca, al>>
  \/ /\ which = "admin-tables" /\ AT!Next
     /\ UNCHANGED <<which, wb, ac, co, lb, ig, ak, tp, au, ca, al>>
  \/ /\ which = "campaigns" /\ CA!Next
     /\ UNCHANGED <<which, wb, ac, co, lb, ig, ak, tp, au, at, al>>
  \/ /\ which = "actions" /\ AL!Next
     /\ UNCHANGED <<which, wb, ac, co, lb, ig, ak, tp, au, at, ca>>

Spec == Init /\ [][Next]_vars
----------------------------------------------------------------------------
(* The properties of the pages, stated in their modules. *)

\* What is edited, a workflow, a campaign or a lead's notes, is saved where it
\* came from.
UpdatesGoHome ==
  /\ which = "builder" => WB!UpdatesGoHome
  /\ which = "campaigns" => CA!UpdatesGoHome
  /\ which = "leads" => LB!NotesOnOwnLead

\* What is active is what the workflow held when it was activated, unless it was
\* saved and activated at the same time.
ActiveIsReviewed == which = "builder" => WB!ActiveIsReviewed

\* A mailed link takes effect once, at most one of a kind works, and one stops
\* working only because of another.
LinksSound ==
  which = "account" => AC!UsedOnce /\ AC!OneLinkWorks /\ AC!LostForCause

\* The plans are disabled only while a checkout is on its way.
BusyForCause == which = "checkout" => CO!BusyForCause

\* A page shows what the server has: a provider as connected, a secret until it
\* was seen, the rows of a table.
ShownIsServers ==
  /\ which = "integrations" => IG!ShownAsConnected
  /\ which = "api-keys" => AK!NothingShownAmiss
  /\ which = "admin-tables" => AT!TableCurrent

\* A tenant gets one copy of a template.
OneCopyEach == which = "templates" => TP!OneCopyEach

\* Update Action rewrites the action that was opened, unless one was moved.
EditTargetsOpened == which = "actions" => AL!EditTargetsOpened

\* Activation refuses the actions that the setup panel calls incomplete, and of the
\* others only HTTP requests and conditions.
SetupAgrees == which = "actions" => AL!SetupAgrees

\* Reviewing a configured action without a change leaves it configured.
ReviewKeepsSetup == AL!ReviewKeepsSetup

\* Somebody is left to administer.
AdministratorLeft == which = "admin-users" => AU!AdministratorLeft
=============================================================================
