------------------------------ MODULE Screens ------------------------------
(***************************************************************************)
(* The pages of apps/web and apps/portal as what they ask of the API:      *)
(* which handlers a page calls when it is opened, and which its controls   *)
(* call.  An ask is <<gate, controller, handlers>>; gate is the permission *)
(* the page tests with hasPermission before it renders the control or      *)
(* enables the query, "" where it tests none.  A page's own permission is  *)
(* the RequirePermission around it in App.tsx.  Layout, forms and wording  *)
(* are left out.                                                           *)
(***************************************************************************)
EXTENDS Access, TLC

VARIABLES onPage,  \* the page the browser shows
          asked    \* the calls it has made: the shown controls of onPage used

screenVars == <<onPage, asked>>

Screen(path, perm, opens, controls) ==
    [path |-> path, perm |-> perm, opens |-> opens, controls |-> controls]

NoPage == Screen("", "", {}, {})

----------------------------------------------------------------------------
(* Administration. *)
UsersPage == Screen("/admin/users", "admin.user.read",
    {<<"", "Users", {"findAll"}>>},
    {<<"", "Users", {"deactivate", "reactivate"}>>})

UserFormQueries ==
    {<<"", "Roles", {"findAll"}>>, <<"", "Users", {"findAll", "findOne"}>>}

UserFormResets ==
    {<<"admin.user.update", "Users", {"forcePasswordReset", "resetTotp"}>>}

UserForm == Screen("/admin/users/:id", "admin.user.read",
    UserFormQueries, {<<"", "Users", {"create", "update"}>>} \cup UserFormResets)

HierarchyPage == Screen("/admin/hierarchy", "admin.user.read",
    {<<"", "Users", {"hierarchy"}>>}, {})

RolesPage == Screen("/admin/roles", "admin.role.read",
    {<<"", "Roles", {"findAll"}>>}, {<<"", "Roles", {"remove"}>>})

RoleForm == Screen("/admin/roles/:id", "admin.role.read",
    {<<"", "Roles", {"getAllPermissions", "findOne"}>>},
    {<<"", "Roles", {"create", "update"}>>})

(* The tables a master form may point at (optionsUrl), and the ones listed. *)
MasterTables == {"Master", "GstRate", "TdsRule", "SmsTemplate"}

MasterForm == {<<"", table, {"create", "update", "remove"}>> : table \in MasterTables}

MastersPage == Screen("/admin/masters", "admin.master.read",
    {<<"", table, {"findAll"}>> : table \in MasterTables}, MasterForm)

CustomFieldForm ==
    {<<"", "CustomFields", {"create", "update", "remove", "countValues", "purge"}>>}

CustomFieldsPage == Screen("/admin/custom-fields", "admin.custom-field.read",
    {<<"", "CustomFields", {"findByEntity"}>>}, CustomFieldForm)

LetterTemplatesPage == Screen("/admin/letter-templates", "admin.master.read",
    {<<"", "LetterTemplate", {"findAll"}>>}, {<<"", "LetterTemplate", {"create"}>>})

LeadStagesPage == Screen("/admin/lead-stages", "admin.master.read",
    {<<"", "LeadStage", {"findAll"}>>},
    {<<"", "LeadStage", {"create", "update", "occupancy"}>>})

CompanyForm == {<<"", "Company", {"update", "updateConfig"}>>}

CompanyConfigPage == Screen("/admin/config", "admin.config.read",
    {<<"", "Company", {"findOne", "getConfig"}>>}, CompanyForm)

AuditLogPage == Screen("/admin/audit", "admin.audit.read",
    {<<"", "Audit", {"findAll"}>>}, {})

PluginsPage == Screen("/admin/plugins", "admin.plugin.read",
    {<<"", "PluginAdmin", {"list"}>>},
    {<<"", "PluginAdmin", {"install", "enable", "disable", "uninstall"}>>})

PluginDetailPage == Screen("/admin/plugins/:pluginId", "admin.plugin.read",
    {<<"", "PluginAdmin", {"getDetail"}>>},
    {<<"", "PluginAdmin", {"setConfig", "enable", "disable"}>>})

WebhooksPage == Screen("/admin/webhooks", "admin.webhook.read",
    {<<"", "WebhookEndpoint", {"list"}>>},
    {<<"", "WebhookDelivery", {"listForEndpoint"}>>,
     <<"", "WebhookEndpoint", {"create", "enable", "disable", "remove", "sendTestEvent"}>>})

LeadApiKeysPage == Screen("/admin/lead-api-keys", "admin.lead-api-key.read",
    {<<"", "LeadApiKey", {"list"}>>}, {<<"", "LeadApiKey", {"create", "disable", "remove"}>>})

----------------------------------------------------------------------------
(* Inventory and presales. *)
useCustomFieldDefinitions == <<"", "CustomFields", {"findByEntity"}>>

ProjectsPage == Screen("/inventory/projects", "inventory.project.read",
    {<<"", "Project", {"findAll"}>>, <<"", "Master", {"findAll"}>>, useCustomFieldDefinitions},
    {<<"", "Project", {"create"}>>})

ProjectQueries ==
    {<<"", "Project", {"findOne"}>>, <<"", "Tower", {"findAll"}>>,
     <<"", "Master", {"findAll"}>>, <<"", "Unit", {"findAll"}>>,
     <<"", "StageRaise", {"pending"}>>, <<"", "ProjectMedia", {"list"}>>,
     <<"", "ConstructionUpdateAdmin", {"listForProject"}>>, useCustomFieldDefinitions}

ProjectEdit == {<<"", "Project", {"update", "bookingCount"}>>}

ProjectTowers == {<<"", "Tower", {"create"}>>}

ProjectGroups == {<<"", "InventoryGroup", {"findAll", "create", "remove"}>>}

ProjectUnits ==
    {<<"", "Unit", {"bulkGenerate", "createLandBased", "changeRate", "rateHistory"}>>}

ProjectUnitFiles ==
    {<<"", "ImportExport", {"importTemplate", "importUnits", "exportUnits"}>>}

ProjectPricing ==
    {<<"", "Unit", {"listPlcs", "listCharges", "addPlc", "removePlc", "addCharge",
                    "removeCharge"}>>}

ProjectMedia == {<<"", "ProjectMedia", {"upload", "remove", "download"}>>}

ProjectConstruction ==
    {<<"", "ConstructionUpdateAdmin", {"create", "addMedia", "remove", "downloadMedia"}>>}

ProjectStages == {<<"", "StageRaise", {"raise"}>>}

ProjectDetailPage == Screen("/inventory/projects/:id", "inventory.project.read",
    ProjectQueries,
    UNION {ProjectEdit, ProjectTowers, ProjectGroups, ProjectUnits, ProjectUnitFiles,
           ProjectPricing, ProjectMedia, ProjectConstruction, ProjectStages})

(* Has the user any reports?  Asked when the list is empty, and not by the *)
(* two administrators' roles, which is left out: asking more often is the  *)
(* harder case.  The gate is not the handler's permission but one that     *)
(* stands for it ("proxy").                                                *)
ReportsCheck == <<"presales.inquiry.assign", "Users", {"findAll"}>>

InquiriesPage == Screen("/presales/inquiries", "presales.inquiry.read",
    {<<"", "Inquiry", {"findAll"}>>, <<"", "Project", {"findAll"}>>,
     <<"", "Master", {"findAll"}>>, useCustomFieldDefinitions, ReportsCheck},
    {<<"", "Inquiry", {"create"}>>,
     <<"", "InquiryImport", {"importInquiries", "importTemplate"}>>,
     <<"", "ReportsCsv", {"inquiriesExport"}>>,
     <<"presales.applicant.merge", "Applicant", {"confirmDistinct"}>>})

InquiryActions ==
    {<<"", "FollowUp", {"create"}>>, <<"", "Inquiry", {"assign", "update"}>>,
     <<"postsales.booking.create", "Booking", {"create"}>>}

InquiryDetailPage == Screen("/presales/inquiries/:id", "presales.inquiry.read",
    {<<"", "Inquiry", {"findOne"}>>, <<"", "FollowUp", {"findAll"}>>,
     <<"", "Master", {"findAll"}>>, <<"", "Users", {"findAll"}>>,
     <<"", "LeadStage", {"findAll"}>>, useCustomFieldDefinitions},
    InquiryActions)

(* reportCatalogue.ts: the report a page opens on and the ones to choose. *)
ReportCatalogue == {r.op : r \in {r \in ReportsController : r.safe}}

PresalesReportsPage == Screen("/presales/reports", "presales.report.view",
    {<<"", "Reports", {"dailyInquiries"}>>, <<"", "Project", {"findAll"}>>},
    {<<"", "Reports", ReportCatalogue>>, <<"", "Users", {"findAll"}>>,
     <<"presales.report.export", "ReportsCsv", ReportCatalogue>>,
     <<"presales.report.print", "Reports", {"auditPrint"}>>})

----------------------------------------------------------------------------
(* Postsales. *)
ApplicantSearch == {<<"", "Applicant", {"findAll", "create"}>>}

WizardUnitStep ==
    {<<"", "InventoryGroup", {"findAll"}>>,
     <<"", "Unit", {"findAll", "listPlcs", "listCharges"}>>}

WizardConfirmStep ==
    {<<"", "Booking", {"create", "planFromTemplate", "planCustom", "assignBroker",
                       "attachSourceInquiry"}>>,
     <<"", "BookingDraft", {"create", "update", "discard"}>>}

BookingWizardPage == Screen("/postsales/bookings/new", "postsales.booking.create",
    {<<"", "BookingDraft", {"listMine"}>>, <<"", "Project", {"findAll"}>>,
     <<"", "Master", {"findAll"}>>, <<"", "Broker", {"findAll"}>>,
     <<"", "GstRate", {"findAll"}>>},
    ApplicantSearch \cup WizardUnitStep \cup WizardConfirmStep)

InstallmentSchedule == Screen("/postsales/bookings/:id/installments", "postsales.booking.read",
    {<<"", "PlanHistory", {"history"}>>, <<"", "Booking", {"get"}>>},
    {<<"", "Booking", {"accrueCommission", "cancel"}>>})

ReceiptEntry == Screen("/postsales/receipts/new", "postsales.receipt.create",
    {},
    {<<"", "Applicant", {"findAll", "threeSixty"}>>, <<"", "PlanHistory", {"history"}>>,
     <<"", "Master", {"findAll"}>>, <<"", "Receipt", {"create"}>>,
     <<"", "Document", {"generateReceiptPdf", "download"}>>})

ChequeQueue == Screen("/postsales/cheques", "postsales.cheque.verify",
    {<<"", "Receipt", {"chequeQueue"}>>}, {<<"", "Receipt", {"chequeEvent"}>>})

DuesDashboard == Screen("/postsales/dues", "reports.outstanding.view",
    {<<"", "Project", {"findAll"}>>,
     <<"", "PostsalesReports", {"duesAgeing", "installmentDues"}>>},
    {<<"", "PostsalesReports", {"installmentDuesWithInterest"}>>})

PortalTwoFactorReset == <<"admin.user.update", "PortalTwoFactorResetAdmin", {"reset"}>>

PortalAccessControls ==
    {<<"admin.portal-invite.send", "PortalInviteAdmin", {"sendInvite"}>>,
     <<"admin.portal-invite.send", "PortalPasswordResetAdmin", {"issue"}>>,
     PortalTwoFactorReset}

ApplicantDocuments ==
    {<<"", "Document", {"generateStatement", "generateAllotmentLetter", "generateDemandLetter",
                        "generateReminderLetter", "download"}>>}

Applicant360 == Screen("/postsales/applicants/:id", "presales.applicant.read",
    {<<"", "Applicant", {"threeSixty"}>>, <<"", "PostsalesReports", {"applicantLedger"}>>,
     <<"", "PlanHistory", {"history"}>>, <<"", "LetterTemplate", {"findAll"}>>},
    PortalAccessControls \cup ApplicantDocuments)

PostsalesReportsPage == Screen("/postsales/reports", "reports.collection.view",
    {<<"", "PostsalesReports", {"collectionSummary"}>>},
    {<<"", "PostsalesReports",
        {"collectionDaily", "collectionMonthly", "collectionDetail", "unitStatusRollup",
         "bookingStatusRollup", "projectRollup", "companyRollup", "birthdayList",
         "zeroGstBookings"}>>})

BrokersPage == Screen("/postsales/brokers", "admin.broker.read",
    {<<"", "Broker", {"findAll"}>>}, {<<"", "Broker", {"create", "deactivate", "reactivate"}>>})

BrokerQueries ==
    {<<"", "Broker", {"findOne"}>>, <<"", "BrokerCommissionRule", {"findAll"}>>,
     <<"", "CommissionPayment", {"balance", "history"}>>,
     <<"", "BrokerReports", {"soldUnits"}>>}

BrokerPan == {<<"admin.broker.update", "Broker", {"revealPan"}>>}

BrokerTerms == {<<"", "Broker", {"addBankDetail"}>>, <<"", "BrokerCommissionRule", {"create"}>>}

BrokerPayments ==
    {<<"accounts.commission.create", "CommissionPayment", {"request"}>>,
     <<"accounts.commission.approve", "CommissionPayment", {"approve"}>>,
     <<"accounts.commission.pay", "CommissionPayment", {"pay"}>>}

BrokerStatementButton == {<<"", "Document", {"generateBrokerStatement", "download"}>>}

BrokerDetail == Screen("/postsales/brokers/:id", "admin.broker.read",
    BrokerQueries,
    UNION {PortalAccessControls, BrokerPan, BrokerTerms, BrokerPayments,
           BrokerStatementButton})

----------------------------------------------------------------------------
(* Everyone's pages, support, and what the shell shows on every page. *)
Dashboard == Screen("/", "",
    {<<"", "Dashboard", {"get"}>>, <<"", "Inquiry", {"myDay"}>>},
    {<<"admin.user.read", "Users", {"hierarchy"}>>})

TwoFactorCard == {<<"", "Auth", {"setupTotp", "confirmTotp", "disableTotp"}>>}

Settings == Screen("/settings", "",
    {<<"", "Auth", {"me"}>>}, {<<"", "Auth", {"changePassword"}>>} \cup TwoFactorCard)

TicketsPage == Screen("/support/tickets", "admin.ticket.respond",
    {<<"", "AdminTicket", {"listQueue"}>>}, {})

TicketDetailPage == Screen("/support/tickets/:id", "admin.ticket.respond",
    {<<"", "AdminTicket", {"getOne"}>>}, {<<"", "AdminTicket", {"respond", "updateStatus"}>>})

GstConfigBanner == <<"admin.config.read", "Company", {"getConfig"}>>

(* Fault: the banner is gated by another report's permission. *)
ZeroGstBannerMisgated == <<"reports.collection.view", "PostsalesReports", {"zeroGstBookingsCount"}>>

ZeroGstBookingsBanner == <<"reports.sales.view", "PostsalesReports", {"zeroGstBookingsCount"}>>

AppShell == {GstConfigBanner, ZeroGstBookingsBanner}

StaffPages ==
    {UsersPage, UserForm, HierarchyPage, RolesPage, RoleForm, MastersPage, CustomFieldsPage,
     LetterTemplatesPage, LeadStagesPage, CompanyConfigPage, AuditLogPage, PluginsPage,
     PluginDetailPage, WebhooksPage, LeadApiKeysPage, ProjectsPage, ProjectDetailPage,
     InquiriesPage, InquiryDetailPage, PresalesReportsPage, BookingWizardPage,
     InstallmentSchedule, ReceiptEntry, ChequeQueue, DuesDashboard, Applicant360,
     PostsalesReportsPage, BrokersPage, BrokerDetail, Dashboard, Settings, TicketsPage,
     TicketDetailPage}

(* AppShell.tsx SECTIONS: the pages the menu links to, by the link's own permission. *)
MenuLinks ==
    [p \in {"/", "/settings"} |-> ""] @@
    ("/presales/inquiries" :> "presales.inquiry.read") @@
    ("/presales/reports" :> "presales.report.view") @@
    ("/inventory/projects" :> "inventory.project.read") @@
    ("/postsales/bookings/new" :> "postsales.booking.create") @@
    ("/postsales/receipts/new" :> "postsales.receipt.create") @@
    ("/postsales/cheques" :> "postsales.cheque.verify") @@
    ("/postsales/dues" :> "reports.outstanding.view") @@
    ("/postsales/brokers" :> "admin.broker.read") @@
    ("/postsales/reports" :> "reports.collection.view") @@
    ("/support/tickets" :> "admin.ticket.respond") @@
    [p \in {"/admin/users", "/admin/hierarchy"} |-> "admin.user.read"] @@
    ("/admin/roles" :> "admin.role.read") @@
    [p \in {"/admin/masters", "/admin/letter-templates", "/admin/lead-stages"} |->
        "admin.master.read"] @@
    ("/admin/custom-fields" :> "admin.custom-field.read") @@
    ("/admin/config" :> "admin.config.read") @@
    ("/admin/audit" :> "admin.audit.read") @@
    ("/admin/plugins" :> "admin.plugin.read") @@
    ("/admin/webhooks" :> "admin.webhook.read") @@
    ("/admin/lead-api-keys" :> "admin.lead-api-key.read")

----------------------------------------------------------------------------
(* The portal: one set of tabs for customers, one for brokers, no gates. *)
Profile == Screen("/profile", "customer",
    {<<"", "PortalProfile", {"getProfile"}>>}, {<<"", "PortalProfile", {"submitChangeRequest"}>>})

Property == Screen("/property", "customer",
    {<<"", "PortalProperty", {"getMyProperties"}>>},
    {<<"", "PortalProperty", {"downloadProjectMedia", "downloadConstructionMedia"}>>})

Account == Screen("/account", "customer",
    {<<"", "PortalAccount", {"getAccount", "listDocuments"}>>},
    {<<"", "PortalAccount", {"download"}>>})

Tickets == Screen("/tickets", "customer",
    {<<"", "PortalTicket", {"listMine", "listCategories"}>>},
    {<<"", "PortalTicket", {"create"}>>})

TicketDetail == Screen("/tickets/:id", "customer",
    {<<"", "PortalTicket", {"getOne"}>>}, {<<"", "PortalTicket", {"addMessage"}>>})

BrokerDashboard == Screen("/broker/dashboard", "broker",
    {<<"", "PortalBrokerDashboard", {"getDashboard"}>>}, {})

BrokerNocs == Screen("/broker/nocs", "broker",
    {<<"", "PortalBrokerNoc", {"list"}>>}, {<<"", "PortalBrokerNoc", {"approve", "reject"}>>})

BrokerStatement == Screen("/broker/statement", "broker",
    {<<"", "PortalBrokerDocuments", {"list"}>>}, {<<"", "PortalBrokerDocuments", {"download"}>>})

PortalTwoFactorCard == {<<"", "PortalAuth", {"setupTotp", "confirmTotp", "disableTotp"}>>}

Security == Screen("/security", "",
    {<<"", "PortalAuth", {"me"}>>}, {<<"", "PortalAuth", {"changePassword"}>>}
                                    \cup PortalTwoFactorCard)

PortalShell == {<<"", "PortalBranding", {"getBranding"}>>}

PortalPages == {Profile, Property, Account, Tickets, TicketDetail, BrokerDashboard, BrokerNocs,
                BrokerStatement, Security}

----------------------------------------------------------------------------
Holds(gate) == gate = "" \/ gate \in token.permissions

(* What the browser renders: the page behind RequirePermission, or the tab *)
(* of the account's kind.                                                  *)
RequirePermission(page) ==
    IF page \in PortalPages THEN page.perm = "" \/ page.perm = token.portalId
    ELSE Holds(page.perm)

Pages == IF token.surface = "portal" THEN PortalPages ELSE StaffPages

Shell == IF token.surface = "portal" THEN PortalShell ELSE AppShell

Calls(asks) == UNION {{[ask |-> a, route |-> Route(a[2], op)] : op \in a[3]} : a \in asks}

Shown(asks) == {c \in Calls(asks) : Holds(c.ask[1])}

ScreenInit == AccInit /\ onPage = NoPage /\ asked = {}

open(page) ==
    /\ token # NoToken /\ TWO_FACTOR_PENDING \notin token.permissions
    /\ page \in Pages /\ RequirePermission(page)
    /\ onPage' = page
    /\ asked' = Shown(page.opens \cup Shell)
    /\ reached' = {}
    /\ UNCHANGED token

useControls ==
    /\ onPage # NoPage /\ Shown(onPage.controls) # {}
    /\ asked' = Shown(onPage.controls)
    /\ UNCHANGED <<onPage, token, reached>>

ScreenNext ==
    \/ /\ \E role \in SYSTEM_ROLES, extra \in SUBSET Drift, pending, csrf \in BOOLEAN :
               login(role, extra, pending, csrf)
       /\ UNCHANGED screenVars
    \/ onPage = NoPage /\ (\E r \in Routes : request(r)) /\ UNCHANGED screenVars
    \/ logout /\ onPage' = NoPage /\ asked' = {}
    \/ \E page \in StaffPages \cup PortalPages : open(page)
    \/ useControls

ScreenSpec == ScreenInit /\ [][ScreenNext]_<<token, reached, onPage, asked>>

----------------------------------------------------------------------------
(***************************************************************************)
(* A control that is only rendered, or a query that is only made, for      *)
(* users holding a permission is one the API then answers to them, and     *)
(* every tab of the portal answers the account it is shown to: the web     *)
(* application's gates and the controllers' decorators agree, whatever     *)
(* keys a role has gained.  One gate is another permission than the        *)
(* handler's, ReportsCheck; it stands for it in the roles as seeded, and   *)
(* only of their tokens is the claim made there.                           *)
(***************************************************************************)
ShownControlsAnswer ==
    \A c \in asked :
        /\ c.ask[1] # "" \/ token.surface = "portal"
        /\ c.ask = ReportsCheck =>
               \E role \in SYSTEM_ROLES : token.permissions = ROLE_PERMISSIONS[role]
        => Answers([token EXCEPT !.csrf = TRUE], c.route)

(***************************************************************************)
(* RequirePermission.tsx: "AppShell's nav already hides links a user can't *)
(* use".  A page the menu links to has at least one request answered when  *)
(* it is opened.                                                           *)
(***************************************************************************)
MenuHidesUnusableLinks ==
    LET opening == asked \cap Calls(onPage.opens)
    IN  (onPage.path \in DOMAIN MenuLinks /\ Holds(MenuLinks[onPage.path]) /\ opening # {}) =>
            \E c \in opening : Answers(token, c.route)
============================================================================
