------------------------------ MODULE Routes ------------------------------
(***************************************************************************)
(* The permission catalogue of packages/shared/src/permissions.ts and what *)
(* every controller of apps/api declares about its handlers: the surface   *)
(* its path puts it on, the permission @RequirePermissions asks for,       *)
(* whether the method is safe (GET), and whether it is @Public.  A         *)
(* handler's body is another module's action; here it is its name.         *)
(***************************************************************************)
EXTENDS FiniteSets

AdminKeys == {
    "admin.company.read", "admin.company.update", "admin.user.read",
    "admin.user.create", "admin.user.update", "admin.user.deactivate",
    "admin.role.read", "admin.role.create", "admin.role.update", "admin.role.delete",
    "admin.master.read", "admin.master.create", "admin.master.update",
    "admin.master.delete", "admin.custom-field.read", "admin.custom-field.create",
    "admin.custom-field.update", "admin.custom-field.delete", "admin.broker.read",
    "admin.broker.create", "admin.broker.update", "admin.config.read",
    "admin.config.update", "admin.audit.read", "admin.change-request.approve",
    "admin.ticket.respond", "admin.portal-invite.send",
    "admin.construction-update.manage", "admin.plugin.read", "admin.plugin.manage",
    "admin.webhook.read", "admin.webhook.manage", "admin.lead-api-key.read",
    "admin.lead-api-key.manage", "admin.team-scope.all"}

InventoryKeys == {
    "inventory.project.read", "inventory.project.create", "inventory.project.update",
    "inventory.project.delete", "inventory.tower.read", "inventory.tower.create",
    "inventory.tower.update", "inventory.tower.delete",
    "inventory.inventory-group.manage", "inventory.unit.read", "inventory.unit.create",
    "inventory.unit.update", "inventory.unit.bulk-generate", "inventory.unit.import",
    "inventory.unit.export", "inventory.unit.hold", "inventory.unit.book",
    "inventory.unit.block", "inventory.unit.allot", "inventory.unit.register",
    "inventory.unit.cancel", "inventory.unit.release", "inventory.rate.read",
    "inventory.rate.change", "inventory.upload.read", "inventory.upload.create",
    "inventory.upload.delete", "inventory.unit.plc-manage",
    "inventory.unit.charge-manage"}

PresalesKeys == {
    "presales.applicant.read", "presales.applicant.create",
    "presales.applicant.update", "presales.applicant.merge", "presales.inquiry.read",
    "presales.inquiry.create", "presales.inquiry.update", "presales.inquiry.delete",
    "presales.inquiry.assign", "presales.inquiry.import", "presales.follow-up.read",
    "presales.follow-up.create", "presales.follow-up.update",
    "presales.site-visit.read", "presales.site-visit.create",
    "presales.site-visit.update", "presales.communication.send",
    "presales.assignment-pool.manage", "presales.report.view",
    "presales.report.export", "presales.report.print"}

PostsalesKeys == {
    "postsales.booking.read", "postsales.booking.create", "postsales.booking.update",
    "postsales.booking.allot", "postsales.booking.register",
    "postsales.booking.cancel", "postsales.plan.read", "postsales.plan.edit",
    "postsales.unit.read", "postsales.unit.update", "postsales.demand.read",
    "postsales.demand.generate", "postsales.demand.raise", "postsales.receipt.read",
    "postsales.receipt.create", "postsales.receipt.cancel", "postsales.cheque.verify",
    "postsales.extra-charge.create", "postsales.interest.waive", "postsales.tds.read",
    "postsales.tds.certificate", "postsales.transfer.read",
    "postsales.transfer.create", "postsales.transfer.approve",
    "postsales.refund.request", "postsales.refund.approve", "postsales.refund.pay",
    "postsales.document.read", "postsales.document.upload",
    "postsales.document.delete", "postsales.letter.read", "postsales.letter.generate",
    "postsales.dispatch.send", "postsales.dispatch.read", "postsales.noc.request"}

AccountsKeys == {
    "accounts.receipt.verify", "accounts.payment.read", "accounts.payment.create",
    "accounts.commission.read", "accounts.commission.create",
    "accounts.commission.approve", "accounts.commission.pay", "accounts.noc.approve"}

ReportsKeys == {
    "reports.sales.view", "reports.collection.view", "reports.outstanding.view",
    "reports.broker.view", "reports.gst.view", "reports.custom.create",
    "reports.applicant-ledger.view", "reports.birthday.view"}

PortalKeys == {
    "portal.booking.read", "portal.receipt.read", "portal.document.read",
    "portal.document.upload", "portal.payment-schedule.read", "portal.profile.update",
    "portal.change-request.create", "portal.ticket.create", "portal.ticket.read",
    "portal.noc.action", "portal.construction-update.read",
    "portal.broker.dashboard.read"}

StaffKeys == AdminKeys \cup InventoryKeys \cup PresalesKeys \cup PostsalesKeys
             \cup AccountsKeys \cup ReportsKeys

PERMISSIONS == StaffKeys \cup PortalKeys

(***************************************************************************)
(* One controller.  A rule <<kind, permission, handlers>> stands for the   *)
(* decorators its handlers share: kind is "GET", "POST" (any method that   *)
(* is not safe) or "PUBLIC"; NoPermission is no @RequirePermissions.       *)
(* whose is "staff" for a path outside /portal/; inside it "customer" or   *)
(* "broker" where the handler refuses the other kind of account, else      *)
(* "portal".                                                               *)
(***************************************************************************)
NoPermission == ""

Needed(permission) == IF permission = NoPermission THEN {} ELSE {permission}

At(controller, whose, rules) ==
    UNION {{[at |-> controller, op |-> op, whose |-> whose,
             needs |-> Needed(rule[2]), safe |-> rule[1] = "GET",
             public |-> rule[1] = "PUBLIC"] : op \in rule[3]} : rule \in rules}

AuditController == At("Audit", "staff", {
    <<"GET", "admin.audit.read", {"findAll"}>>})

AuthController == At("Auth", "staff", {
    <<"PUBLIC", NoPermission, {"login", "refresh", "confirmPasswordReset"}>>,
    <<"POST", "auth.totp.verify", {"verifyTotp"}>>,
    <<"GET", NoPermission, {"me"}>>,
    <<"POST", NoPermission, {"setupTotp", "confirmTotp", "disableTotp", "logout", "logoutAll",
        "changePassword", "forceChangePassword"}>>})

PortalBrokerDashboardController == At("PortalBrokerDashboard", "broker", {
    <<"GET", "portal.broker.dashboard.read", {"getDashboard"}>>})

PortalBrokerDocumentsController == At("PortalBrokerDocuments", "broker", {
    <<"GET", "portal.document.read", {"list", "download"}>>})

PortalBrokerNocController == At("PortalBrokerNoc", "broker", {
    <<"GET", "portal.noc.action", {"list"}>>,
    <<"POST", "portal.noc.action", {"approve", "reject"}>>})

BrokerCommissionRuleController == At("BrokerCommissionRule", "staff", {
    <<"GET", "admin.broker.read", {"findAll"}>>,
    <<"POST", "admin.broker.update", {"create", "update", "deactivate"}>>})

BrokerController == At("Broker", "staff", {
    <<"GET", "admin.broker.read", {"findAll", "findOne", "listBankDetails"}>>,
    <<"POST", "admin.broker.create", {"create"}>>,
    <<"POST", "admin.broker.update", {"update", "deactivate", "reactivate", "addBankDetail"}>>,
    <<"GET", "admin.broker.update", {"revealPan"}>>})

NocController == At("Noc", "staff", {
    <<"POST", "accounts.noc.approve", {"approve", "reject"}>>,
    <<"GET", "accounts.noc.approve", {"forBooking"}>>})

CommissionPaymentController == At("CommissionPayment", "staff", {
    <<"POST", "accounts.commission.create", {"request"}>>,
    <<"POST", "accounts.commission.approve", {"approve", "reject"}>>,
    <<"POST", "accounts.commission.pay", {"pay"}>>,
    <<"GET", "accounts.commission.read", {"balance", "history"}>>})

CompanyController == At("Company", "staff", {
    <<"GET", "admin.company.read", {"findOne"}>>,
    <<"POST", "admin.company.update", {"update"}>>,
    <<"GET", "admin.config.read", {"getConfig"}>>,
    <<"POST", "admin.config.update", {"updateConfig"}>>,
    <<"GET", NoPermission, {"getTerminology"}>>})

CustomFieldsController == At("CustomFields", "staff", {
    <<"GET", "admin.custom-field.read", {"findByEntity", "findOne", "countValues"}>>,
    <<"POST", "admin.custom-field.create", {"create"}>>,
    <<"POST", "admin.custom-field.update", {"update"}>>,
    <<"POST", "admin.custom-field.delete", {"remove", "purge"}>>})

AdminChangeRequestController == At("AdminChangeRequest", "staff", {
    <<"GET", "admin.change-request.approve", {"listPending"}>>,
    <<"POST", "admin.change-request.approve", {"approve", "reject"}>>})

AdminTicketController == At("AdminTicket", "staff", {
    <<"GET", "admin.ticket.respond", {"listQueue", "getOne"}>>,
    <<"POST", "admin.ticket.respond", {"respond", "updateStatus"}>>})

ConstructionUpdateAdminController == At("ConstructionUpdateAdmin", "staff", {
    <<"POST", "admin.construction-update.manage", {"create", "addMedia", "remove"}>>,
    <<"GET", "admin.construction-update.manage", {"listForProject", "downloadMedia"}>>})

PortalAccountController == At("PortalAccount", "customer", {
    <<"GET", "portal.payment-schedule.read", {"getAccount"}>>,
    <<"GET", "portal.document.read", {"listDocuments", "download"}>>})

PortalProfileController == At("PortalProfile", "customer", {
    <<"GET", "portal.profile.update", {"getProfile"}>>,
    <<"POST", "portal.change-request.create", {"submitChangeRequest"}>>})

PortalPropertyController ==
    At("PortalProperty", "customer", {
        <<"GET", "portal.construction-update.read", {"getMyProperties"}>>})
    \cup At("PortalProperty", "portal", {
        <<"GET", "portal.construction-update.read",
            {"downloadProjectMedia", "downloadConstructionMedia"}>>})

PortalTicketController == At("PortalTicket", "portal", {
    <<"GET", "portal.ticket.create", {"listCategories"}>>,
    <<"POST", "portal.ticket.create", {"create", "addMessage"}>>,
    <<"GET", "portal.ticket.read", {"listMine", "getOne"}>>})

DashboardController == At("Dashboard", "staff", {
    <<"GET", "presales.inquiry.read", {"get"}>>})

DispatchController == At("Dispatch", "staff", {
    <<"POST", "postsales.dispatch.send", {"send", "retry"}>>,
    <<"GET", "postsales.dispatch.read", {"historyForBooking", "historyForApplicant"}>>})

HealthController == At("Health", "staff", {
    <<"PUBLIC", NoPermission, {"check"}>>})

ImportExportController == At("ImportExport", "staff", {
    <<"POST", "inventory.unit.import", {"importUnits"}>>,
    <<"GET", "inventory.unit.import", {"importTemplate"}>>,
    <<"GET", "inventory.unit.export", {"exportUnits"}>>})

InventoryGroupController == At("InventoryGroup", "staff", {
    <<"GET", "inventory.inventory-group.manage", {"findAll", "findOne"}>>,
    <<"POST", "inventory.inventory-group.manage", {"create", "update", "remove"}>>})

ProjectMediaController == At("ProjectMedia", "staff", {
    <<"POST", "inventory.upload.create", {"upload"}>>,
    <<"GET", "inventory.upload.read", {"list", "download"}>>,
    <<"POST", "inventory.upload.delete", {"remove"}>>})

ProjectController == At("Project", "staff", {
    <<"GET", "inventory.project.read", {"findAll", "findOne", "bookingCount"}>>,
    <<"POST", "inventory.project.create", {"create"}>>,
    <<"POST", "inventory.project.update", {"update"}>>,
    <<"POST", "inventory.project.delete", {"remove"}>>})

TowerController == At("Tower", "staff", {
    <<"GET", "inventory.tower.read", {"findAll", "findOne"}>>,
    <<"POST", "inventory.tower.create", {"create"}>>,
    <<"POST", "inventory.tower.update", {"update"}>>,
    <<"POST", "inventory.tower.delete", {"remove"}>>})

UnitController == At("Unit", "staff", {
    <<"GET", "inventory.unit.read", {"findAll", "findOne", "listPlcs", "listCharges"}>>,
    <<"POST", "inventory.unit.create", {"create", "createLandBased"}>>,
    <<"POST", "inventory.unit.update", {"update"}>>,
    <<"POST", "inventory.unit.bulk-generate", {"bulkGenerate"}>>,
    <<"POST", "inventory.unit.hold", {"transition"}>>,
    <<"POST", "inventory.rate.change", {"changeRate"}>>,
    <<"GET", "inventory.rate.read", {"rateHistory"}>>,
    <<"POST", "inventory.unit.plc-manage", {"addPlc", "removePlc"}>>,
    <<"POST", "inventory.unit.charge-manage", {"addCharge", "removeCharge"}>>})

LeadApiKeyController == At("LeadApiKey", "staff", {
    <<"GET", "admin.lead-api-key.read", {"list"}>>,
    <<"POST", "admin.lead-api-key.manage", {"create", "disable", "remove"}>>})

LeadInboundController == At("LeadInbound", "staff", {
    <<"PUBLIC", NoPermission, {"inbound"}>>})

GstRateController == At("GstRate", "staff", {
    <<"GET", "admin.master.read", {"findAll", "findOne"}>>,
    <<"POST", "admin.master.create", {"create"}>>,
    <<"POST", "admin.master.update", {"update"}>>,
    <<"POST", "admin.master.delete", {"remove"}>>})

LeadStageController == At("LeadStage", "staff", {
    <<"GET", "admin.master.read", {"findAll", "findOne", "occupancy"}>>,
    <<"POST", "admin.master.create", {"create"}>>,
    <<"POST", "admin.master.update", {"update"}>>})

LetterTemplateController == At("LetterTemplate", "staff", {
    <<"GET", "admin.master.read", {"findAll", "findOne"}>>,
    <<"POST", "admin.master.create", {"create"}>>,
    <<"POST", "admin.master.update", {"update"}>>,
    <<"POST", "admin.master.delete", {"remove"}>>})

MasterController == At("Master", "staff", {
    <<"GET", "admin.master.read", {"findAll", "findOne"}>>,
    <<"POST", "admin.master.create", {"create"}>>,
    <<"POST", "admin.master.update", {"update"}>>,
    <<"POST", "admin.master.delete", {"remove"}>>})

SmsTemplateController == At("SmsTemplate", "staff", {
    <<"GET", "admin.master.read", {"findAll", "findOne"}>>,
    <<"POST", "admin.master.create", {"create"}>>,
    <<"POST", "admin.master.update", {"update"}>>,
    <<"POST", "admin.master.delete", {"remove"}>>})

TdsRuleController == At("TdsRule", "staff", {
    <<"GET", "admin.master.read", {"findAll", "findOne"}>>,
    <<"POST", "admin.master.create", {"create"}>>,
    <<"POST", "admin.master.update", {"update"}>>,
    <<"POST", "admin.master.delete", {"remove"}>>})

DocumentController == At("Document", "staff", {
    <<"POST", "postsales.receipt.read", {"generateReceiptPdf", "reprintReceiptPdf"}>>,
    <<"POST", "postsales.letter.generate", {"generateStatement", "generateAllotmentLetter",
        "generateReminderLetter"}>>,
    <<"POST", "postsales.demand.generate", {"generateDemandLetter"}>>,
    <<"POST", "accounts.commission.read", {"generateBrokerStatement"}>>,
    <<"GET", "accounts.commission.read", {"listForBroker"}>>,
    <<"GET", "postsales.letter.read", {"listForBooking", "listForApplicant", "download"}>>})

PluginAdminController == At("PluginAdmin", "staff", {
    <<"GET", "admin.plugin.read", {"list", "getDetail"}>>,
    <<"POST", "admin.plugin.manage", {"install", "setConfig", "enable", "disable",
        "uninstall"}>>})

PortalAuthController == At("PortalAuth", "portal", {
    <<"PUBLIC", NoPermission, {"login", "refresh", "consumeInvite", "requestPasswordReset",
        "confirmPasswordReset"}>>,
    <<"POST", "auth.totp.verify", {"verifyTotp"}>>,
    <<"GET", NoPermission, {"me"}>>,
    <<"POST", NoPermission, {"setupTotp", "confirmTotp", "disableTotp", "logout", "logoutAll",
        "changePassword"}>>})

PortalBrandingController == At("PortalBranding", "portal", {
    <<"GET", NoPermission, {"getBranding"}>>})

PortalInviteAdminController == At("PortalInviteAdmin", "staff", {
    <<"POST", "admin.portal-invite.send", {"sendInvite"}>>})

PortalPasswordResetAdminController == At("PortalPasswordResetAdmin", "staff", {
    <<"POST", "admin.portal-invite.send", {"issue"}>>})

PortalTwoFactorResetAdminController == At("PortalTwoFactorResetAdmin", "staff", {
    <<"POST", "admin.user.update", {"reset"}>>})

BookingDraftController == At("BookingDraft", "staff", {
    <<"POST", "postsales.booking.create", {"create", "update", "discard"}>>,
    <<"GET", "postsales.booking.create", {"listMine", "findOne"}>>})

BookingController == At("Booking", "staff", {
    <<"POST", "postsales.booking.create", {"create", "assignBroker", "attachSourceInquiry",
        "accrueCommission"}>>,
    <<"GET", "postsales.booking.read", {"get"}>>,
    <<"POST", "postsales.booking.allot", {"allot"}>>,
    <<"POST", "postsales.booking.register", {"register"}>>,
    <<"POST", "postsales.plan.edit", {"planFromTemplate", "planCustom", "planEdit"}>>,
    <<"GET", "postsales.plan.read", {"plan"}>>,
    <<"POST", "postsales.extra-charge.create", {"extraCharge"}>>,
    <<"POST", "postsales.interest.waive", {"accrue", "waive"}>>,
    <<"POST", "postsales.transfer.create", {"transfer"}>>,
    <<"POST", "postsales.noc.request", {"requestNoc"}>>,
    <<"POST", "postsales.booking.cancel", {"cancel"}>>})

PlanHistoryController == At("PlanHistory", "staff", {
    <<"GET", "postsales.plan.read", {"history"}>>})

ReceiptController == At("Receipt", "staff", {
    <<"GET", "postsales.cheque.verify", {"chequeQueue"}>>,
    <<"POST", "postsales.receipt.create", {"create"}>>,
    <<"POST", "postsales.cheque.verify", {"chequeEvent"}>>,
    <<"POST", "postsales.receipt.cancel", {"reverse"}>>,
    <<"POST", "postsales.receipt.read", {"reprint"}>>,
    <<"POST", "postsales.tds.certificate", {"tdsCert"}>>})

RefundController == At("Refund", "staff", {
    <<"POST", "postsales.refund.request", {"request"}>>,
    <<"POST", "postsales.refund.approve", {"approve"}>>,
    <<"POST", "postsales.refund.pay", {"pay", "voucherBounced"}>>})

StageRaiseController == At("StageRaise", "staff", {
    <<"POST", "postsales.demand.raise", {"raise"}>>,
    <<"GET", "postsales.demand.raise", {"pending"}>>})

ApplicantController == At("Applicant", "staff", {
    <<"GET", "presales.applicant.read", {"findAll", "findOne", "consentHistory",
        "currentConsent", "communications",
        "threeSixty", "duplicates"}>>,
    <<"POST", "presales.applicant.create", {"create"}>>,
    <<"POST", "presales.applicant.update", {"update", "recordConsent"}>>,
    <<"POST", "presales.applicant.merge", {"confirmDistinct", "merge"}>>})

AssignmentPoolController == At("AssignmentPool", "staff", {
    <<"GET", "presales.assignment-pool.manage", {"list"}>>,
    <<"POST", "presales.assignment-pool.manage", {"upsert"}>>})

CommunicationController == At("Communication", "staff", {
    <<"POST", "presales.communication.send", {"send"}>>})

FollowUpController == At("FollowUp", "staff", {
    <<"GET", "presales.follow-up.read", {"findAll"}>>,
    <<"POST", "presales.follow-up.create", {"create"}>>,
    <<"POST", "presales.follow-up.update", {"update"}>>})

InquiryImportController == At("InquiryImport", "staff", {
    <<"GET", "presales.inquiry.import", {"importTemplate"}>>,
    <<"POST", "presales.inquiry.import", {"importInquiries"}>>})

InquiryController == At("Inquiry", "staff", {
    <<"GET", "presales.inquiry.read", {"findAll", "myDay", "findOne"}>>,
    <<"POST", "presales.inquiry.create", {"create"}>>,
    <<"POST", "presales.inquiry.update", {"update"}>>,
    <<"POST", "presales.inquiry.assign", {"assign"}>>})

ReportsController == At("Reports", "staff", {
    <<"GET", "presales.report.view", {"dailyInquiries", "funnel", "sourceWise", "budgetBand",
        "ageing",
        "staffPerformance", "managerWise", "inquiriesExport", "leadsByStage",
        "enquiryType", "dumpReport", "siteVisit", "stageTransitions", "stageVelocity",
        "followUpOverdue", "followUpDelay", "supervisorReviewQueue", "dailyWork",
        "communicationType"}>>,
    <<"POST", "presales.report.print", {"auditPrint"}>>})

BrokerReportsController == At("BrokerReports", "staff", {
    <<"GET", "reports.broker.view", {"soldUnits", "commissionSummary", "dues",
        "customerDetail", "summary"}>>})

PostsalesReportsController == At("PostsalesReports", "staff", {
    <<"GET", "reports.outstanding.view", {"installmentDues", "installmentDuesWithInterest",
        "duesAgeing"}>>,
    <<"GET", "reports.collection.view", {"collectionDetail", "collectionSummary",
        "collectionDaily", "collectionMonthly"}>>,
    <<"GET", "reports.applicant-ledger.view", {"applicantLedger"}>>,
    <<"GET", "reports.sales.view", {"unitStatusRollup", "bookingStatusRollup",
        "projectRollup", "companyRollup",
        "zeroGstBookingsCount", "zeroGstBookings"}>>,
    <<"GET", "reports.birthday.view", {"birthdayList"}>>})

RolesController == At("Roles", "staff", {
    <<"GET", "admin.role.read", {"findAll", "getAllPermissions", "findOne"}>>,
    <<"POST", "admin.role.create", {"create"}>>,
    <<"POST", "admin.role.update", {"update"}>>,
    <<"POST", "admin.role.delete", {"remove"}>>})

UsersController == At("Users", "staff", {
    <<"GET", "admin.user.read", {"findAll", "hierarchy", "findOne"}>>,
    <<"POST", "admin.user.create", {"create"}>>,
    <<"POST", "admin.user.update", {"update", "reactivate", "forcePasswordReset",
        "resetTotp"}>>,
    <<"POST", "admin.user.deactivate", {"deactivate"}>>})

WebhookDeliveryController == At("WebhookDelivery", "staff", {
    <<"GET", "admin.webhook.read", {"listForEndpoint", "getAttempts"}>>,
    <<"POST", "admin.webhook.manage", {"retry", "bulkRetry"}>>})

WebhookEndpointController == At("WebhookEndpoint", "staff", {
    <<"GET", "admin.webhook.read", {"list", "getOne"}>>,
    <<"POST", "admin.webhook.manage", {"create", "update", "enable", "disable", "remove",
        "sendTestEvent"}>>})

(***************************************************************************)
(* Every presales report is also a csv, which asks for one more permission *)
(* (requireExport in respond and streamRespond).                           *)
(***************************************************************************)
ReportsCsv ==
    {[r EXCEPT !.at = "ReportsCsv", !.needs = @ \cup {"presales.report.export"}] :
        r \in {report \in ReportsController : report.safe}}

Routes ==
    UNION {ReportsCsv, AuditController, AuthController, PortalBrokerDashboardController,
           PortalBrokerDocumentsController, PortalBrokerNocController,
           BrokerCommissionRuleController, BrokerController, NocController,
           CommissionPaymentController, CompanyController, CustomFieldsController,
           AdminChangeRequestController, AdminTicketController,
           ConstructionUpdateAdminController, PortalAccountController,
           PortalProfileController, PortalPropertyController, PortalTicketController,
           DashboardController, DispatchController, HealthController,
           ImportExportController, InventoryGroupController, ProjectMediaController,
           ProjectController, TowerController, UnitController, LeadApiKeyController,
           LeadInboundController, GstRateController, LeadStageController,
           LetterTemplateController, MasterController, SmsTemplateController,
           TdsRuleController, DocumentController, PluginAdminController,
           PortalAuthController, PortalBrandingController, PortalInviteAdminController,
           PortalPasswordResetAdminController, PortalTwoFactorResetAdminController,
           BookingDraftController, BookingController, PlanHistoryController,
           ReceiptController, RefundController, StageRaiseController, ApplicantController,
           AssignmentPoolController, CommunicationController, FollowUpController,
           InquiryImportController, InquiryController, ReportsController,
           BrokerReportsController, PostsalesReportsController, RolesController,
           UsersController, WebhookDeliveryController, WebhookEndpointController}

(* The route of a handler. *)
Route(at, op) == CHOOSE r \in Routes : r.at = at /\ r.op = op
============================================================================
