------------------------------ MODULE Endpoints ------------------------------
(***************************************************************************)
(* What the API offers to the browser, as tables:                          *)
(*   ...Routes   who may call each route (the controllers; RolesGuard),    *)
(*   ...Api      the route each function of the client calls (frontend/    *)
(*               src/api),                                                 *)
(*   ...Touches  the tables that function's service method answers from,   *)
(*               when it is a GET, or writes (the services),               *)
(*   ...Accepts  what the service lets become of a row's status, none      *)
(*               where it refuses.                                         *)
(* Where a service looks at other rows too, and a page has them in its own *)
(* answer, the status tells of them: it refines the status of the column.  *)
(* Routes and functions that no page uses are left out, and so are the     *)
(* rows of organizations, people, files and categories that only decorate  *)
(* an answer.                                                              *)
(* Client.tla runs the pages of Pages.tla against these tables.            *)
(***************************************************************************)
EXTENDS TLC

Roles == {"admin", "finance", "hr", "maintenance", "hse", "project_control",
          "document_control", "inventory", "staff", "viewer"}

\* RolesGuard: a route without @Roles is anyone's, an admin passes everywhere.
Open(routes)        == [route \in routes |-> Roles]
Only(allow, routes) == [route \in routes |-> allow \cup {"admin"}]

-----------------------------------------------------------------------------
\* Statuses told more finely than their column: a corrective action that is not
\* COMPLETED, an appraisal that is not, payments that cover the invoice, somebody who
\* holds the asset, an approval asked of others only, one's own account, a missing role.
Undone ==
  [REPORTED_UNDONE            |-> "REPORTED",
   UNDER_INVESTIGATION_UNDONE |-> "UNDER_INVESTIGATION",
   CORRECTIVE_ACTION_UNDONE   |-> "CORRECTIVE_ACTION",
   CLOSED_UNDONE              |-> "CLOSED"]

Unreviewed ==
  [DRAFT_UNREVIEWED |-> "DRAFT", ACTIVE_UNREVIEWED |-> "ACTIVE", CLOSED_UNREVIEWED |-> "CLOSED"]

Settled  == [DRAFT_SETTLED |-> "DRAFT", APPROVED_SETTLED |-> "APPROVED"]
InHands  == [HELD |-> "ACTIVE", HELD_UNDER_MAINTENANCE |-> "UNDER_MAINTENANCE"]
Aside    == [IN_REVIEW_ASIDE |-> "IN_REVIEW"]
Special  == [ACTIVE_SELF |-> "ACTIVE", DISABLED_ROLELESS |-> "DISABLED"]

Column      == Undone @@ Unreviewed @@ Settled @@ InHands @@ Aside @@ Special
InColumn(s) == IF s \in DOMAIN Column THEN Column[s] ELSE s

\* The moves of a column, by rows that are told more finely and by those that are not;
\* a move keeps what is told besides.
Marked(mark, moves) ==
  moves @@ [m \in DOMAIN mark |-> {n \in DOMAIN mark : mark[n] \in moves[mark[m]]}]

\* Statuses of one column.
Alike(s, statuses) == {t \in statuses : InColumn(t) = InColumn(s)}

-----------------------------------------------------------------------------
\* Accounting.
AccountingRoutes ==
  Open({"GET vendors", "GET vendors/:id", "GET invoices", "GET invoices/:id"}) @@
  Only({"finance"}, {"POST vendors", "POST invoices", "PATCH invoices/:id/status",
                     "POST invoices/:id/payments"})

AccountingApi ==
  [listVendors         |-> "GET vendors",
   getVendor           |-> "GET vendors/:id",
   createVendor        |-> "POST vendors",
   listInvoices        |-> "GET invoices",
   getInvoice          |-> "GET invoices/:id",
   createInvoice       |-> "POST invoices",
   updateInvoiceStatus |-> "PATCH invoices/:id/status",
   recordPayment       |-> "POST invoices/:id/payments"]

AccountingTouches ==
  [listVendors         |-> {"vendors"},
   getVendor           |-> {"vendors", "invoices"},
   createVendor        |-> {"vendors"},
   listInvoices        |-> {"invoices"},
   getInvoice          |-> {"invoices", "payments"},
   createInvoice       |-> {"invoices"},
   updateInvoiceStatus |-> {"invoices"},
   recordPayment       |-> {"invoices", "payments"}]

InvoiceAccepts ==
  [DRAFT         |-> {"APPROVED", "VOID"},         APPROVED         |-> {"VOID"},
   DRAFT_SETTLED |-> {"APPROVED_SETTLED", "VOID"}, APPROVED_SETTLED |-> {"VOID"},
   PAID          |-> {},                           VOID             |-> {}]

\* Payments are taken for APPROVED invoices that are not covered; the last one makes
\* it PAID.
PaymentAccepts ==
  [s \in DOMAIN InvoiceAccepts |-> IF s = "APPROVED" THEN {"APPROVED", "PAID"} ELSE {}]

-----------------------------------------------------------------------------
\* HSE.
HseRoutes ==
  Open({"GET incidents", "GET incidents/:id", "POST incidents"}) @@
  Only({"hse"}, {"PATCH incidents/:id/status", "POST incidents/:id/corrective-actions",
                 "PATCH incidents/:id/corrective-actions/:actionId"})

HseApi ==
  [listIncidents          |-> "GET incidents",
   getIncident            |-> "GET incidents/:id",
   createIncident         |-> "POST incidents",
   updateIncidentStatus   |-> "PATCH incidents/:id/status",
   createCorrectiveAction |-> "POST incidents/:id/corrective-actions",
   updateCorrectiveAction |-> "PATCH incidents/:id/corrective-actions/:actionId"]

HseTouches ==
  [listIncidents          |-> {"incidents"},
   getIncident            |-> {"incidents", "corrective_actions"},
   createIncident         |-> {"incidents"},
   updateIncidentStatus   |-> {"incidents"},
   createCorrectiveAction |-> {"corrective_actions"},
   updateCorrectiveAction |-> {"corrective_actions"}]

IncidentMoves ==
  [REPORTED            |-> {"UNDER_INVESTIGATION", "CLOSED"},
   UNDER_INVESTIGATION |-> {"CORRECTIVE_ACTION", "CLOSED"},
   CORRECTIVE_ACTION   |-> {"CLOSED"},
   CLOSED              |-> {}]

IncidentKinds == DOMAIN IncidentMoves \cup DOMAIN Undone

\* An incident is not closed before its corrective actions are done.
IncidentAccepts ==
  [s \in IncidentKinds |-> Marked(Undone, IncidentMoves)[s] \ {"CLOSED_UNDONE"}]

\* A new corrective action is not done; a changed one may be either.
MeasureAccepts       == [s \in IncidentKinds |-> Alike(s, DOMAIN Undone)]
UpdateMeasureAccepts == [s \in IncidentKinds |-> Alike(s, IncidentKinds)]

-----------------------------------------------------------------------------
\* Projects.
ProjectsRoutes ==
  Open({"GET projects", "GET projects/:id"}) @@
  Only({"project_control"}, {"POST projects", "PATCH projects/:id/status",
         "POST projects/:id/milestones", "PATCH projects/:id/milestones/:milestoneId"})

ProjectsApi ==
  [listProjects        |-> "GET projects",
   getProject          |-> "GET projects/:id",
   createProject       |-> "POST projects",
   updateProjectStatus |-> "PATCH projects/:id/status",
   createMilestone     |-> "POST projects/:id/milestones",
   updateMilestone     |-> "PATCH projects/:id/milestones/:milestoneId"]

ProjectsTouches ==
  [listProjects        |-> {"projects"},
   getProject          |-> {"projects", "milestones"},
   createProject       |-> {"projects"},
   updateProjectStatus |-> {"projects"},
   createMilestone     |-> {"milestones"},
   updateMilestone     |-> {"milestones"}]

ProjectAccepts ==
  [PLANNED |-> {"ACTIVE", "CLOSED"}, ACTIVE |-> {"ON_HOLD", "CLOSED"},
   ON_HOLD |-> {"ACTIVE", "CLOSED"}, CLOSED |-> {}]

-----------------------------------------------------------------------------
\* Human resources.
EmployeesRoutes ==
  Open({"GET employees", "GET employees/dashboard", "GET employees/:id"}) @@
  Only({"hr"}, {"POST employees", "PATCH employees/:id/status", "PATCH employees/:id"})

AppraisalsRoutes ==
  Open({"GET appraisal-cycles", "GET appraisal-cycles/:id", "GET appraisals/:id",
        "POST appraisals/:id/reviews"}) @@
  Only({"hr"}, {"POST appraisal-cycles", "PATCH appraisal-cycles/:id/status",
                "POST appraisal-cycles/:id/appraisals"})

ShiftsRoutes ==
  Open({"GET shifts"}) @@ Only({"hr"}, {"POST shifts", "PATCH shifts/:id"})

AttendanceRoutes ==
  Open({"POST attendance/clock-in", "POST attendance/clock-out", "GET attendance/me"}) @@
  Only({"hr"}, {"GET attendance", "POST attendance", "PATCH attendance/:id"})

ExpenseRequestsRoutes ==
  Open({"POST expense-requests/me", "GET expense-requests/me", "GET expense-requests"}) @@
  Only({"hr"}, {"PATCH expense-requests/:id/status"})

\* The first half of the client's module: people, shifts and appraisals ...
HrApi ==
  [listEmployees              |-> "GET employees",
   getEmployee                |-> "GET employees/:id",
   createEmployee             |-> "POST employees",
   updateEmployee             |-> "PATCH employees/:id",
   updateEmploymentStatus     |-> "PATCH employees/:id/status",
   getHrDashboard             |-> "GET employees/dashboard",
   listAppraisalCycles        |-> "GET appraisal-cycles",
   getAppraisalCycle          |-> "GET appraisal-cycles/:id",
   createAppraisalCycle       |-> "POST appraisal-cycles",
   updateAppraisalCycleStatus |-> "PATCH appraisal-cycles/:id/status",
   createAppraisal            |-> "POST appraisal-cycles/:id/appraisals",
   getAppraisal               |-> "GET appraisals/:id",
   submitAppraisalReview      |-> "POST appraisals/:id/reviews"]

\* ... and the second: what they do every day.
HrDailyApi ==
  [listShifts                 |-> "GET shifts",
   createShift                |-> "POST shifts",
   updateShift                |-> "PATCH shifts/:id",
   clockIn                    |-> "POST attendance/clock-in",
   clockOut                   |-> "POST attendance/clock-out",
   getMyAttendance            |-> "GET attendance/me",
   listAttendance             |-> "GET attendance",
   createAttendanceRecord     |-> "POST attendance",
   updateAttendanceRecord     |-> "PATCH attendance/:id",
   createMyExpenseRequest     |-> "POST expense-requests/me",
   getMyExpenseRequests       |-> "GET expense-requests/me",
   listExpenseRequests        |-> "GET expense-requests",
   updateExpenseRequestStatus |-> "PATCH expense-requests/:id/status"]

EmployeesTouches ==
  [listEmployees          |-> {"employees"},
   getEmployee            |-> {"employees", "shifts"},
   createEmployee         |-> {"employees"},
   updateEmployee         |-> {"employees"},
   updateEmploymentStatus |-> {"employees"},
   getHrDashboard         |-> {"employees"}]

AppraisalsTouches ==
  [listAppraisalCycles        |-> {"cycles"},
   getAppraisalCycle          |-> {"cycles", "appraisals", "reviews"},
   createAppraisalCycle       |-> {"cycles"},
   updateAppraisalCycleStatus |-> {"cycles"},
   createAppraisal            |-> {"appraisals", "reviews"},
   getAppraisal               |-> {"appraisals", "reviews"},
   submitAppraisalReview      |-> {"appraisals", "reviews"}]

ShiftsTouches ==
  [listShifts |-> {"shifts"}, createShift |-> {"shifts"}, updateShift |-> {"shifts"}]

AttendanceTouches ==
  [clockIn                |-> {"attendance"},
   clockOut               |-> {"attendance"},
   getMyAttendance        |-> {"attendance"},
   listAttendance         |-> {"attendance", "employees"},
   createAttendanceRecord |-> {"attendance"},
   updateAttendanceRecord |-> {"attendance"}]

ExpenseRequestsTouches ==
  [createMyExpenseRequest     |-> {"expense_requests"},
   getMyExpenseRequests       |-> {"expense_requests"},
   listExpenseRequests        |-> {"expense_requests", "employees"},
   updateExpenseRequestStatus |-> {"expense_requests"}]

\* Only TERMINATED is for good.
EmploymentAccepts ==
  [ACTIVE     |-> {"ACTIVE", "ON_LEAVE", "TERMINATED"},
   ON_LEAVE   |-> {"ACTIVE", "ON_LEAVE", "TERMINATED"},
   TERMINATED |-> {}]

CycleMoves == [DRAFT |-> {"ACTIVE", "CLOSED"}, ACTIVE |-> {"CLOSED"}, CLOSED |-> {}]

CycleKinds == DOMAIN CycleMoves \cup DOMAIN Unreviewed

\* A cycle is not closed before its appraisals are COMPLETED.
CycleAccepts ==
  [s \in CycleKinds |-> Marked(Unreviewed, CycleMoves)[s] \ {"CLOSED_UNREVIEWED"}]

\* An appraisal is added to a cycle that is not CLOSED.
AppraisalAccepts ==
  [s \in CycleKinds |->
     IF InColumn(s) = "CLOSED" THEN {} ELSE Alike(s, DOMAIN Unreviewed)]

\* The status of one's own review.
ReviewAccepts == [PENDING |-> {"SUBMITTED"}, SUBMITTED |-> {}]

\* The day of the one who clocks.
ClockInAccepts  == [absent |-> {"present"}, present |-> {}, gone |-> {}]
ClockOutAccepts == [absent |-> {}, present |-> {"gone"}, gone |-> {}]

ExpenseAccepts ==
  [PENDING |-> {"APPROVED", "REJECTED"}, APPROVED |-> {"REIMBURSED"},
   REJECTED |-> {}, REIMBURSED |-> {}]

-----------------------------------------------------------------------------
\* Inventory, its dashboard and its report.
InventoryRoutes ==
  Open({"GET warehouses", "GET warehouses/:id", "GET item-categories",
        "GET inventory-items", "GET inventory-items/overview", "GET inventory-items/:id",
        "GET stock-transactions", "GET purchases", "GET consumptions"}) @@
  Only({"inventory"}, {"POST warehouses", "POST item-categories", "POST inventory-items",
        "PATCH inventory-items/:id", "POST stock-transactions", "POST stock-transactions/adjust",
        "POST stock-transactions/transfer", "POST purchases", "POST consumptions"}) @@
  Only({}, {"DELETE inventory-items/:id", "DELETE purchases/:id", "DELETE consumptions/:id"})

ReportsRoutes ==
  Open({"GET dashboard/inventory"}) @@
  Only({"inventory", "finance", "viewer"}, {"GET reports/inventory"})

InventoryApi ==
  [listWarehouses         |-> "GET warehouses",
   getWarehouse           |-> "GET warehouses/:id",
   createWarehouse        |-> "POST warehouses",
   listItemCategories     |-> "GET item-categories",
   createItemCategory     |-> "POST item-categories",
   listInventoryItems     |-> "GET inventory-items",
   getStockOverview       |-> "GET inventory-items/overview",
   getInventoryItem       |-> "GET inventory-items/:id",
   createInventoryItem    |-> "POST inventory-items",
   updateInventoryItem    |-> "PATCH inventory-items/:id",
   deleteInventoryItem    |-> "DELETE inventory-items/:id",
   listStockTransactions  |-> "GET stock-transactions",
   recordStockTransaction |-> "POST stock-transactions",
   adjustStock            |-> "POST stock-transactions/adjust",
   transferStock          |-> "POST stock-transactions/transfer",
   listPurchases          |-> "GET purchases",
   recordPurchase         |-> "POST purchases",
   deletePurchase         |-> "DELETE purchases/:id",
   listConsumptions       |-> "GET consumptions",
   recordConsumption      |-> "POST consumptions",
   deleteConsumption      |-> "DELETE consumptions/:id"]

ReportsApi ==
  [getInventoryDashboard |-> "GET dashboard/inventory",
   getInventoryReport    |-> "GET reports/inventory"]

Stock == {"items", "stock_levels"}

\* Warehouses, categories and items ...
ItemsTouches ==
  [listWarehouses      |-> {"warehouses"},
   getWarehouse        |-> Stock \cup {"warehouses"},
   createWarehouse     |-> {"warehouses"},
   listItemCategories  |-> {"item_categories"},
   createItemCategory  |-> {"item_categories"},
   listInventoryItems  |-> Stock,
   getStockOverview    |-> Stock \cup {"warehouses"},
   getInventoryItem    |-> Stock \cup {"warehouses"},
   createInventoryItem |-> {"items"},
   updateInventoryItem |-> {"items"},
   deleteInventoryItem |-> {"items"}]

\* ... stock movements ...
MovementsTouches ==
  [listStockTransactions  |-> {"stock_transactions", "items", "warehouses"},
   recordStockTransaction |-> {"stock_transactions", "stock_levels"},
   adjustStock            |-> {"stock_transactions", "stock_levels"},
   transferStock          |-> {"stock_transactions", "stock_levels"}]

\* ... and the documents behind them.
StockDocumentsTouches ==
  [listPurchases     |-> {"purchases", "items", "vendors", "warehouses"},
   recordPurchase    |-> Stock \cup {"purchases", "stock_transactions"},
   deletePurchase    |-> Stock \cup {"purchases", "stock_transactions"},
   listConsumptions  |-> {"consumptions", "items", "projects", "warehouses"},
   recordConsumption |-> {"consumptions", "stock_levels", "stock_transactions"},
   deleteConsumption |-> {"consumptions", "stock_levels", "stock_transactions"}]

\* An item as its stock and its deletion mark.  It is deleted once no stock is left.
ItemStatuses == {"EMPTY", "STOCKED", "DELETED"}

UpdateItemAccepts == [s \in ItemStatuses |-> {s} \ {"DELETED"}]
DeleteItemAccepts == [s \in ItemStatuses |-> IF s = "EMPTY" THEN {"DELETED"} ELSE {}]

DashboardTouches ==
  [getInventoryDashboard |->
     Stock \cup {"purchases", "consumptions", "appointments", "users", "stock_transactions"}]

ReportsTouches ==
  [getInventoryReport |-> Stock \cup {"purchases", "consumptions", "appointments"}]

-----------------------------------------------------------------------------
\* Assets and their maintenance.
AssetsRoutes ==
  Open({"GET assets", "GET assets/:id", "GET assets/:id/assignments",
        "GET assets/:id/service-history"}) @@
  Only({"maintenance"}, {"GET assets/:id/history", "POST assets", "PATCH assets/:id",
        "POST assets/:id/check-out", "POST assets/:id/check-in"})

WorkOrdersRoutes ==
  Open({"GET work-orders", "GET work-orders/:id", "POST work-orders"}) @@
  Only({"maintenance"}, {"PATCH work-orders/:id/assign", "PATCH work-orders/:id/status"})

SchedulesRoutes ==
  Open({"GET maintenance-schedules"}) @@
  Only({"maintenance"}, {"POST maintenance-schedules", "POST maintenance-schedules/generate",
        "PATCH maintenance-schedules/:id"}) @@
  Only({}, {"DELETE maintenance-schedules/:id"})

AssetsApi ==
  [listAssets             |-> "GET assets",
   getAsset               |-> "GET assets/:id",
   createAsset            |-> "POST assets",
   updateAsset            |-> "PATCH assets/:id",
   checkOutAsset          |-> "POST assets/:id/check-out",
   checkInAsset           |-> "POST assets/:id/check-in",
   listAssetAssignments   |-> "GET assets/:id/assignments",
   getAssetHistory        |-> "GET assets/:id/history",
   getAssetServiceHistory |-> "GET assets/:id/service-history"]

MaintenanceApi ==
  [listWorkOrders        |-> "GET work-orders",
   getWorkOrder          |-> "GET work-orders/:id",
   createWorkOrder       |-> "POST work-orders",
   assignWorkOrder       |-> "PATCH work-orders/:id/assign",
   updateWorkOrderStatus |-> "PATCH work-orders/:id/status",
   listSchedules         |-> "GET maintenance-schedules",
   createSchedule        |-> "POST maintenance-schedules",
   updateSchedule        |-> "PATCH maintenance-schedules/:id",
   deleteSchedule        |-> "DELETE maintenance-schedules/:id",
   generateDueWorkOrders |-> "POST maintenance-schedules/generate"]

AssetsTouches ==
  [listAssets             |-> {"assets", "custody"},
   getAsset               |-> {"assets", "custody", "work_orders"},
   createAsset            |-> {"assets"},
   updateAsset            |-> {"assets"},
   checkOutAsset          |-> {"custody"},
   checkInAsset           |-> {"custody", "assets"},
   listAssetAssignments   |-> {"custody"},
   getAssetHistory        |-> {"audit_log"},
   getAssetServiceHistory |-> {"work_orders", "stock_transactions"}]

WorkOrdersTouches ==
  [listWorkOrders        |-> {"work_orders"},
   getWorkOrder          |-> {"work_orders"},
   createWorkOrder       |-> {"work_orders"},
   assignWorkOrder       |-> {"work_orders"},
   updateWorkOrderStatus |-> {"work_orders", "assets", "schedules"}]

SchedulesTouches ==
  [listSchedules         |-> {"schedules", "assets"},
   createSchedule        |-> {"schedules"},
   updateSchedule        |-> {"schedules"},
   deleteSchedule        |-> {"schedules"},
   generateDueWorkOrders |-> {"schedules", "work_orders"}]

\* An edit sets ACTIVE or DECOMMISSIONED, or leaves the status of an asset under
\* maintenance alone; what somebody holds is not decommissioned.
AssetAccepts ==
  [ACTIVE                 |-> {"ACTIVE", "DECOMMISSIONED"},
   HELD                   |-> {"HELD"},
   UNDER_MAINTENANCE      |-> {"UNDER_MAINTENANCE"},
   HELD_UNDER_MAINTENANCE |-> {"HELD_UNDER_MAINTENANCE"},
   DECOMMISSIONED         |-> {"DECOMMISSIONED", "ACTIVE"}]

AssetStatuses == DOMAIN AssetAccepts

CheckOutAccepts == [s \in AssetStatuses |-> IF s = "ACTIVE" THEN {"HELD"} ELSE {}]

CheckInAccepts ==
  [s \in AssetStatuses |->
     CASE s = "HELD"                   -> {"ACTIVE"}
       [] s = "HELD_UNDER_MAINTENANCE" -> {"UNDER_MAINTENANCE"}
       [] OTHER                        -> {}]

\* A schedule for the asset.
ScheduleAccepts == [s \in AssetStatuses |-> {s} \ {"DECOMMISSIONED"}]

WorkOrderAccepts ==
  [OPEN        |-> {"IN_PROGRESS", "ON_HOLD", "CANCELLED"},
   IN_PROGRESS |-> {"ON_HOLD", "COMPLETED", "CANCELLED"},
   ON_HOLD     |-> {"IN_PROGRESS", "CANCELLED"},
   COMPLETED   |-> {},
   CANCELLED   |-> {}]

-----------------------------------------------------------------------------
\* Appointments.
AppointmentsRoutes ==
  Open({"GET appointments/schedule", "GET appointments/slots", "GET appointments/mine",
        "POST appointments", "POST appointments/:id/cancel"}) @@
  Only({"inventory"}, {"GET appointments", "POST appointments/:id/review"}) @@
  Only({}, {"PUT appointments/schedule"})

AppointmentsApi ==
  [getAppointmentSchedule    |-> "GET appointments/schedule",
   updateAppointmentSchedule |-> "PUT appointments/schedule",
   getSlots                  |-> "GET appointments/slots",
   bookAppointment           |-> "POST appointments",
   listMyAppointments        |-> "GET appointments/mine",
   listAppointments          |-> "GET appointments",
   cancelAppointment         |-> "POST appointments/:id/cancel",
   reviewAppointment         |-> "POST appointments/:id/review"]

\* A review that completes an appointment issues its items from the stock.
AppointmentsTouches ==
  [getAppointmentSchedule    |-> {"settings"},
   updateAppointmentSchedule |-> {"settings"},
   getSlots                  |-> {"settings", "appointments"},
   bookAppointment           |-> {"appointments"},
   listMyAppointments        |-> {"appointments"},
   listAppointments          |-> {"appointments"},
   cancelAppointment         |-> {"appointments"},
   reviewAppointment         |->
     {"appointments", "consumptions", "stock_levels", "stock_transactions"}]

AppointmentStatuses == {"PENDING", "APPROVED", "DECLINED", "COMPLETED", "CANCELLED"}

CancelAccepts ==
  [s \in AppointmentStatuses |-> IF s \in {"PENDING", "APPROVED"} THEN {"CANCELLED"} ELSE {}]

ReviewAppointmentAccepts ==
  [s \in AppointmentStatuses |->
     CASE s = "PENDING"  -> {"APPROVED", "DECLINED", "COMPLETED"}
       [] s = "APPROVED" -> {"DECLINED", "COMPLETED"}
       [] OTHER          -> {}]

-----------------------------------------------------------------------------
\* Documents.
DocumentsRoutes ==
  Open({"GET documents", "GET documents/:id", "POST documents", "POST documents/:id/versions",
        "POST documents/:id/submit", "POST documents/:id/review"})

DocumentsApi ==
  [listDocuments      |-> "GET documents",
   getDocument        |-> "GET documents/:id",
   createDocument     |-> "POST documents",
   addDocumentVersion |-> "POST documents/:id/versions",
   submitForReview    |-> "POST documents/:id/submit",
   recordDecision     |-> "POST documents/:id/review"]

DocumentsTouches ==
  [listDocuments      |-> {"documents", "versions"},
   getDocument        |-> {"documents", "versions", "approvals"},
   createDocument     |-> {"documents", "versions"},
   addDocumentVersion |-> {"documents", "versions"},
   submitForReview    |-> {"documents", "approvals"},
   recordDecision     |-> {"documents", "approvals"}]

DocumentStatuses == {"DRAFT", "IN_REVIEW", "IN_REVIEW_ASIDE", "APPROVED", "REJECTED"}

\* A new version is taken at any status and makes the document a DRAFT again.
VersionAccepts == [s \in DocumentStatuses |-> {"DRAFT"}]

SubmitAccepts ==
  [s \in DocumentStatuses |->
     IF s \in {"DRAFT", "REJECTED"} THEN {"IN_REVIEW", "IN_REVIEW_ASIDE"} ELSE {}]

\* A decision is a reviewer's, and each of them decides once.
DecisionAccepts ==
  [s \in DocumentStatuses |->
     IF s = "IN_REVIEW" THEN {"IN_REVIEW_ASIDE", "APPROVED", "REJECTED"} ELSE {}]

-----------------------------------------------------------------------------
\* Users, settings, the activity log, notifications, organizations.
UsersRoutes ==
  Open({"GET users"}) @@
  Only({}, {"PATCH users/:id", "POST users/:id/approve", "POST users/:id/reject",
            "POST users/:id/disable", "POST users/:id/enable"})

SettingsRoutes ==
  Only({}, {"GET settings/access", "PUT settings/access", "GET settings/email", "PUT settings/email"})

ActivityRoutes      == Only({}, {"GET activity"})
NotificationsRoutes == Only({"inventory"}, {"GET notifications"})

OrganizationsRoutes ==
  Open({"GET organizations", "GET organizations/:id"}) @@ Only({}, {"POST organizations"})

DepartmentsRoutes == Only({}, {"POST departments", "PATCH departments/:id"})

UsersApi ==
  [listUsers   |-> "GET users",
   approveUser |-> "POST users/:id/approve",
   rejectUser  |-> "POST users/:id/reject",
   disableUser |-> "POST users/:id/disable",
   enableUser  |-> "POST users/:id/enable",
   updateUser  |-> "PATCH users/:id"]

SettingsApi ==
  [getAccessSettings    |-> "GET settings/access",
   updateAccessSettings |-> "PUT settings/access",
   getEmailSettings     |-> "GET settings/email",
   updateEmailSettings  |-> "PUT settings/email"]

ActivityApi      == [listActivity |-> "GET activity"]
NotificationsApi == [getNotifications |-> "GET notifications"]

OrganizationsApi ==
  [listOrganizations  |-> "GET organizations",
   getOrganization    |-> "GET organizations/:id",
   createOrganization |-> "POST organizations",
   createDepartment   |-> "POST departments",
   updateDepartment   |-> "PATCH departments/:id"]

UsersTouches ==
  [listUsers |-> {"users"}, approveUser |-> {"users"}, rejectUser |-> {"users"},
   disableUser |-> {"users"}, enableUser |-> {"users"}, updateUser |-> {"users"}]

SettingsTouches ==
  [getAccessSettings |-> {"settings"}, updateAccessSettings |-> {"settings"},
   getEmailSettings |-> {"settings"}, updateEmailSettings |-> {"settings"}]

ActivityTouches      == [listActivity |-> {"audit_log"}]
NotificationsTouches == [getNotifications |-> {"users", "appointments"}]

OrganizationsTouches ==
  [listOrganizations |-> {"organizations", "departments"},
   getOrganization |-> {"organizations", "departments", "projects"},
   createOrganization |-> {"organizations"}]

DepartmentsTouches == [createDepartment |-> {"departments"}, updateDepartment |-> {"departments"}]

UserStatuses == {"PENDING", "ACTIVE", "REJECTED", "DISABLED"} \cup DOMAIN Special

Moving(from, to) == [s \in UserStatuses |-> IF s \in from THEN {to} ELSE {}]

ApproveAccepts == Moving({"PENDING", "REJECTED"}, "ACTIVE")
RejectAccepts  == Moving({"PENDING"}, "REJECTED")
DisableAccepts == Moving({"ACTIVE"}, "DISABLED")   \* nobody disables himself
EnableAccepts  == Moving({"DISABLED"}, "ACTIVE")   \* nor enables who has no role

\* An update may assign a role.
UpdateAccepts ==
  [s \in UserStatuses |-> IF s = "DISABLED_ROLELESS" THEN {s, "DISABLED"} ELSE {s}]

-----------------------------------------------------------------------------
\* The whole of the API.
Allows ==
  AccountingRoutes @@ HseRoutes @@ ProjectsRoutes @@ EmployeesRoutes @@ AppraisalsRoutes @@
  ShiftsRoutes @@ AttendanceRoutes @@ ExpenseRequestsRoutes @@ InventoryRoutes @@
  ReportsRoutes @@ AssetsRoutes @@ WorkOrdersRoutes @@ SchedulesRoutes @@
  AppointmentsRoutes @@ DocumentsRoutes @@ UsersRoutes @@ SettingsRoutes @@ ActivityRoutes @@
  NotificationsRoutes @@ OrganizationsRoutes @@ DepartmentsRoutes

Calls ==
  AccountingApi @@ HseApi @@ ProjectsApi @@ HrApi @@ HrDailyApi @@ InventoryApi @@
  ReportsApi @@ AssetsApi @@ MaintenanceApi @@ AppointmentsApi @@ DocumentsApi @@ UsersApi @@
  SettingsApi @@ ActivityApi @@ NotificationsApi @@ OrganizationsApi

Touches ==
  AccountingTouches @@ HseTouches @@ ProjectsTouches @@ EmployeesTouches @@
  AppraisalsTouches @@ ShiftsTouches @@ AttendanceTouches @@ ExpenseRequestsTouches @@
  ItemsTouches @@ MovementsTouches @@ StockDocumentsTouches @@ DashboardTouches @@
  ReportsTouches @@ AssetsTouches @@ WorkOrdersTouches @@ SchedulesTouches @@
  AppointmentsTouches @@ DocumentsTouches @@ UsersTouches @@ SettingsTouches @@
  ActivityTouches @@ NotificationsTouches @@ OrganizationsTouches @@ DepartmentsTouches

\* The functions whose service method looks at a status.
Accepts ==
  [updateInvoiceStatus        |-> InvoiceAccepts,
   recordPayment              |-> PaymentAccepts,
   updateIncidentStatus       |-> IncidentAccepts,
   createCorrectiveAction     |-> MeasureAccepts,
   updateCorrectiveAction     |-> UpdateMeasureAccepts,
   updateProjectStatus        |-> ProjectAccepts,
   updateEmploymentStatus     |-> EmploymentAccepts,
   updateAppraisalCycleStatus |-> CycleAccepts,
   createAppraisal            |-> AppraisalAccepts,
   submitAppraisalReview      |-> ReviewAccepts,
   clockIn                    |-> ClockInAccepts,
   clockOut                   |-> ClockOutAccepts,
   updateExpenseRequestStatus |-> ExpenseAccepts,
   updateInventoryItem        |-> UpdateItemAccepts,
   deleteInventoryItem        |-> DeleteItemAccepts,
   updateAsset                |-> AssetAccepts,
   checkOutAsset              |-> CheckOutAccepts,
   checkInAsset               |-> CheckInAccepts,
   createSchedule             |-> ScheduleAccepts,
   updateWorkOrderStatus      |-> WorkOrderAccepts,
   cancelAppointment          |-> CancelAccepts,
   reviewAppointment          |-> ReviewAppointmentAccepts,
   addDocumentVersion         |-> VersionAccepts,
   submitForReview            |-> SubmitAccepts,
   recordDecision             |-> DecisionAccepts,
   approveUser                |-> ApproveAccepts,
   rejectUser                 |-> RejectAccepts,
   disableUser                |-> DisableAccepts,
   enableUser                 |-> EnableAccepts,
   updateUser                 |-> UpdateAccepts]

\* May somebody call the function?
Permits(role, does) == role \in Allows[Calls[does]]

\* What it may leave the status as.
Results(does, from) ==
  IF does \in DOMAIN Accepts /\ from \in DOMAIN Accepts[does] THEN Accepts[does][from] ELSE {from}

\* A request asks for a status of the column, for the one there is ("="), or names none
\* ("any").
Outcomes(does, from, to) ==
  {s \in Results(does, from) : to = "any" \/ to = InColumn(s) \/ (to = "=" /\ s = from)}

Takes(does, from, to) == Outcomes(does, from, to) # {}

=============================================================================
