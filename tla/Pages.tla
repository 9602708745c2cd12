-------------------------------- MODULE Pages --------------------------------
(***************************************************************************)
(* What the pages of the browser read, offer and forget, as tables: one    *)
(* definition per component of frontend/src/modules, the panels of a       *)
(* tabbed page each on their own.                                          *)
(*                                                                         *)
(* A page has the roles it is shown to, the statuses of the row it is      *)
(* about ("-" when its offers ask for none), the query that answers that   *)
(* row and those it keeps besides, each under a key, and what it offers:   *)
(* the function called, the roles that see the offer, the statuses it asks *)
(* for ("=" the one there is, "any" whatever the service makes of it), and *)
(* the keys whose queries are forgotten when it has succeeded, or failed   *)
(* ("anyway").  In a key, "id" stands for the row's identity and *)
(* "filters" for an object of filters.  Lists inside dialogs are loaded    *)
(* each time the dialog opens and are left out, as are layout, forms and   *)
(* what they check.                                                        *)
(***************************************************************************)
EXTENDS Endpoints, Sequences

NoStatus == {"-"}

\* An offer that leaves the status as it is.
Keeps(statuses) == [s \in statuses |-> {"="}]
Anyhow          == Keeps(NoStatus)

\* An offer that is there for some statuses of the column and names none.
When(from, statuses) == [s \in statuses |-> IF InColumn(s) \in from THEN {"any"} ELSE {}]

\* StatusMenu: the moves of the column, whatever else the page shows.
Menu(transitions, statuses) == [s \in statuses |-> transitions[InColumn(s)]]

Query(key, by) == [key |-> key, by |-> by, for |-> Roles]

Offer(does, for, moves, forgets) ==
  [does |-> does, for |-> for \cup {"admin"}, moves |-> moves, forgets |-> forgets,
   anyway |-> {}]

Page(statuses, query, offers) ==
  [for |-> Roles, statuses |-> statuses, query |-> query, also |-> {}, offers |-> offers]

Also(queries, panel)  == [panel EXCEPT !.also = queries]
ShownTo(roles, panel) == [panel EXCEPT !.for = roles \cup {"admin"}]

Queries(panel) == panel.also \cup {panel.query}

-----------------------------------------------------------------------------
\* Accounting.
INVOICE_TRANSITIONS ==
  [DRAFT |-> {"APPROVED", "VOID"}, APPROVED |-> {"VOID"}, PAID |-> {}, VOID |-> {}]

InvoiceDetailPage ==
  LET forgets  == {<<"invoices", "id">>}
      statuses == DOMAIN INVOICE_TRANSITIONS \cup DOMAIN Settled
  IN  Page(statuses, Query(<<"invoices", "id">>, "getInvoice"),
        {Offer("updateInvoiceStatus", {"finance"}, Menu(INVOICE_TRANSITIONS, statuses), forgets),
         Offer("recordPayment", {"finance"}, When({"APPROVED"}, statuses), forgets)})

InvoicesListPage ==
  Page(NoStatus, Query(<<"invoices">>, "listInvoices"),
       {Offer("createInvoice", {"finance"}, Anyhow, {<<"invoices">>})})

VendorsListPage ==
  Page(NoStatus, Query(<<"vendors">>, "listVendors"),
       {Offer("createVendor", {"finance"}, Anyhow, {<<"vendors">>})})

VendorDetailPage == Page(NoStatus, Query(<<"vendors", "id">>, "getVendor"), {})

-----------------------------------------------------------------------------
\* HSE.
INCIDENT_TRANSITIONS ==
  [REPORTED            |-> {"UNDER_INVESTIGATION", "CLOSED"},
   UNDER_INVESTIGATION |-> {"CORRECTIVE_ACTION", "CLOSED"},
   CORRECTIVE_ACTION   |-> {"CLOSED"},
   CLOSED              |-> {}]

HseDetailPage ==
  LET forgets  == {<<"incidents", "id">>}
      columns  == DOMAIN INCIDENT_TRANSITIONS
      statuses == columns \cup DOMAIN Undone
  IN  Page(statuses, Query(<<"incidents", "id">>, "getIncident"),
        {Offer("updateIncidentStatus", {"hse"}, Menu(INCIDENT_TRANSITIONS, statuses), forgets),
         Offer("createCorrectiveAction", {"hse"}, When(columns, statuses), forgets),
         Offer("updateCorrectiveAction", {"hse"}, When(columns, statuses), forgets)})

HseListPage ==
  Page(NoStatus, Query(<<"incidents">>, "listIncidents"),
       {Offer("createIncident", Roles, Anyhow, {<<"incidents">>})})

-----------------------------------------------------------------------------
\* Projects.
PROJECT_TRANSITIONS ==
  [PLANNED |-> {"ACTIVE", "CLOSED"}, ACTIVE |-> {"ON_HOLD", "CLOSED"},
   ON_HOLD |-> {"ACTIVE", "CLOSED"}, CLOSED |-> {}]

ProjectDetailPage ==
  LET forgets == {<<"projects", "id">>}
      keeps   == Keeps(DOMAIN PROJECT_TRANSITIONS)
  IN  Page(DOMAIN PROJECT_TRANSITIONS, Query(<<"projects", "id">>, "getProject"),
        {Offer("updateProjectStatus", {"project_control"}, PROJECT_TRANSITIONS, forgets),
         Offer("createMilestone", {"project_control"}, keeps, forgets),
         Offer("updateMilestone", {"project_control"}, keeps, forgets)})

ProjectsListPage ==
  Page(NoStatus, Query(<<"projects">>, "listProjects"),
       {Offer("createProject", {"project_control"}, Anyhow, {<<"projects">>})})

-----------------------------------------------------------------------------
\* Human resources.
EMPLOYMENT_STATUS_TRANSITIONS ==
  [ACTIVE |-> {"ON_LEAVE", "TERMINATED"}, ON_LEAVE |-> {"ACTIVE", "TERMINATED"},
   TERMINATED |-> {}]

EmployeeDetailPage ==
  LET forgets == {<<"employees", "id">>}
  IN  Page(DOMAIN EMPLOYMENT_STATUS_TRANSITIONS, Query(<<"employees", "id">>, "getEmployee"),
        {Offer("updateEmploymentStatus", {"hr"}, EMPLOYMENT_STATUS_TRANSITIONS, forgets),
         Offer("updateEmployee", {"hr"}, Keeps(DOMAIN EMPLOYMENT_STATUS_TRANSITIONS), forgets)})

EmployeesListPage ==
  Page(NoStatus, Query(<<"employees">>, "listEmployees"),
       {Offer("createEmployee", {"hr"}, Anyhow, {<<"employees">>})})

HRDashboardPage == Page(NoStatus, Query(<<"hr-dashboard">>, "getHrDashboard"), {})

APPRAISAL_CYCLE_TRANSITIONS ==
  [DRAFT |-> {"ACTIVE", "CLOSED"}, ACTIVE |-> {"CLOSED"}, CLOSED |-> {}]

AppraisalCycleDetailPage ==
  LET forgets  == {<<"appraisal-cycles", "id">>}
      statuses == DOMAIN APPRAISAL_CYCLE_TRANSITIONS \cup DOMAIN Unreviewed
      moves    == Menu(APPRAISAL_CYCLE_TRANSITIONS, statuses)
  IN  Page(statuses, Query(<<"appraisal-cycles", "id">>, "getAppraisalCycle"),
        {Offer("updateAppraisalCycleStatus", {"hr"}, moves, forgets),
         Offer("createAppraisal", {"hr"}, When({"DRAFT", "ACTIVE"}, statuses), forgets)})

AppraisalCyclesListPage ==
  Page(NoStatus, Query(<<"appraisal-cycles">>, "listAppraisalCycles"),
       {Offer("createAppraisalCycle", {"hr"}, Anyhow, {<<"appraisal-cycles">>})})

\* For the one whose review it is.
AppraisalDetailPage ==
  LET statuses == {"PENDING", "SUBMITTED"}
  IN  Page(statuses, Query(<<"appraisals", "id">>, "getAppraisal"),
        {Offer("submitAppraisalReview", Roles, When({"PENDING"}, statuses),
               {<<"appraisals", "id">>})})

ShiftsPanel ==
  ShownTo({"hr"},
    Page(NoStatus, Query(<<"shifts">>, "listShifts"),
         {Offer("createShift", Roles, Anyhow, {<<"shifts">>}),
          Offer("updateShift", Roles, Anyhow, {<<"shifts">>})}))

\* What is recorded of today: no clock-in, no clock-out, both.
MyAttendancePanel ==
  LET days == {"absent", "present", "gone"}
  IN  Page(days, Query(<<"attendance", "me">>, "getMyAttendance"),
        {Offer("clockIn", Roles, When({"absent"}, days), {<<"attendance">>}),
         Offer("clockOut", Roles, When({"present"}, days), {<<"attendance">>})})

EveryEmployee == Query(<<"employees">>, "listEmployees")

TeamAttendancePanel ==
  ShownTo({"hr"}, Also({EveryEmployee},
    Page(NoStatus, Query(<<"attendance", "filters">>, "listAttendance"),
         {Offer("createAttendanceRecord", Roles, Anyhow, {<<"attendance">>}),
          Offer("updateAttendanceRecord", Roles, Anyhow, {<<"attendance">>})})))

MyExpenseRequestsPanel ==
  Page(NoStatus, Query(<<"expense-requests", "me">>, "getMyExpenseRequests"),
       {Offer("createMyExpenseRequest", Roles, Anyhow, {<<"expense-requests">>}),
        Offer("createDocument", Roles, Anyhow, {<<"expense-requests">>})})

EXPENSE_REQUEST_TRANSITIONS ==
  [PENDING |-> {"APPROVED", "REJECTED"}, APPROVED |-> {"REIMBURSED"},
   REJECTED |-> {}, REIMBURSED |-> {}]

TeamExpenseRequestsPanel ==
  ShownTo({"hr"}, Also({EveryEmployee},
    Page(DOMAIN EXPENSE_REQUEST_TRANSITIONS,
         Query(<<"expense-requests", "filters">>, "listExpenseRequests"),
         {Offer("updateExpenseRequestStatus", Roles, EXPENSE_REQUEST_TRANSITIONS,
                {<<"expense-requests">>})})))

-----------------------------------------------------------------------------
\* Inventory.
StockKeys == {<<"stock-overview">>, <<"stock-transactions">>, <<"inventory-items">>}

ConsumptionPage ==
  LET forgets == StockKeys \cup {<<"consumptions">>}
  IN  Page(NoStatus, Query(<<"consumptions", "filters">>, "listConsumptions"),
        {Offer("recordConsumption", {"inventory"}, Anyhow, forgets),
         Offer("deleteConsumption", {}, Anyhow, forgets)})

PurchasesPage ==
  LET forgets == StockKeys \cup {<<"purchases">>}
  IN  Page(NoStatus, Query(<<"purchases", "filters">>, "listPurchases"),
        {Offer("recordPurchase", {"inventory"}, Anyhow, forgets),
         Offer("deletePurchase", {}, Anyhow, forgets)})

\* The list of items and, by itself, a row of its table.
ItemKeys == {<<"stock-overview">>, <<"inventory-items">>}

InventoryItemsListPage ==
  Also({Query(<<"item-categories">>, "listItemCategories")},
    Page(NoStatus, Query(<<"stock-overview">>, "getStockOverview"),
         {Offer("createInventoryItem", {"inventory"}, Anyhow, ItemKeys),
          Offer("createItemCategory", {"inventory"}, Anyhow, {<<"item-categories">>})}))

InventoryItemsTable ==
  Page(ItemStatuses, Query(<<"stock-overview">>, "getStockOverview"),
       {Offer("updateInventoryItem", {"inventory"}, When({"EMPTY", "STOCKED"}, ItemStatuses), ItemKeys),
        Offer("deleteInventoryItem", {}, When({"EMPTY", "STOCKED"}, ItemStatuses), ItemKeys)})

InventoryItemDetailPage ==
  LET forgets == {<<"inventory-items", "id">>, <<"stock-transactions">>}
  IN  Also({Query(<<"stock-transactions", "filters">>, "listStockTransactions")},
      Page(NoStatus, Query(<<"inventory-items", "id">>, "getInventoryItem"),
        {Offer("recordStockTransaction", {"inventory"}, Anyhow, forgets),
         Offer("transferStock", {"inventory"}, Anyhow, forgets)}))

\* StorePage, its two tabs.
AvailableStock ==
  Page(NoStatus, Query(<<"stock-overview">>, "getStockOverview"),
       {Offer("adjustStock", {"inventory"}, Anyhow, StockKeys)})

EveryItem == Query(<<"inventory-items">>, "listInventoryItems")

Ledger ==
  Also({EveryItem},
    Page(NoStatus, Query(<<"stock-transactions", "filters">>, "listStockTransactions"), {}))

WarehousesListPage ==
  Page(NoStatus, Query(<<"warehouses">>, "listWarehouses"),
       {Offer("createWarehouse", {"inventory"}, Anyhow, {<<"warehouses">>})})

WarehouseDetailPage == Page(NoStatus, Query(<<"warehouses", "id">>, "getWarehouse"), {})

InventoryDashboardPage ==
  Page(NoStatus, Query(<<"inventory-dashboard">>, "getInventoryDashboard"), {})

ReportsPage ==
  Page(NoStatus, Query(<<"inventory-report", "filters">>, "getInventoryReport"), {})

-----------------------------------------------------------------------------
\* Appointments.
AllAppointmentsPanel ==
  LET forgets == {<<"appointments">>, <<"appointment-slots">>}
  IN  ShownTo({"inventory"},
        Page(AppointmentStatuses,
          Query(<<"appointments", "all", "filters">>, "listAppointments"),
          {Offer("reviewAppointment", Roles,
             [PENDING   |-> {"APPROVED", "DECLINED", "COMPLETED"},
              APPROVED  |-> {"DECLINED", "COMPLETED"},
              DECLINED  |-> {}, COMPLETED |-> {}, CANCELLED |-> {}],
             forgets \cup {<<"stock-overview">>, <<"consumptions">>, <<"stock-transactions">>}),
           Offer("cancelAppointment", Roles,
             When({"PENDING", "APPROVED"}, AppointmentStatuses), forgets)}))

MyAppointmentsPanel ==
  Page(AppointmentStatuses, Query(<<"appointments", "mine">>, "listMyAppointments"),
       {Offer("cancelAppointment", Roles, When({"PENDING", "APPROVED"}, AppointmentStatuses),
              {<<"appointments">>, <<"appointment-slots">>})})

BookPanel ==
  Also({EveryItem},
    Page(NoStatus, Query(<<"appointment-slots", "filters">>, "getSlots"),
         {[Offer("bookAppointment", Roles, Anyhow, {<<"appointments">>, <<"appointment-slots">>})
             EXCEPT !.anyway = {<<"appointment-slots">>}]}))

SchedulePanel ==
  ShownTo({},
    Page(NoStatus, Query(<<"appointment-schedule">>, "getAppointmentSchedule"),
         {Offer("updateAppointmentSchedule", Roles, Anyhow,
                {<<"appointment-schedule">>, <<"appointment-slots">>})}))

-----------------------------------------------------------------------------
\* Assets and their maintenance.
AssetDetailQueries ==
  {Query(<<"assets", "id", "assignments">>, "listAssetAssignments"),
   Query(<<"maintenance-schedules", "filters">>, "listSchedules"),
   Query(<<"assets", "id", "service-history">>, "getAssetServiceHistory"),
   [Query(<<"assets", "id", "history">>, "getAssetHistory") EXCEPT !.for = {"admin", "maintenance"}]}

\* The edit of an asset that is not under maintenance sends a status along.
EditAssetDialog ==
  Offer("updateAsset", {"maintenance"},
    [s \in AssetStatuses |->
       IF InColumn(s) = "UNDER_MAINTENANCE" THEN {"="} ELSE {"ACTIVE", "DECOMMISSIONED"}],
    {<<"assets">>})

\* Checked out is what nobody holds, checked in what somebody does.
CheckOutDialog ==
  Offer("checkOutAsset", {"maintenance"},
    [s \in AssetStatuses |-> IF s = "ACTIVE" THEN {"any"} ELSE {}], {<<"assets">>})

CheckInDialog ==
  Offer("checkInAsset", {"maintenance"},
    [s \in AssetStatuses |-> IF s \in DOMAIN InHands THEN {"any"} ELSE {}], {<<"assets">>})

ScheduleDialog(does, moves) ==
  Offer(does, {"maintenance"}, moves,
        {<<"maintenance-schedules">>, <<"work-orders">>, <<"assets">>})

AssetDetailPage ==
  Also(AssetDetailQueries,
    Page(AssetStatuses, Query(<<"assets", "id">>, "getAsset"),
         {EditAssetDialog, CheckOutDialog, CheckInDialog,
          ScheduleDialog("createSchedule",
            When(AssetStatuses \ {"DECOMMISSIONED"}, AssetStatuses))}))

AssetsListPage ==
  Page(NoStatus, Query(<<"assets", "filters">>, "listAssets"),
       {Offer("createAsset", {"maintenance"}, Anyhow, {<<"assets">>})})

WORK_ORDER_TRANSITIONS ==
  [OPEN        |-> {"IN_PROGRESS", "ON_HOLD", "CANCELLED"},
   IN_PROGRESS |-> {"ON_HOLD", "COMPLETED", "CANCELLED"},
   ON_HOLD     |-> {"IN_PROGRESS", "CANCELLED"},
   COMPLETED   |-> {},
   CANCELLED   |-> {}]

MaintenanceDetailPage ==
  Page(DOMAIN WORK_ORDER_TRANSITIONS, Query(<<"work-orders", "id">>, "getWorkOrder"),
    {Offer("updateWorkOrderStatus", {"maintenance"}, WORK_ORDER_TRANSITIONS,
           {<<"work-orders">>, <<"maintenance-schedules">>, <<"assets">>}),
     Offer("assignWorkOrder", {"maintenance"}, Keeps(DOMAIN WORK_ORDER_TRANSITIONS),
           {<<"work-orders", "id">>})})

MaintenanceListPage ==
  Page(NoStatus, Query(<<"work-orders">>, "listWorkOrders"),
       {Offer("createWorkOrder", {"maintenance"}, Anyhow, {<<"work-orders">>})})

SchedulesPage ==
  LET forgets == {<<"maintenance-schedules">>, <<"work-orders">>}
  IN  Page(NoStatus, Query(<<"maintenance-schedules">>, "listSchedules"),
        {Offer("generateDueWorkOrders", {"maintenance"}, Anyhow, forgets),
         Offer("deleteSchedule", {}, Anyhow, forgets),
         Offer("updateSchedule", {"maintenance"}, Anyhow, forgets),
         ScheduleDialog("createSchedule", Anyhow), ScheduleDialog("updateSchedule", Anyhow)})

-----------------------------------------------------------------------------
\* Documents.
DocumentDetailPage ==
  LET forgets  == {<<"documents", "id">>}
      In(from) == When(from, DocumentStatuses)
  IN  Page(DocumentStatuses, Query(<<"documents", "id">>, "getDocument"),
        {Offer("addDocumentVersion", Roles, In(DocumentStatuses), forgets),
         Offer("submitForReview", Roles, In({"DRAFT", "REJECTED"}), forgets),
         Offer("recordDecision", Roles, In({"IN_REVIEW"}), forgets)})

DocumentsListPage ==
  Page(NoStatus, Query(<<"documents">>, "listDocuments"),
       {Offer("createDocument", Roles, Anyhow, {<<"documents">>})})

-----------------------------------------------------------------------------
\* Users, settings, organizations.
UsersTab ==
  LET In(from) == When(from, UserStatuses)
  IN  Page(UserStatuses, Query(<<"users", "filters">>, "listUsers"),
        {Offer("updateUser", {}, In({"ACTIVE", "DISABLED"}), {<<"users">>}),
         Offer("disableUser", {}, In({"ACTIVE"}), {<<"users">>}),
         Offer("enableUser", {}, In({"DISABLED"}), {<<"users">>})})

\* The requests of one view, PENDING or REJECTED.
AccessRequestsPanel ==
  LET In(from) == When(from, UserStatuses)
  IN  ShownTo({},
        Page(UserStatuses, Query(<<"users", "filters">>, "listUsers"),
          {Offer("approveUser", Roles, In({"PENDING", "REJECTED"}), {<<"users">>}),
           Offer("rejectUser", Roles, In({"PENDING"}), {<<"users">>})}))

AccessSettingsPanel ==
  ShownTo({},
    Page(NoStatus, Query(<<"access-settings">>, "getAccessSettings"),
         {Offer("updateAccessSettings", Roles, Anyhow, {<<"access-settings">>})}))

EmailSettingsPanel ==
  ShownTo({},
    Page(NoStatus, Query(<<"email-settings">>, "getEmailSettings"),
         {Offer("updateEmailSettings", Roles, Anyhow, {<<"email-settings">>})}))

ActivityPanel ==
  ShownTo({}, Page(NoStatus, Query(<<"activity", "filters">>, "listActivity"), {}))

NotificationBell ==
  ShownTo({"inventory"}, Page(NoStatus, Query(<<"notifications">>, "getNotifications"), {}))

OrganizationsListPage ==
  Page(NoStatus, Query(<<"organizations">>, "listOrganizations"),
       {Offer("createOrganization", {}, Anyhow, {<<"organizations">>})})

OrganizationDetailPage ==
  LET forgets == {<<"organizations", "id">>}
  IN  Page(NoStatus, Query(<<"organizations", "id">>, "getOrganization"),
        {Offer("createDepartment", {}, Anyhow, forgets),
         Offer("updateDepartment", {}, Anyhow, forgets)})

-----------------------------------------------------------------------------
\* The routes of the browser.
App ==
  [InvoiceDetailPage        |-> InvoiceDetailPage,
   InvoicesListPage         |-> InvoicesListPage,
   VendorsListPage          |-> VendorsListPage,
   VendorDetailPage         |-> VendorDetailPage,
   HseDetailPage            |-> HseDetailPage,
   HseListPage              |-> HseListPage,
   ProjectDetailPage        |-> ProjectDetailPage,
   ProjectsListPage         |-> ProjectsListPage,
   EmployeeDetailPage       |-> EmployeeDetailPage,
   EmployeesListPage        |-> EmployeesListPage,
   HRDashboardPage          |-> HRDashboardPage,
   AppraisalCycleDetailPage |-> AppraisalCycleDetailPage,
   AppraisalCyclesListPage  |-> AppraisalCyclesListPage,
   AppraisalDetailPage      |-> AppraisalDetailPage,
   ShiftsPanel              |-> ShiftsPanel,
   MyAttendancePanel        |-> MyAttendancePanel,
   TeamAttendancePanel      |-> TeamAttendancePanel,
   MyExpenseRequestsPanel   |-> MyExpenseRequestsPanel,
   TeamExpenseRequestsPanel |-> TeamExpenseRequestsPanel,
   ConsumptionPage          |-> ConsumptionPage,
   PurchasesPage            |-> PurchasesPage,
   InventoryItemsListPage   |-> InventoryItemsListPage,
   InventoryItemsTable      |-> InventoryItemsTable,
   InventoryItemDetailPage  |-> InventoryItemDetailPage,
   AvailableStock           |-> AvailableStock,
   Ledger                   |-> Ledger,
   WarehousesListPage       |-> WarehousesListPage,
   WarehouseDetailPage      |-> WarehouseDetailPage,
   InventoryDashboardPage   |-> InventoryDashboardPage,
   ReportsPage              |-> ReportsPage,
   AllAppointmentsPanel     |-> AllAppointmentsPanel,
   MyAppointmentsPanel      |-> MyAppointmentsPanel,
   BookPanel                |-> BookPanel,
   SchedulePanel            |-> SchedulePanel,
   AssetDetailPage          |-> AssetDetailPage,
   AssetsListPage           |-> AssetsListPage,
   MaintenanceDetailPage    |-> MaintenanceDetailPage,
   MaintenanceListPage      |-> MaintenanceListPage,
   SchedulesPage            |-> SchedulesPage,
   DocumentDetailPage       |-> DocumentDetailPage,
   DocumentsListPage        |-> DocumentsListPage,
   UsersTab                 |-> UsersTab,
   AccessRequestsPanel      |-> AccessRequestsPanel,
   AccessSettingsPanel      |-> AccessSettingsPanel,
   EmailSettingsPanel       |-> EmailSettingsPanel,
   ActivityPanel            |-> ActivityPanel,
   NotificationBell         |-> NotificationBell,
   OrganizationsListPage    |-> OrganizationsListPage,
   OrganizationDetailPage   |-> OrganizationDetailPage]

=============================================================================
