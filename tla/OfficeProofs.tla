------------------------------ MODULE OfficeProofs ------------------------------
(***************************************************************************)
(* Proofs about the modules of the offices, one part per module, for every *)
(* value of their constants.                                               *)
(***************************************************************************)
EXTENDS Accounting, Hse, Workflow, Appraisals, Attendance, Reminders, AppointmentSchedule,
        SetProofs

-----------------------------------------------------------------------------
(***************************************************************************)
(* The status workflows, for every set of clerks.  A clerk's move was      *)
(* legal on the row the clerk read; that the dates of the row tell its     *)
(* status follows where nobody has written since.                          *)
(***************************************************************************)

HasStatus(k, status) == status \in DOMAIN Transitions[k]

\* What the clerk is about to write is a status of the kind; money goes out only on a
\* decision; and a clerk who is not stale acts on the row as it is.
Remembers(c) ==
  desk[c] # Idle =>
    /\ HasStatus(kind, desk[c].to)
    /\ desk[c].to = "REIMBURSED" => desk[c].decided
    /\ c \notin stale => /\ row # NoRow
                         /\ desk[c].to \in Transitions[kind][row.status]
                         /\ desk[c].decided = row.decided

WorkflowInv ==
  /\ WorkflowTypeOK
  /\ row # NoRow => HasStatus(kind, row.status)
  /\ row.status \in {"APPROVED", "REJECTED"} => row.decided
  /\ RowsTellTheirStory
  /\ \A c \in Clerks : Remembers(c)

-----------------------------------------------------------------------------
\* Every move stays among the statuses of its kind; what is paid, refused or ended does
\* not move, and what is approved is paid next.
LEMMA MoveFacts ==
  ASSUME NEW k \in Kinds, NEW from, HasStatus(k, from), NEW to \in Transitions[k][from]
  PROVE  /\ HasStatus(k, to)
         /\ from \notin {"REIMBURSED", "REJECTED", "TERMINATED"}
         /\ (from = "APPROVED") = (to = "REIMBURSED")
  <1>1. CASE k = "project"
    BY <1>1 DEF HasStatus, Transitions, ProjectTransitions
  <1>2. CASE k = "expense"
    BY <1>2 DEF HasStatus, Transitions, ExpenseTransitions
  <1>3. CASE k = "employment"
    BY <1>3 DEF HasStatus, Transitions, EmploymentTransitions, Employments
  <1>. QED
    BY <1>1, <1>2, <1>3 DEF Kinds

LEMMA StatusesOfKinds ==
  /\ \A k \in Kinds : \A status : HasStatus(k, status) => status \in Statuses
  /\ \A k \in Kinds : /\ HasStatus(k, InitialStatus[k])
                      /\ InitialStatus[k] \in {"PLANNED", "PENDING", "ACTIVE"}
  /\ {"APPROVED", "REJECTED", "REIMBURSED", "TERMINATED"} \subseteq Statuses
  <1>1. \A k \in Kinds : \A status : HasStatus(k, status) => status \in Statuses
    BY DEF HasStatus, Statuses
  <1>2. ASSUME NEW k \in Kinds
        PROVE  /\ HasStatus(k, InitialStatus[k])
               /\ InitialStatus[k] \in {"PLANNED", "PENDING", "ACTIVE"}
    <2>1. CASE k = "project"
      BY <2>1 DEF HasStatus, Transitions, ProjectTransitions, InitialStatus
    <2>2. CASE k = "expense"
      BY <2>2 DEF HasStatus, Transitions, ExpenseTransitions, InitialStatus
    <2>3. CASE k = "employment"
      BY <2>3 DEF HasStatus, Transitions, EmploymentTransitions, Employments, InitialStatus
    <2>. QED
      BY <2>1, <2>2, <2>3 DEF Kinds
  <1>3. "expense" \in Kinds /\ "employment" \in Kinds
    BY DEF Kinds
  <1>4. /\ HasStatus("expense", "APPROVED") /\ HasStatus("expense", "REJECTED")
        /\ HasStatus("expense", "REIMBURSED")
    BY DEF HasStatus, Transitions, ExpenseTransitions
  <1>5. HasStatus("employment", "TERMINATED")
    BY DEF HasStatus, Transitions, EmploymentTransitions, Employments
  <1>. QED
    BY <1>1, <1>2, <1>3, <1>4, <1>5

\* A row nobody has decided, paid or ended.
LEMMA NothingYet ==
  ASSUME row.decided = FALSE, row.reimbursed = FALSE, row.exited = FALSE,
         row.status \notin {"APPROVED", "REJECTED", "REIMBURSED", "TERMINATED"}
  PROVE  RowsTellTheirStory
  <1>1. /\ (row.status = "REIMBURSED") = FALSE
        /\ (row.status \in {"APPROVED", "REJECTED", "REIMBURSED"}) = FALSE
        /\ (row.status = "TERMINATED") = FALSE
    OBVIOUS
  <1>. QED
    BY <1>1 DEF RowsTellTheirStory, ReimbursedWasDecided, DatesTellTheStatus

LEMMA WorkflowStarts == WorkflowInit => WorkflowInv
  <1>. SUFFICES ASSUME WorkflowInit PROVE WorkflowInv
    OBVIOUS
  <1>. USE DEF WorkflowInit
  <1>1. /\ row \in Row
        /\ milestone \in [status : MilestoneStatuses \cup {Null}, completed : BOOLEAN]
    BY DEF NoRow, Row
  <1>2. desk \in [Clerks -> [to : Statuses \cup {Null}, decided : BOOLEAN]]
    BY DEF Idle
  <1>3. WorkflowTypeOK
    BY <1>1, <1>2 DEF WorkflowTypeOK
  <1>4. /\ row.status \notin Statuses
        /\ row.decided = FALSE /\ row.reimbursed = FALSE /\ row.exited = FALSE
    BY WorkflowAssumption DEF NoRow
  <1>5. row.status \notin {"APPROVED", "REJECTED", "REIMBURSED", "TERMINATED"}
    BY <1>4, StatusesOfKinds
  <1>6. RowsTellTheirStory
    BY <1>4, <1>5, NothingYet
  <1>7. \A c \in Clerks : Remembers(c)
    BY DEF Remembers
  <1>. QED
    BY <1>3, <1>5, <1>6, <1>7 DEF WorkflowInv

LEMMA CreateRowKeeps ==
  ASSUME WorkflowInv, CreateRow
  PROVE  WorkflowInv'
  <1>. DEFINE status == InitialStatus[kind]
  <1>1. kind \in Kinds
    BY DEF WorkflowInv, WorkflowTypeOK
  <1>2. /\ HasStatus(kind, status) /\ status \in Statuses
        /\ status \in {"PLANNED", "PENDING", "ACTIVE"}
    BY <1>1, StatusesOfKinds
  <1>3. row = NoRow /\ row' = [NoRow EXCEPT !.status = status]
        /\ UNCHANGED <<kind, milestone, desk, stale, desksCrossed>>
    BY DEF CreateRow
  <1>. HIDE DEF status
  <1>4. row' \in Row
    BY <1>2, <1>3 DEF NoRow, Row
  <1>5. /\ row'.status = status
        /\ row'.decided = FALSE /\ row'.reimbursed = FALSE /\ row'.exited = FALSE
        /\ row'.status \notin {"APPROVED", "REJECTED", "REIMBURSED", "TERMINATED"}
    BY <1>2, <1>3 DEF NoRow
  <1>6. RowsTellTheirStory'
    <2>1. /\ (row'.status = "REIMBURSED") = FALSE
          /\ (row'.status \in {"APPROVED", "REJECTED", "REIMBURSED"}) = FALSE
          /\ (row'.status = "TERMINATED") = FALSE
      BY <1>5
    <2>. QED
      BY <1>5, <2>1 DEF RowsTellTheirStory, ReimbursedWasDecided, DatesTellTheStatus
  <1>7. WorkflowTypeOK'
    BY <1>3, <1>4 DEF WorkflowInv, WorkflowTypeOK
  <1>8. \A c \in Clerks : Remembers(c)'
    <2>. SUFFICES ASSUME NEW c \in Clerks, desk[c] # Idle PROVE Remembers(c)'
      BY <1>3 DEF Remembers
    <2>1. Remembers(c) /\ c \in stale
      BY <1>3 DEF WorkflowInv, Remembers
    <2>. QED
      BY <1>3, <2>1 DEF Remembers
  <1>. QED
    BY <1>2, <1>3, <1>5, <1>6, <1>7, <1>8 DEF WorkflowInv

\* Milestones follow no table and touch nothing else.
LEMMA MilestoneKeeps ==
  ASSUME WorkflowInv,
         \/ CreateMilestone
         \/ \E status \in MilestoneStatuses : UpdateMilestone(status)
  PROVE  WorkflowInv'
  <1>1. UNCHANGED <<kind, row, desk, stale, desksCrossed>>
    BY DEF CreateMilestone, UpdateMilestone
  <1>2. milestone' \in [status : MilestoneStatuses \cup {Null}, completed : BOOLEAN]
    <2>1. CASE CreateMilestone
      BY <2>1 DEF CreateMilestone, MilestoneStatuses
    <2>2. ASSUME NEW status \in MilestoneStatuses, UpdateMilestone(status)
          PROVE  milestone' \in [status : MilestoneStatuses \cup {Null}, completed : BOOLEAN]
      <3>1. milestone' = [status |-> status, completed |-> status = "COMPLETED"]
        BY <2>2 DEF UpdateMilestone
      <3>2. PICK completed \in BOOLEAN : completed = (status = "COMPLETED")
        OBVIOUS
      <3>. QED
        BY <3>1, <3>2
    <2>. QED
      BY <2>1, <2>2
  <1>. QED
    BY <1>1, <1>2 DEF WorkflowInv, WorkflowTypeOK, RowsTellTheirStory, ReimbursedWasDecided,
       DatesTellTheStatus, Remembers

LEMMA RequestStatusKeeps ==
  ASSUME WorkflowInv, NEW c \in Clerks, NEW to \in Statuses, RequestStatus(c, to)
  PROVE  WorkflowInv'
  <1>. DEFINE next == [to |-> to, decided |-> row.decided]
  <1>1. /\ row # NoRow /\ to \in Transitions[kind][row.status]
        /\ desk' = [desk EXCEPT ![c] = next]
        /\ UNCHANGED <<kind, row, milestone, stale, desksCrossed>>
    BY DEF RequestStatus
  <1>2. kind \in Kinds /\ row \in Row /\ HasStatus(kind, row.status)
    BY <1>1 DEF WorkflowInv, WorkflowTypeOK
  <1>3. HasStatus(kind, to) /\ (row.status = "APPROVED") = (to = "REIMBURSED")
    BY <1>1, <1>2, MoveFacts
  <1>4. row.decided \in BOOLEAN
    BY <1>2 DEF Row
  <1>5. /\ next \in [to : Statuses \cup {Null}, decided : BOOLEAN]
        /\ next.to = to /\ next.decided = row.decided
    BY <1>4
  <1>. HIDE DEF next
  <1>6. WorkflowTypeOK'
    BY <1>1, <1>5 DEF WorkflowInv, WorkflowTypeOK
  <1>7. \A d \in Clerks : desk'[d] = IF d = c THEN next ELSE desk[d]
    BY <1>1 DEF WorkflowInv, WorkflowTypeOK
  <1>8. to = "REIMBURSED" => row.decided
    BY <1>3 DEF WorkflowInv
  <1>9. ASSUME NEW d \in Clerks PROVE Remembers(d)'
    <2>1. CASE d = c
      BY <1>1, <1>3, <1>5, <1>7, <1>8, <2>1 DEF Remembers
    <2>2. CASE d # c
      BY <1>1, <1>7, <2>2 DEF Remembers, WorkflowInv
    <2>. QED
      BY <2>1, <2>2
  <1>10. RowsTellTheirStory'
    BY <1>1 DEF WorkflowInv, RowsTellTheirStory, ReimbursedWasDecided, DatesTellTheStatus
  <1>. QED
    BY <1>1, <1>6, <1>9, <1>10 DEF WorkflowInv

\* A clerk who is not stale makes a legal move; a stale one is what excuses the dates,
\* yet pays only for what was decided.
LEMMA WriteStatusKeeps ==
  ASSUME WorkflowInv, NEW c \in Clerks, WriteStatus(c)
  PROVE  WorkflowInv'
  <1>. DEFINE to == desk[c].to
              decided == to \in {"APPROVED", "REJECTED"} \/ desk[c].decided
              reimbursed == to = "REIMBURSED" \/ row.reimbursed
              exited == to = "TERMINATED" \/ row.exited
              next == [status |-> to, decided |-> decided,
                       reimbursed |-> reimbursed, exited |-> exited]
  <1>1. /\ desk[c] # Idle /\ row' = next
        /\ desk' = [desk EXCEPT ![c] = Idle]
        /\ stale' = {d \in Clerks \ {c} : desk[d] # Idle}
        /\ desksCrossed' = (desksCrossed \/ c \in stale)
        /\ UNCHANGED <<kind, milestone>>
    BY DEF WriteStatus
  <1>2. /\ kind \in Kinds /\ row \in Row /\ desksCrossed \in BOOLEAN
        /\ desk \in [Clerks -> [to : Statuses \cup {Null}, decided : BOOLEAN]]
    BY DEF WorkflowInv, WorkflowTypeOK
  <1>3. /\ HasStatus(kind, to)
        /\ to = "REIMBURSED" => desk[c].decided
        /\ c \notin stale => /\ row # NoRow
                             /\ to \in Transitions[kind][row.status]
                             /\ desk[c].decided = row.decided
    BY <1>1 DEF WorkflowInv, Remembers
  <1>4. /\ desk[c].decided \in BOOLEAN
        /\ row.decided \in BOOLEAN /\ row.reimbursed \in BOOLEAN /\ row.exited \in BOOLEAN
    BY <1>2 DEF Row
  <1>5. to \in Statuses
    BY <1>2, <1>3, StatusesOfKinds
  <1>. HIDE DEF to
  <1>6. decided \in BOOLEAN /\ reimbursed \in BOOLEAN /\ exited \in BOOLEAN
    BY <1>4
  <1>7. /\ to \in {"APPROVED", "REJECTED"} => decided
        /\ to = "REIMBURSED" => decided
    BY <1>3
  <1>8. ASSUME ~desksCrossed'
        PROVE  /\ reimbursed = (to = "REIMBURSED")
               /\ decided = (to \in {"APPROVED", "REJECTED", "REIMBURSED"})
               /\ exited = (to = "TERMINATED")
    <2>1. ~desksCrossed /\ c \notin stale
      BY <1>1, <1>2, <1>8
    <2>2. HasStatus(kind, row.status) /\ to \in Transitions[kind][row.status]
      BY <1>3, <2>1 DEF WorkflowInv
    <2>3. /\ row.status \notin {"REIMBURSED", "REJECTED", "TERMINATED"}
          /\ (row.status = "APPROVED") = (to = "REIMBURSED")
      BY <1>2, <2>2, MoveFacts
    <2>4. /\ row.reimbursed = (row.status = "REIMBURSED")
          /\ row.decided = (row.status \in {"APPROVED", "REJECTED", "REIMBURSED"})
          /\ row.exited = (row.status = "TERMINATED")
      BY <2>1 DEF WorkflowInv, RowsTellTheirStory, DatesTellTheStatus
    <2>5. desk[c].decided = row.decided
      BY <1>3, <2>1
    <2>6. row.reimbursed = FALSE /\ row.exited = FALSE
      BY <2>3, <2>4
    <2>7. row.decided = TRUE <=> to = "REIMBURSED"
      BY <2>3, <2>4
    <2>8. reimbursed = (to = "REIMBURSED") /\ exited = (to = "TERMINATED")
      BY <2>6
    <2>9. CASE to = "REIMBURSED"
      BY <2>5, <2>7, <2>8, <2>9
    <2>10. CASE to # "REIMBURSED"
      <3>1. desk[c].decided = FALSE
        BY <1>4, <2>5, <2>7, <2>10
      <3>. QED
        BY <2>8, <2>10, <3>1
    <2>. QED
      BY <2>9, <2>10
  <1>. HIDE DEF decided, reimbursed, exited
  <1>9. /\ next \in Row /\ next.status = to /\ next.decided = decided
        /\ next.reimbursed = reimbursed /\ next.exited = exited
    BY <1>5, <1>6 DEF Row
  <1>. HIDE DEF next
  <1>10. RowsTellTheirStory'
    BY <1>1, <1>7, <1>8, <1>9
       DEF RowsTellTheirStory, ReimbursedWasDecided, DatesTellTheStatus
  <1>11. WorkflowTypeOK'
    <2>1. Idle \in [to : Statuses \cup {Null}, decided : BOOLEAN]
      BY DEF Idle
    <2>. QED
      BY <1>1, <1>2, <1>9, <2>1 DEF WorkflowInv, WorkflowTypeOK
  <1>12. ASSUME NEW d \in Clerks PROVE Remembers(d)'
    <2>1. CASE d = c
      BY <1>1, <1>2, <2>1 DEF Remembers
    <2>2. CASE d # c
      BY <1>1, <1>2, <2>2 DEF Remembers, WorkflowInv
    <2>. QED
      BY <2>1, <2>2
  <1>. QED
    BY <1>1, <1>3, <1>7, <1>9, <1>10, <1>11, <1>12 DEF WorkflowInv

LEMMA DropStatusKeeps ==
  ASSUME WorkflowInv, NEW c \in Clerks, DropStatus(c)
  PROVE  WorkflowInv'
  <1>1. /\ desk' = [desk EXCEPT ![c] = Idle] /\ stale' = stale \ {c}
        /\ UNCHANGED <<kind, row, milestone, desksCrossed>>
    BY DEF DropStatus
  <1>2. /\ desk \in [Clerks -> [to : Statuses \cup {Null}, decided : BOOLEAN]]
        /\ Idle \in [to : Statuses \cup {Null}, decided : BOOLEAN]
    BY DEF WorkflowInv, WorkflowTypeOK, Idle
  <1>3. WorkflowTypeOK'
    BY <1>1, <1>2 DEF WorkflowInv, WorkflowTypeOK
  <1>4. ASSUME NEW d \in Clerks PROVE Remembers(d)'
    <2>1. CASE d = c
      BY <1>1, <1>2, <2>1 DEF Remembers
    <2>2. CASE d # c
      BY <1>1, <1>2, <2>2 DEF Remembers, WorkflowInv
    <2>. QED
      BY <2>1, <2>2
  <1>5. RowsTellTheirStory'
    BY <1>1 DEF WorkflowInv, RowsTellTheirStory, ReimbursedWasDecided, DatesTellTheStatus
  <1>. QED
    BY <1>1, <1>3, <1>4, <1>5 DEF WorkflowInv

LEMMA WorkflowStep == WorkflowInv /\ [WorkflowNext]_workflowVars => WorkflowInv'
  <1>. SUFFICES ASSUME WorkflowInv, [WorkflowNext]_workflowVars PROVE WorkflowInv'
    OBVIOUS
  <1>1. ASSUME CreateRow PROVE WorkflowInv'
    BY <1>1, CreateRowKeeps
  <1>2. ASSUME CreateMilestone \/ \E status \in MilestoneStatuses : UpdateMilestone(status)
        PROVE  WorkflowInv'
    BY <1>2, MilestoneKeeps
  <1>3. ASSUME NEW c \in Clerks, NEW to \in Statuses, RequestStatus(c, to) PROVE WorkflowInv'
    BY <1>3, RequestStatusKeeps
  <1>4. ASSUME NEW c \in Clerks, WriteStatus(c) PROVE WorkflowInv'
    BY <1>4, WriteStatusKeeps
  <1>5. ASSUME NEW c \in Clerks, DropStatus(c) PROVE WorkflowInv'
    BY <1>5, DropStatusKeeps
  <1>6. CASE UNCHANGED workflowVars
    BY <1>6 DEF workflowVars, WorkflowInv, WorkflowTypeOK, RowsTellTheirStory,
       ReimbursedWasDecided, DatesTellTheStatus, Remembers
  <1>. QED
    BY <1>1, <1>2, <1>3, <1>4, <1>5, <1>6 DEF WorkflowNext

-----------------------------------------------------------------------------
\* What clerks have read of a row, and what they may still write of it
\* (projects.service.ts, expense-requests.service.ts, employees.service.ts: updateStatus).
THEOREM WorkflowInvariant == WorkflowSpec => []WorkflowInv
  BY WorkflowStarts, WorkflowStep, PTL DEF WorkflowSpec

\* Money goes out only for what somebody has decided, and until a stale write the dates
\* on a row tell its status (expense-requests.service.ts:81-102).
THEOREM StoriesAreTrue == WorkflowSpec => []RowsTellTheirStory
  <1>1. WorkflowInv => RowsTellTheirStory
    BY DEF WorkflowInv
  <1>. QED
    BY <1>1, WorkflowInvariant, PTL

-----------------------------------------------------------------------------
(***************************************************************************)
(* Payments settle an invoice, for every set of cashiers and amounts: the  *)
(* inductive invariant is what a payment under way remembers of the invoice *)
(* it was read from.                                                       *)
(***************************************************************************)

Even(n) == \E k \in Nat : n = 2 * k

\* Payments only grow, so what remained when a cashier read the invoice is no less
\* than what remains; it is exactly that as long as nobody overlaps.
Remembered(c) ==
  till[c].pc = "payment" =>
    /\ invoice # Null
    /\ till[c].amount <= till[c].remaining
    /\ total - paid <= till[c].remaining
    /\ ~tillsCrossed => till[c].remaining = total - paid

\* No transition leads to PAID.
MovesOnly(c) ==
  till[c].pc = "status" => invoice # Null /\ till[c].to \in InvoiceStatuses \ {"PAID"}

AccountingInv ==
  /\ AccountingTypeOK
  /\ Even(total) /\ Even(paid)
  /\ invoice = Null => paid = 0
  /\ \A c \in Cashiers : Remembered(c) /\ MovesOnly(c)
  /\ ~tillsCrossed => \A c, d \in Cashiers : till[c] # NoReceipt /\ till[d] # NoReceipt => c = d
  /\ ~tillsCrossed => paid <= total
  /\ PaidIsCovered

-----------------------------------------------------------------------------
\* Rounding to cents: never less, always even, and within an even limit.
LEMMA CentsFacts ==
  ASSUME NEW a \in Nat
  PROVE  /\ Cents(a) \in Nat
         /\ Cents(a) >= a
         /\ Even(Cents(a))
         /\ \A r \in Nat : Even(r) /\ a <= r => Cents(a) <= r
  <1>. DEFINE h == (a + 1) \div 2
  <1>1. h \in Nat /\ a <= 2 * h /\ 2 * h <= a + 1
    OBVIOUS
  <1>2. Cents(a) = 2 * h
    BY DEF Cents
  <1>. HIDE DEF h
  <1>3. Even(Cents(a))
    BY <1>1, <1>2 DEF Even
  <1>4. ASSUME NEW r \in Nat, Even(r), a <= r
        PROVE  Cents(a) <= r
    <2>1. PICK k \in Nat : r = 2 * k
      BY <1>4 DEF Even
    <2>. QED
      BY <2>1, <1>1, <1>2, <1>4
  <1>. QED
    BY <1>1, <1>2, <1>3, <1>4

LEMMA EvenSum ==
  ASSUME NEW a \in Nat, NEW b \in Nat, Even(a), Even(b)
  PROVE  Even(a + b)
  <1>1. PICK k \in Nat : a = 2 * k
    BY DEF Even
  <1>2. PICK l \in Nat : b = 2 * l
    BY DEF Even
  <1>3. a + b = 2 * (k + l) /\ k + l \in Nat
    BY <1>1, <1>2
  <1>. QED
    BY <1>3 DEF Even

LEMMA EvenDifference ==
  ASSUME NEW a \in Nat, NEW b \in Nat, Even(a), Even(b), b <= a
  PROVE  a - b \in Nat /\ Even(a - b)
  <1>1. PICK k \in Nat : a = 2 * k
    BY DEF Even
  <1>2. PICK l \in Nat : b = 2 * l
    BY DEF Even
  <1>3. k - l \in Nat
    BY <1>1, <1>2
  <1>. QED
    BY <1>1, <1>2, <1>3 DEF Even

-----------------------------------------------------------------------------
LEMMA StatusFacts ==
  /\ InvoiceStatuses = {"DRAFT", "APPROVED", "PAID", "VOID"}
  /\ Null \notin InvoiceStatuses
  /\ \A from \in InvoiceStatuses : ALLOWED_TRANSITIONS[from] \subseteq {"APPROVED", "VOID"}
  BY InvoiceAssumption DEF InvoiceStatuses, ALLOWED_TRANSITIONS

LEMMA ReceiptFacts ==
  /\ NoReceipt \in Receipt
  /\ \A status \in InvoiceStatuses : [NoReceipt EXCEPT !.pc = "status", !.to = status] \in Receipt
  /\ \A a, r \in Nat : [NoReceipt EXCEPT !.pc = "payment", !.amount = a, !.remaining = r] \in Receipt
  BY DEF Receipt, NoReceipt

\* A cashier who takes up a request overlaps with whoever is serving one.
LEMMA ServeKeeps ==
  ASSUME AccountingInv,
         NEW c \in Cashiers, NEW receipt \in Receipt,
         receipt # NoReceipt,
         Serve(c, receipt),
         Remembered(c)', MovesOnly(c)'
  PROVE  AccountingInv'
  <1>. USE DEF AccountingInv, AccountingTypeOK, Serve
  <1>1. AccountingTypeOK'
    OBVIOUS
  <1>2. ASSUME NEW d \in Cashiers
        PROVE  Remembered(d)' /\ MovesOnly(d)'
    <2>1. CASE d = c
      BY <2>1
    <2>2. CASE d # c
      <3>1. till'[d] = till[d] /\ (~tillsCrossed' => ~tillsCrossed)
        BY <2>2
      <3>. QED
        BY <3>1 DEF Remembered, MovesOnly
    <2>. QED
      BY <2>1, <2>2
  <1>3. ASSUME ~tillsCrossed', NEW d \in Cashiers, NEW e \in Cashiers,
               till'[d] # NoReceipt, till'[e] # NoReceipt
        PROVE  d = e
    <2>1. \A f \in Cashiers \ {c} : till'[f] = NoReceipt
      BY <1>3
    <2>. QED
      BY <1>3, <2>1
  <1>4. PaidIsCovered' /\ (~tillsCrossed' => paid' <= total')
    BY DEF PaidIsCovered
  <1>5. (Even(total) /\ Even(paid) /\ (invoice = Null => paid = 0))'
    BY DEF Even
  <1>. QED
    BY <1>1, <1>2, <1>3, <1>4, <1>5

\* A cashier who is done leaves what the others remember to be checked.
LEMMA ServedKeeps ==
  ASSUME AccountingInv,
         NEW c \in Cashiers,
         Served(c),
         invoice' \in InvoiceStatuses \cup {Null}, paid' \in Nat,
         invoice # Null => invoice' # Null,
         invoice' = Null => paid' = 0,
         Even(paid'), PaidIsCovered',
         ~tillsCrossed => paid' <= total,
         paid' >= paid,
         \A d \in Cashiers \ {c} : ~tillsCrossed /\ till[d] # NoReceipt => paid' = paid
  PROVE  AccountingInv'
  <1>. USE DEF AccountingInv, AccountingTypeOK, Served
  <1>1. AccountingTypeOK'
    BY ReceiptFacts
  <1>2. ASSUME NEW d \in Cashiers
        PROVE  Remembered(d)' /\ MovesOnly(d)'
    <2>1. CASE d = c
      BY <2>1 DEF Remembered, MovesOnly, NoReceipt
    <2>2. CASE d # c
      <3>1. till'[d] = till[d] /\ total' = total /\ tillsCrossed' = tillsCrossed
        BY <2>2
      <3>2. till[d].pc = "payment" => till[d] # NoReceipt
        BY DEF NoReceipt
      <3>3. till[d] \in Receipt
        OBVIOUS
      <3>4. till[d].remaining \in Nat
        BY <3>3 DEF Receipt
      <3>5. Remembered(d) /\ MovesOnly(d)
        OBVIOUS
      <3>6. MovesOnly(d)'
        BY <3>1, <3>5 DEF MovesOnly
      <3>7. ASSUME till[d].pc = "payment"
            PROVE  /\ invoice' # Null
                   /\ till[d].amount <= till[d].remaining
                   /\ total - paid' <= till[d].remaining
                   /\ ~tillsCrossed => till[d].remaining = total - paid'
        BY <2>2, <3>2, <3>4, <3>5, <3>7 DEF Remembered
      <3>. QED
        BY <3>1, <3>6, <3>7 DEF Remembered
    <2>. QED
      BY <2>1, <2>2
  <1>3. ~tillsCrossed' =>
          \A d, e \in Cashiers : till'[d] # NoReceipt /\ till'[e] # NoReceipt => d = e
    OBVIOUS
  <1>4. (Even(total) /\ Even(paid) /\ (invoice = Null => paid = 0))'
    BY DEF Even
  <1>. QED
    BY <1>1, <1>2, <1>3, <1>4

-----------------------------------------------------------------------------
LEMMA AccountingStarts == AccountingInit => AccountingInv
  <1>. SUFFICES ASSUME AccountingInit PROVE AccountingInv
    OBVIOUS
  <1>1. AccountingTypeOK
    BY ReceiptFacts DEF AccountingInit, AccountingTypeOK
  <1>2. Even(0)
    BY DEF Even
  <1>3. \A c \in Cashiers : till[c] = NoReceipt
    BY DEF AccountingInit
  <1>4. \A c \in Cashiers : Remembered(c) /\ MovesOnly(c)
    BY <1>3 DEF Remembered, MovesOnly, NoReceipt
  <1>5. PaidIsCovered
    BY DEF AccountingInit, PaidIsCovered
  <1>. QED
    BY <1>1, <1>2, <1>3, <1>4, <1>5 DEF AccountingInit, AccountingInv

LEMMA CreateInvoiceKeeps ==
  ASSUME AccountingInv, NEW sum \in Amounts, CreateInvoice(sum)
  PROVE  AccountingInv'
  <1>. USE DEF AccountingInv, AccountingTypeOK, CreateInvoice
  <1>1. Cents(sum) \in Nat /\ Even(Cents(sum))
    BY CentsFacts, AccountingAssumption
  <1>2. AccountingTypeOK'
    BY <1>1, StatusFacts
  <1>4. \A c \in Cashiers : till[c].pc \notin {"payment", "status"}
    BY DEF Remembered, MovesOnly
  <1>5. \A c \in Cashiers : Remembered(c)' /\ MovesOnly(c)'
    BY <1>4 DEF Remembered, MovesOnly
  <1>6. PaidIsCovered' /\ paid' = 0 /\ paid' <= total'
    BY <1>1 DEF PaidIsCovered
  <1>7. Even(total)' /\ Even(paid)'
    BY <1>1 DEF Even
  <1>. QED
    BY <1>2, <1>5, <1>6, <1>7

LEMMA UpdateStatusKeeps ==
  ASSUME AccountingInv, NEW c \in Cashiers, NEW status \in InvoiceStatuses,
         UpdateStatus(c, status)
  PROVE  AccountingInv'
  <1>. DEFINE receipt == [NoReceipt EXCEPT !.pc = "status", !.to = status]
  <1>1. Serve(c, receipt) /\ invoice # Null /\ status \in ALLOWED_TRANSITIONS[invoice]
    BY DEF UpdateStatus
  <1>2. receipt \in Receipt /\ receipt # NoReceipt /\ receipt.pc = "status" /\ receipt.to = status
    BY ReceiptFacts DEF NoReceipt
  <1>3. status # "PAID"
    BY <1>1, StatusFacts DEF AccountingInv, AccountingTypeOK
  <1>. HIDE DEF receipt
  <1>4. till'[c] = receipt /\ invoice' = invoice
    BY <1>1 DEF Serve, AccountingInv, AccountingTypeOK
  <1>5. Remembered(c)' /\ MovesOnly(c)'
    BY <1>1, <1>2, <1>3, <1>4 DEF Remembered, MovesOnly
  <1>. QED
    BY <1>1, <1>2, <1>5, ServeKeeps

LEMMA WriteInvoiceKeeps ==
  ASSUME AccountingInv, NEW c \in Cashiers, WriteInvoice(c)
  PROVE  AccountingInv'
  <1>1. Served(c) /\ paid' = paid /\ invoice' = till[c].to /\ till[c].pc = "status"
    BY DEF WriteInvoice
  <1>2. till[c] \in Receipt
    BY DEF AccountingInv, AccountingTypeOK
  <1>3. till[c].to \in InvoiceStatuses
    BY <1>1, <1>2 DEF AccountingInv, MovesOnly
  <1>4. invoice # Null /\ invoice' # Null /\ PaidIsCovered'
    BY <1>1, <1>3, StatusFacts DEF AccountingInv, MovesOnly, PaidIsCovered
  <1>5. /\ invoice' \in InvoiceStatuses \cup {Null}
        /\ Even(paid') /\ paid' \in Nat /\ paid' >= paid
        /\ ~tillsCrossed => paid' <= total
    BY <1>1, <1>3 DEF AccountingInv, AccountingTypeOK
  <1>. QED
    BY <1>1, <1>4, <1>5, ServedKeeps

LEMMA RecordPaymentKeeps ==
  ASSUME AccountingInv, NEW c \in Cashiers, NEW amount \in Amounts,
         RecordPayment(c, amount)
  PROVE  AccountingInv'
  <1>. DEFINE receipt ==
         [NoReceipt EXCEPT !.pc = "payment", !.amount = amount, !.remaining = total - paid]
  <1>1. /\ Serve(c, receipt) /\ invoice = "APPROVED"
        /\ amount \in Nat /\ total - paid \in Nat /\ amount <= total - paid
    BY AccountingAssumption DEF RecordPayment, AccountingInv, AccountingTypeOK
  <1>2. /\ receipt \in Receipt /\ receipt # NoReceipt /\ receipt.pc = "payment"
        /\ receipt.amount = amount /\ receipt.remaining = total - paid
    BY <1>1, ReceiptFacts DEF NoReceipt
  <1>. HIDE DEF receipt
  <1>3. till'[c] = receipt /\ invoice' = invoice /\ total' = total /\ paid' = paid
    BY <1>1 DEF Serve, AccountingInv, AccountingTypeOK
  <1>4. invoice # Null
    BY <1>1, StatusFacts
  <1>5. Remembered(c)' /\ MovesOnly(c)'
    BY <1>1, <1>2, <1>3, <1>4 DEF Remembered, MovesOnly
  <1>. QED
    BY <1>1, <1>2, <1>5, ServeKeeps

\* What is rounded up to cents still fits what remained, which is whole cents; and
\* the payment that was all that remained covers what remains now.
LEMMA CommitPaymentKeeps ==
  ASSUME AccountingInv, NEW c \in Cashiers, CommitPayment(c)
  PROVE  AccountingInv'
  <1>. DEFINE amount == till[c].amount
              remaining == till[c].remaining
              cents == Cents(amount)
  <1>1. /\ Served(c) /\ till[c].pc = "payment" /\ paid' = paid + cents
        /\ invoice' = IF amount = remaining THEN "PAID" ELSE invoice
    BY DEF CommitPayment
  <1>2. till[c] \in Receipt
    BY DEF AccountingInv, AccountingTypeOK
  <1>3. amount \in Nat /\ remaining \in Nat
    BY <1>2 DEF Receipt
  <1>4. /\ invoice # Null /\ amount <= remaining /\ total - paid <= remaining
        /\ ~tillsCrossed => remaining = total - paid
    BY <1>1 DEF AccountingInv, Remembered
  <1>5. total \in Nat /\ paid \in Nat /\ Even(total) /\ Even(paid)
    BY DEF AccountingInv, AccountingTypeOK
  <1>. HIDE DEF amount, remaining
  <1>6. /\ cents \in Nat /\ cents >= amount /\ Even(cents)
        /\ \A r \in Nat : Even(r) /\ amount <= r => cents <= r
    BY <1>3, CentsFacts
  <1>. HIDE DEF cents
  <1>7. ~tillsCrossed => paid' <= total
    <2>. SUFFICES ASSUME ~tillsCrossed PROVE paid' <= total
      OBVIOUS
    <2>1. remaining = total - paid /\ paid <= total
      BY <1>3, <1>4, <1>5
    <2>2. Even(total - paid)
      BY <2>1, <1>5, EvenDifference
    <2>3. cents <= remaining
      BY <2>1, <2>2, <1>3, <1>4, <1>6
    <2>. QED
      BY <2>1, <2>3, <1>1, <1>5, <1>6
  <1>8. Even(paid') /\ paid' \in Nat /\ paid' >= paid
    BY <1>1, <1>5, <1>6, EvenSum
  <1>9. PaidIsCovered'
    <2>1. total' = total
      BY <1>1 DEF Served
    <2>2. CASE amount = remaining
      BY <2>1, <2>2, <1>1, <1>3, <1>4, <1>5, <1>6 DEF PaidIsCovered
    <2>3. CASE amount # remaining
      BY <2>1, <2>3, <1>1, <1>5, <1>8 DEF PaidIsCovered, AccountingInv
    <2>. QED
      BY <2>2, <2>3
  <1>10. /\ invoice' \in InvoiceStatuses \cup {Null}
         /\ invoice' # Null
    BY <1>1, <1>4, StatusFacts DEF AccountingInv, AccountingTypeOK
  <1>11. \A d \in Cashiers \ {c} : ~tillsCrossed /\ till[d] # NoReceipt => paid' = paid
    BY <1>1 DEF AccountingInv, NoReceipt
  <1>. QED
    BY <1>1, <1>4, <1>7, <1>8, <1>9, <1>10, <1>11, ServedKeeps

LEMMA DropPaymentKeeps ==
  ASSUME AccountingInv, NEW c \in Cashiers, DropPayment(c)
  PROVE  AccountingInv'
  <1>1. Served(c) /\ invoice' = invoice /\ paid' = paid /\ total' = total
    BY DEF DropPayment, Served
  <1>2. PaidIsCovered'
    BY <1>1 DEF AccountingInv, PaidIsCovered
  <1>. QED
    BY <1>1, <1>2, ServedKeeps DEF AccountingInv, AccountingTypeOK

LEMMA AccountingStep ==
  AccountingInv /\ [AccountingNext]_accountingVars => AccountingInv'
  <1>. SUFFICES ASSUME AccountingInv, [AccountingNext]_accountingVars PROVE AccountingInv'
    OBVIOUS
  <1>1. ASSUME NEW sum \in Amounts, CreateInvoice(sum) PROVE AccountingInv'
    BY <1>1, CreateInvoiceKeeps
  <1>2. ASSUME NEW c \in Cashiers, NEW status \in InvoiceStatuses, UpdateStatus(c, status)
        PROVE  AccountingInv'
    BY <1>2, UpdateStatusKeeps
  <1>3. ASSUME NEW c \in Cashiers, WriteInvoice(c) PROVE AccountingInv'
    BY <1>3, WriteInvoiceKeeps
  <1>4. ASSUME NEW c \in Cashiers, NEW amount \in Amounts, RecordPayment(c, amount)
        PROVE  AccountingInv'
    BY <1>4, RecordPaymentKeeps
  <1>5. ASSUME NEW c \in Cashiers, CommitPayment(c) PROVE AccountingInv'
    BY <1>5, CommitPaymentKeeps
  <1>6. ASSUME NEW c \in Cashiers, DropPayment(c) PROVE AccountingInv'
    BY <1>6, DropPaymentKeeps
  <1>7. CASE UNCHANGED accountingVars
    BY <1>7 DEF accountingVars, AccountingInv, AccountingTypeOK, Remembered, MovesOnly,
       PaidIsCovered, Even
  <1>. QED
    BY <1>1, <1>2, <1>3, <1>4, <1>5, <1>6, <1>7 DEF AccountingNext

-----------------------------------------------------------------------------
\* What is on the tills agrees with the invoice at all times (accounting.service.ts:
\* the whole of AccountingService's writes).
THEOREM AccountingInvariant == AccountingSpec => []AccountingInv
  BY AccountingStarts, AccountingStep, PTL DEF AccountingSpec

\* The types of all the state, for every set of cashiers and amounts.
THEOREM AccountingTypeCorrect == AccountingSpec => []AccountingTypeOK
  <1>1. AccountingInv => AccountingTypeOK
    BY DEF AccountingInv
  <1>. QED
    BY <1>1, AccountingInvariant, PTL

\* A PAID invoice is covered by its payments however recordPayment and updateStatus
\* overlap, and it is overpaid only when they do (accounting.service.ts:124-174).
THEOREM PaymentsAlwaysSettle == AccountingSpec => []PaymentsSettle
  <1>1. AccountingInv => PaymentsSettle
    BY DEF AccountingInv, AccountingTypeOK, PaymentsSettle, OverpaidByOverlapOnly
  <1>. QED
    BY <1>1, AccountingInvariant, PTL

-----------------------------------------------------------------------------
(***************************************************************************)
(* One reminder a day, for every number of servers and days: a server that *)
(* gathers or mails has won the claim of today, and nobody has mailed yet. *)
(***************************************************************************)

\* The server holds the claim of today and has not mailed yet.
Holds(s) == run[s].pc \in {"gather", "mail"}

\* A server that is about to claim has read the date of an earlier day.
Waits(s) == run[s].pc = "claim" => run[s].seen # day

RemindersInv ==
  /\ RemindersTypeOK
  /\ last <= day
  /\ \A d \in 1..LastDay : d > day => sent[d] = 0
  /\ last # day => sent[day] = 0
  /\ \A s \in Servers : Waits(s)
  /\ \A s \in Servers : Holds(s) => last = day /\ sent[day] = 0
  /\ \A s, t \in Servers : Holds(s) /\ Holds(t) => s = t
  /\ RemindedOncePerDay

\* One server moves to a place where it holds no claim, and the rest stays.
LEMMA LetGo ==
  ASSUME RemindersInv,
         NEW s \in Servers,
         NEW next \in [pc : {"idle", "awake", "claim"}, seen : 0..LastDay],
         run' = [run EXCEPT ![s] = next],
         next.pc = "claim" => next.seen # day,
         UNCHANGED <<day, hour, last, enabled, waiting, sent>>
  PROVE  RemindersInv'
  <1>. USE DEF RemindersInv, RemindersTypeOK
  <1>1. next \in [pc : {"idle", "awake", "claim", "gather", "mail"}, seen : 0..LastDay]
    OBVIOUS
  <1>2. RemindersTypeOK'
    BY <1>1
  <1>3. \A t \in Servers : run'[t] = IF t = s THEN next ELSE run[t]
    OBVIOUS
  <1>4. next.pc \notin {"gather", "mail"}
    OBVIOUS
  <1>5. \A t \in Servers : Holds(t)' => Holds(t) /\ t # s
    BY <1>3, <1>4 DEF Holds
  <1>6. \A t \in Servers : Waits(t)'
    BY <1>3 DEF Waits
  <1>7. RemindedOncePerDay'
    BY DEF RemindedOncePerDay
  <1>. HIDE DEF RemindersTypeOK
  <1>. QED
    BY <1>2, <1>5, <1>6, <1>7

LEMMA NoRunFacts ==
  /\ NoRun \in [pc : {"idle", "awake", "claim"}, seen : 0..LastDay]
  /\ NoRun.pc = "idle"
  BY RemindersAssumption DEF NoRun

LEMMA StopKeeps ==
  ASSUME RemindersInv, NEW s \in Servers, Stop(s),
         UNCHANGED <<day, hour, last, enabled, waiting, sent>>
  PROVE  RemindersInv'
  BY NoRunFacts, LetGo DEF Stop

-----------------------------------------------------------------------------
LEMMA RemindersStart == RemindersInit => RemindersInv
  <1>. SUFFICES ASSUME RemindersInit PROVE RemindersInv
    OBVIOUS
  <1>. USE RemindersAssumption DEF RemindersInit
  <1>1. NoRun \in [pc : {"idle", "awake", "claim", "gather", "mail"}, seen : 0..LastDay]
    BY DEF NoRun
  <1>2. RemindersTypeOK
    <2>1. day \in 1..LastDay /\ last \in 0..LastDay
      OBVIOUS
    <2>2. run \in [Servers -> [pc : {"idle", "awake", "claim", "gather", "mail"},
                              seen : 0..LastDay]]
      BY <1>1
    <2>3. sent \in [1..LastDay -> Nat]
      OBVIOUS
    <2>4. hour \in BOOLEAN /\ enabled \in BOOLEAN /\ waiting \in BOOLEAN
      OBVIOUS
    <2>. QED
      BY <2>1, <2>2, <2>3, <2>4 DEF RemindersTypeOK
  <1>3. \A s \in Servers : Waits(s) /\ ~Holds(s)
    BY NoRunFacts DEF Waits, Holds
  <1>4. RemindedOncePerDay /\ last <= day /\ sent[day] = 0
    BY DEF RemindedOncePerDay
  <1>5. \A d \in 1..LastDay : sent[d] = 0
    OBVIOUS
  <1>. QED
    BY <1>2, <1>3, <1>4, <1>5 DEF RemindersInv

\* The hour, the queue and the switch say nothing of who has claimed the day.
LEMMA AroundKeeps ==
  ASSUME RemindersInv, HourPasses \/ WaitingChanges \/ SetEmailEnabled
  PROVE  RemindersInv'
  <1>1. UNCHANGED <<day, last, run, sent>>
    BY DEF HourPasses, WaitingChanges, SetEmailEnabled
  <1>2. hour' \in BOOLEAN /\ enabled' \in BOOLEAN /\ waiting' \in BOOLEAN
    BY DEF HourPasses, WaitingChanges, SetEmailEnabled, RemindersInv, RemindersTypeOK
  <1>. QED
    BY <1>1, <1>2 DEF RemindersInv, RemindersTypeOK, Waits, Holds, RemindedOncePerDay

\* Nobody holds a claim over midnight.
LEMMA NewDayKeeps ==
  ASSUME RemindersInv, NewDay
  PROVE  RemindersInv'
  <1>. USE RemindersAssumption DEF RemindersInv, RemindersTypeOK, NewDay
  <1>1. RemindersTypeOK'
    OBVIOUS
  <1>2. \A s \in Servers : run'[s].pc = "idle"
    BY NoRunFacts
  <1>3. \A s \in Servers : Waits(s)' /\ ~Holds(s)'
    BY <1>2 DEF Waits, Holds
  <1>4. sent'[day'] = 0 /\ last' <= day' /\ RemindedOncePerDay'
    BY DEF RemindedOncePerDay
  <1>5. \A d \in 1..LastDay : d > day' => sent'[d] = 0
    OBVIOUS
  <1>. HIDE DEF RemindersTypeOK
  <1>. QED
    BY <1>1, <1>3, <1>4, <1>5

LEMMA HourlyKeeps ==
  ASSUME RemindersInv, NEW s \in Servers, Hourly(s)
  PROVE  RemindersInv'
  <1>. DEFINE next == [pc |-> "awake", seen |-> run[s].seen]
  <1>1. run[s].seen \in 0..LastDay
    BY DEF RemindersInv, RemindersTypeOK
  <1>2. next \in [pc : {"idle", "awake", "claim"}, seen : 0..LastDay] /\ next.pc = "awake"
    BY <1>1
  <1>3. run' = [run EXCEPT ![s] = next] /\ UNCHANGED <<day, hour, last, enabled, waiting, sent>>
    BY DEF Hourly, GoTo
  <1>. HIDE DEF next
  <1>. QED
    BY <1>2, <1>3, LetGo

LEMMA ReadLastDayKeeps ==
  ASSUME RemindersInv, NEW s \in Servers, ReadLastDay(s)
  PROVE  RemindersInv'
  <1>1. CASE last = day
    BY <1>1, StopKeeps DEF ReadLastDay
  <1>2. CASE last # day
    <2>. DEFINE next == [pc |-> "claim", seen |-> last]
    <2>1. next \in [pc : {"idle", "awake", "claim"}, seen : 0..LastDay] /\ next.seen # day
      BY <1>2 DEF RemindersInv, RemindersTypeOK
    <2>2. run' = [run EXCEPT ![s] = next] /\ UNCHANGED <<day, hour, last, enabled, waiting, sent>>
      BY <1>2 DEF ReadLastDay
    <2>. HIDE DEF next
    <2>. QED
      BY <2>1, <2>2, LetGo
  <1>. QED
    BY <1>1, <1>2

\* The claim succeeds only on the date that was read, an earlier one: nobody can have
\* claimed today.
LEMMA ClaimDayKeeps ==
  ASSUME RemindersInv, NEW s \in Servers, ClaimDay(s)
  PROVE  RemindersInv'
  <1>. USE DEF ClaimDay
  <1>1. CASE last # run[s].seen
    BY <1>1, StopKeeps
  <1>2. CASE last = run[s].seen
    <2>. DEFINE next == [pc |-> "gather", seen |-> run[s].seen]
    <2>1. last # day
      BY <1>2 DEF RemindersInv, Waits
    <2>2. sent[day] = 0 /\ \A t \in Servers : ~Holds(t)
      BY <2>1 DEF RemindersInv
    <2>3. /\ run' = [run EXCEPT ![s] = next] /\ last' = day
          /\ UNCHANGED <<day, hour, enabled, waiting, sent>>
      BY <1>2 DEF GoTo
    <2>4. run[s].seen \in 0..LastDay /\ day \in 1..LastDay
      BY DEF RemindersInv, RemindersTypeOK
    <2>5. /\ next \in [pc : {"idle", "awake", "claim", "gather", "mail"}, seen : 0..LastDay]
          /\ next.pc = "gather"
      BY <2>4
    <2>. HIDE DEF next
    <2>6. RemindersTypeOK'
      BY <2>3, <2>4, <2>5, RemindersAssumption DEF RemindersInv, RemindersTypeOK
    <2>7. \A t \in Servers : run'[t] = IF t = s THEN next ELSE run[t]
      BY <2>3 DEF RemindersInv, RemindersTypeOK
    <2>8. \A t \in Servers : Holds(t)' => t = s
      BY <2>2, <2>7 DEF Holds
    <2>9. \A t \in Servers : Waits(t)'
      BY <2>3, <2>5, <2>7 DEF Waits, RemindersInv
    <2>10. RemindedOncePerDay' /\ last' <= day' /\ last' = day' /\ sent'[day'] = 0
      BY <2>2, <2>3, <2>4 DEF RemindersInv, RemindedOncePerDay
    <2>11. \A d \in 1..LastDay : d > day' => sent'[d] = 0
      BY <2>3 DEF RemindersInv
    <2>. QED
      BY <2>6, <2>8, <2>9, <2>10, <2>11 DEF RemindersInv
  <1>. QED
    BY <1>1, <1>2

LEMMA GatherKeeps ==
  ASSUME RemindersInv, NEW s \in Servers, Gather(s)
  PROVE  RemindersInv'
  <1>. USE DEF Gather
  <1>1. CASE ~waiting
    BY <1>1, StopKeeps
  <1>2. CASE waiting
    <2>. DEFINE next == [pc |-> "mail", seen |-> run[s].seen]
    <2>1. /\ run' = [run EXCEPT ![s] = next]
          /\ UNCHANGED <<day, hour, last, enabled, waiting, sent>>
      BY <1>2 DEF GoTo
    <2>2. run[s].seen \in 0..LastDay
      BY DEF RemindersInv, RemindersTypeOK
    <2>3. /\ next \in [pc : {"idle", "awake", "claim", "gather", "mail"}, seen : 0..LastDay]
          /\ next.pc = "mail"
      BY <2>2
    <2>. HIDE DEF next
    <2>4. RemindersTypeOK'
      BY <2>1, <2>3 DEF RemindersInv, RemindersTypeOK
    <2>5. \A t \in Servers : run'[t] = IF t = s THEN next ELSE run[t]
      BY <2>1 DEF RemindersInv, RemindersTypeOK
    <2>6. \A t \in Servers : Holds(t)' = Holds(t)
      BY <2>3, <2>5 DEF Holds
    <2>7. \A t \in Servers : Waits(t)'
      BY <2>1, <2>3, <2>5 DEF Waits, RemindersInv
    <2>. QED
      BY <2>1, <2>4, <2>6, <2>7 DEF RemindersInv, RemindedOncePerDay
  <1>. QED
    BY <1>1, <1>2

\* The only claimant mails, and nobody has before.
LEMMA MailKeeps ==
  ASSUME RemindersInv, NEW s \in Servers, Mail(s)
  PROVE  RemindersInv'
  <1>. USE DEF Mail
  <1>1. Holds(s)
    BY DEF Holds
  <1>2. last = day /\ sent[day] = 0 /\ \A t \in Servers \ {s} : ~Holds(t)
    BY <1>1 DEF RemindersInv
  <1>3. run' = [run EXCEPT ![s] = NoRun] /\ UNCHANGED <<day, hour, last, enabled, waiting>>
    BY DEF Stop
  <1>4. day \in 1..LastDay /\ sent \in [1..LastDay -> Nat]
    BY DEF RemindersInv, RemindersTypeOK
  <1>5. /\ sent' \in [1..LastDay -> Nat] /\ sent'[day] \in {0, 1}
        /\ \A d \in 1..LastDay : d # day => sent'[d] = sent[d]
    BY <1>2, <1>4
  <1>6. RemindersTypeOK'
    BY <1>3, <1>5, NoRunFacts DEF RemindersInv, RemindersTypeOK
  <1>7. \A t \in Servers : run'[t] = IF t = s THEN NoRun ELSE run[t]
    BY <1>3 DEF RemindersInv, RemindersTypeOK
  <1>8. \A t \in Servers : ~Holds(t)'
    BY <1>2, <1>7, NoRunFacts DEF Holds
  <1>9. \A t \in Servers : Waits(t)'
    BY <1>3, <1>7, NoRunFacts DEF Waits, RemindersInv
  <1>10. RemindedOncePerDay'
    BY <1>5 DEF RemindedOncePerDay, RemindersInv
  <1>11. \A d \in 1..LastDay : d > day' => sent'[d] = 0
    BY <1>3, <1>4, <1>5 DEF RemindersInv
  <1>. QED
    BY <1>2, <1>3, <1>6, <1>8, <1>9, <1>10, <1>11 DEF RemindersInv

LEMMA RemindersStep == RemindersInv /\ [RemindersNext]_remindersVars => RemindersInv'
  <1>. SUFFICES ASSUME RemindersInv, [RemindersNext]_remindersVars PROVE RemindersInv'
    OBVIOUS
  <1>1. ASSUME HourPasses \/ WaitingChanges \/ SetEmailEnabled PROVE RemindersInv'
    BY <1>1, AroundKeeps
  <1>2. ASSUME NewDay PROVE RemindersInv'
    BY <1>2, NewDayKeeps
  <1>3. ASSUME NEW s \in Servers, Hourly(s) PROVE RemindersInv'
    BY <1>3, HourlyKeeps
  <1>4. ASSUME NEW s \in Servers, ReadLastDay(s) PROVE RemindersInv'
    BY <1>4, ReadLastDayKeeps
  <1>5. ASSUME NEW s \in Servers, ClaimDay(s) PROVE RemindersInv'
    BY <1>5, ClaimDayKeeps
  <1>6. ASSUME NEW s \in Servers, Gather(s) PROVE RemindersInv'
    BY <1>6, GatherKeeps
  <1>7. ASSUME NEW s \in Servers, Mail(s) PROVE RemindersInv'
    BY <1>7, MailKeeps
  <1>8. ASSUME NEW s \in Servers, Crash(s) PROVE RemindersInv'
    BY <1>8, StopKeeps DEF Crash
  <1>9. CASE UNCHANGED remindersVars
    BY <1>9 DEF remindersVars, RemindersInv, RemindersTypeOK, Waits, Holds, RemindedOncePerDay
  <1>. QED
    BY <1>1, <1>2, <1>3, <1>4, <1>5, <1>6, <1>7, <1>8, <1>9 DEF RemindersNext, Run

-----------------------------------------------------------------------------
\* The claim of the day in email.lastReminderDate excludes the servers from one
\* another (email-settings.ts, claimReminderDay).
THEOREM RemindersInvariant == RemindersSpec => []RemindersInv
  BY RemindersStart, RemindersStep, PTL DEF RemindersSpec

\* Admins get at most one reminder a day, however many servers run the hourly job and
\* wherever they die (reminders.service.ts).
THEOREM OneReminderADay == RemindersSpec => []RemindedOncePerDay
  <1>1. RemindersInv => RemindedOncePerDay
    BY DEF RemindersInv
  <1>. QED
    BY <1>1, RemindersInvariant, PTL

-----------------------------------------------------------------------------
(***************************************************************************)
(* Incidents, for every set of officers and corrective actions: an officer *)
(* nobody has overtaken acts on the incident as it is.                     *)
(***************************************************************************)
Informed(o) ==
  ruling[o] # Null /\ o \notin overtaken =>
    /\ incident # Null
    /\ ruling[o] \in IncidentTransitions[incident]
    /\ ruling[o] = "CLOSED" => OpenMeasures = {}

HseInv == HseTypeOK /\ \A o \in Officers : Informed(o)

LEMMA HseStarts == HseInit => HseInv
  BY DEF HseInit, HseInv, HseTypeOK, Informed, NoMeasure

\* A write of the incident or of a measure overtakes everybody who goes on.
LEMMA OvertakeKeeps ==
  ASSUME HseInv, HseTypeOK', NEW gone \in SUBSET Officers, Overtake(gone),
         \A o \in Officers : ruling'[o] = IF o \in gone THEN Null ELSE ruling[o]
  PROVE  HseInv'
  BY DEF HseInv, Informed, Overtake

LEMMA HseStep == HseInv /\ [HseNext]_hseVars => HseInv'
  <1> SUFFICES ASSUME HseInv, [HseNext]_hseVars PROVE HseInv'
    OBVIOUS
  <1> USE DEF HseInv
  <1>1. CASE UNCHANGED hseVars
    BY <1>1 DEF hseVars, HseTypeOK, Informed, OpenMeasures
  <1>2. CASE Report
    <2>1. HseTypeOK'
      BY <1>2 DEF Report, HseTypeOK, IncidentStatuses, IncidentTransitions
    <2>2. \A o \in Officers : ruling[o] # Null => o \in overtaken
      BY <1>2 DEF Report, Informed
    <2> QED
      BY <1>2, <2>1, <2>2 DEF Report, Informed
  <1>3. ASSUME NEW o \in Officers, NEW status \in IncidentStatuses, Rule(o, status) PROVE HseInv'
    <2>1. HseTypeOK'
      BY <1>3 DEF Rule, HseTypeOK
    <2>2. OpenMeasures' = OpenMeasures /\ incident' = incident /\ overtaken' = overtaken
      BY <1>3 DEF Rule, OpenMeasures
    <2>3. ASSUME NEW p \in Officers PROVE Informed(p)'
      <3>1. CASE p = o
        BY <1>3, <2>2, <3>1 DEF Rule, HseTypeOK, Informed
      <3>2. CASE p # o
        BY <1>3, <2>2, <3>2 DEF Rule, HseTypeOK, Informed
      <3> QED
        BY <3>1, <3>2
    <2> QED
      BY <2>1, <2>3
  <1>4. ASSUME NEW o \in Officers, WriteIncident(o) PROVE HseInv'
    <2>1. HseTypeOK'
      BY <1>4 DEF WriteIncident, HseTypeOK, Overtake
    <2>2. \A p \in Officers : ruling'[p] = IF p \in {o} THEN Null ELSE ruling[p]
      BY <1>4 DEF WriteIncident, HseTypeOK
    <2> QED
      BY <1>4, <2>1, <2>2, OvertakeKeeps DEF WriteIncident
  <1>5. ASSUME NEW o \in Officers, DropRuling(o) PROVE HseInv'
    <2>1. HseTypeOK' /\ OpenMeasures' = OpenMeasures /\ incident' = incident
      BY <1>5 DEF DropRuling, HseTypeOK, OpenMeasures
    <2>2. \A p \in Officers : Informed(p)'
      BY <1>5, <2>1 DEF DropRuling, HseTypeOK, Informed
    <2> QED
      BY <2>1, <2>2
  <1>6. ASSUME NEW k \in Measures, AddMeasure(k) PROVE HseInv'
    <2>1. HseTypeOK'
      BY <1>6 DEF AddMeasure, HseTypeOK, MeasureStatuses, Overtake
    <2> QED
      BY <1>6, <2>1, OvertakeKeeps DEF AddMeasure
  <1>7. ASSUME NEW k \in Measures, NEW status \in MeasureStatuses, SetMeasure(k, status)
        PROVE  HseInv'
    <2>1. HseTypeOK'
      BY <1>7 DEF SetMeasure, HseTypeOK, Overtake
    <2> QED
      BY <1>7, <2>1, OvertakeKeeps DEF SetMeasure
  <1> QED
    BY <1>1, <1>2, <1>3, <1>4, <1>5, <1>6, <1>7 DEF HseNext

LEMMA HseInvariant == HseSpec => []HseInv
  BY HseStarts, HseStep, PTL DEF HseSpec

\* "CLOSED is terminal" (hse.service.ts:14): an officer nobody has overtaken
\* writes no incident that is closed, and closes one only with every corrective
\* action completed.
THEOREM ClosesWhenDone == HseSpec => AloneClosesWhenDone
  <1>1. HseInv =>
          [\A o \in Officers :
             WriteIncident(o) /\ o \notin overtaken
               => /\ incident # "CLOSED"
                  /\ incident' = "CLOSED" => OpenMeasures = {}]_hseVars
    <2> SUFFICES ASSUME HseInv, NEW o \in Officers, WriteIncident(o), o \notin overtaken
                 PROVE  incident # "CLOSED" /\ (incident' = "CLOSED" => OpenMeasures = {})
      OBVIOUS
    <2>1. ruling[o] \in IncidentTransitions[incident] /\ incident' = ruling[o]
          /\ (ruling[o] = "CLOSED" => OpenMeasures = {})
      BY DEF WriteIncident, HseInv, Informed
    <2>2. IncidentTransitions["CLOSED"] = {}
      BY DEF IncidentTransitions
    <2> QED
      BY <2>1, <2>2
  <1> QED
    BY <1>1, HseInvariant, PTL DEF HseSpec, AloneClosesWhenDone

-----------------------------------------------------------------------------
(***************************************************************************)
(* Attendance, for every calendar, shift and number of clicks: what a      *)
(* click has worked out is right for its day until HR touches that day or  *)
(* the shift, and a lone click finds the row as it read it.                *)
(***************************************************************************)
Worked(c) ==
  LET job == click[c] IN
  /\ job.pc \in {"employee", "create", "update"} => job.shift = shift \/ corrected = Calendar
  /\ job.pc \in {"create", "update"} =>
       /\ job.at \in 0..now
       /\ job.at \div DayLength = job.day
       /\ (job.status = "LATE") = IsLate(job.shift, job.at)
       /\ clicksCrossed \/ job.day \in corrected \/ record[job.day].clockIn = Null
  /\ job.pc = "out" => job.day \in corrected \/ record[job.day].clockIn # Null

Right(d) ==
  d \notin corrected =>
    /\ record[d].clockIn # Null =>
         /\ record[d].clockIn \in 0..now
         /\ record[d].clockIn \div DayLength = d
         /\ (record[d].status = "LATE") = IsLate(shift, record[d].clockIn)
    /\ record[d].clockOut # Null =>
         /\ record[d].clockIn # Null
         /\ clicksCrossed \/ record[d].clockIn <= record[d].clockOut

LoneClick == \A c, d \in Clicks : click[c] # NoClick /\ click[d] # NoClick => c = d

AttendanceInv ==
  /\ AttendanceTypeOK
  /\ \A c \in Clicks : Worked(c)
  /\ \A d \in Calendar : Right(d)
  /\ ~clicksCrossed => LoneClick

AttendanceRow == [status : AttendanceStatuses \cup {Null}, clockIn : Times, clockOut : Times]
AttendanceJob == [pc : {"idle", "employee", "create", "update", "out"}, day : Calendar, at : Times,
                  shift : Starts \cup {Null}, status : OwnStatuses \cup {Null}]

-----------------------------------------------------------------------------
LEMMA DayFacts ==
  ASSUME NEW n \in Nat, NEW m \in Nat, NEW length \in Nat \ {0}, NEW days \in Nat \ {0}
  PROVE  /\ n \div length \in Nat
         /\ n <= m => n \div length <= m \div length
         /\ n <= days * length - 1 => n \div length <= days - 1
  <1>1. PICK q \in Nat, r \in Nat : n = q * length + r /\ r < length /\ q = n \div length
    OBVIOUS
  <1>2. PICK k \in Nat, s \in Nat : m = k * length + s /\ s < length /\ k = m \div length
    OBVIOUS
  <1>3. ASSUME n <= m, q > k PROVE FALSE
    <2>1. q * length >= (k + 1) * length
      BY <1>3
    <2> QED
      BY <1>1, <1>2, <1>3, <2>1
  <1>4. ASSUME n <= days * length - 1, q > days - 1 PROVE FALSE
    <2>1. q * length >= days * length
      BY <1>4
    <2> QED
      BY <1>1, <1>4, <2>1
  <1> QED
    BY <1>1, <1>2, <1>3, <1>4

LEMMA TodayFacts ==
  ASSUME AttendanceTypeOK
  PROVE  now \in Nat /\ now \in Times /\ Today \in Calendar
  <1>1. now \in Nat /\ now <= Days * DayLength - 1 /\ Days * DayLength \in Nat
    BY AttendanceAssumption DEF AttendanceTypeOK, Horizon
  <1>2. now \div DayLength \in Nat /\ now \div DayLength <= Days - 1
    BY <1>1, AttendanceAssumption, DayFacts
  <1> QED
    BY <1>1, <1>2, AttendanceAssumption DEF AttendanceTypeOK, Times, Today, Calendar

LEMMA NoClickFacts == NoClick \in AttendanceJob /\ NoClick.pc = "idle"
  BY AttendanceAssumption DEF NoClick, AttendanceJob, Calendar, Times

LEMMA AttendanceStarts == AttendanceInit => AttendanceInv
  <1> SUFFICES ASSUME AttendanceInit PROVE AttendanceInv
    OBVIOUS
  <1>1. PICK n \in Nat : n = Horizon
    <2>1. Days * DayLength \in Nat /\ Days * DayLength > 0
      BY AttendanceAssumption
    <2> QED
      BY <2>1 DEF Horizon
  <1>2. AttendanceTypeOK
    <2>1. 0 \in 0..Horizon
      BY <1>1
    <2> QED
      BY <2>1, NoClickFacts DEF AttendanceInit, AttendanceTypeOK, AttendanceJob, NoRecord, Times
  <1>3. \A d \in Calendar : Right(d)
    BY DEF AttendanceInit, Right, NoRecord
  <1>4. \A c \in Clicks : Worked(c)
    BY NoClickFacts DEF AttendanceInit, Worked
  <1>5. LoneClick
    BY DEF AttendanceInit, LoneClick
  <1> QED
    BY <1>2, <1>3, <1>4, <1>5 DEF AttendanceInv

\* A step of a click that leaves the rows alone.
LEMMA ClickKeeps ==
  ASSUME AttendanceInv, NEW c \in Clicks, NEW job \in AttendanceJob,
         click' = [click EXCEPT ![c] = job], UNCHANGED <<now, shift, record, corrected>>,
         \/ UNCHANGED clicksCrossed /\ (click[c] # NoClick \/ job = NoClick)
         \/ clicksCrossed' = (clicksCrossed \/ \E d \in Clicks \ {c} : click[d] # NoClick),
         Worked(c)'
  PROVE  AttendanceInv'
  <1>1. click' \in [Clicks -> AttendanceJob] /\ click'[c] = job
        /\ \A d \in Clicks \ {c} : click'[d] = click[d]
    BY DEF AttendanceInv, AttendanceTypeOK, AttendanceJob
  <1>2. clicksCrossed \in BOOLEAN /\ clicksCrossed' \in BOOLEAN /\ (clicksCrossed => clicksCrossed')
    BY DEF AttendanceInv, AttendanceTypeOK
  <1>3. AttendanceTypeOK'
    BY <1>1, <1>2 DEF AttendanceInv, AttendanceTypeOK, AttendanceJob
  <1>4. \A d \in Calendar : Right(d)'
    BY <1>2 DEF AttendanceInv, Right
  <1>5. ASSUME NEW d \in Clicks PROVE Worked(d)'
    <2>1. CASE d = c
      BY <2>1
    <2>2. CASE d # c
      <3>1. Worked(d) /\ click'[d] = click[d]
        BY <1>1, <2>2 DEF AttendanceInv
      <3> QED
        BY <1>2, <3>1 DEF Worked
    <2> QED
      BY <2>1, <2>2
  <1>6. ~clicksCrossed' => LoneClick'
    BY <1>1, <1>2 DEF AttendanceInv, LoneClick
  <1> QED
    BY <1>3, <1>4, <1>5, <1>6 DEF AttendanceInv

LEMMA BeginClickKeeps ==
  ASSUME AttendanceInv, NEW c \in Clicks, ClockIn(c) \/ ClockOut(c) \/ DropClick(c)
  PROVE  AttendanceInv'
  <1>1. CASE ClockIn(c)
    <2> DEFINE job == [NoClick EXCEPT !.pc = "employee", !.shift = shift]
    <2>1. job \in AttendanceJob /\ job.pc = "employee" /\ job.shift = shift
      BY NoClickFacts DEF AttendanceInv, AttendanceTypeOK, AttendanceJob, NoClick
    <2>2. Begin(c, job)
      BY <1>1 DEF ClockIn
    <2> HIDE DEF job
    <2>3. click'[c] = job /\ shift' = shift
      BY <2>2 DEF Begin, AttendanceInv, AttendanceTypeOK
    <2>4. Worked(c)'
      BY <2>1, <2>3 DEF Worked
    <2> QED
      BY <2>1, <2>2, <2>4, ClickKeeps DEF Begin
  <1>2. CASE ClockOut(c)
    <2> DEFINE job == [NoClick EXCEPT !.pc = "out", !.day = Today]
    <2>1. PICK d \in Calendar : d = Today
      BY TodayFacts DEF AttendanceInv
    <2>2. job \in AttendanceJob /\ job.pc = "out" /\ job.day = d
      BY <2>1, NoClickFacts DEF AttendanceJob, NoClick
    <2>3. Begin(c, job) /\ record[d].clockIn # Null
      BY <1>2, <2>1 DEF ClockOut
    <2> HIDE DEF job
    <2>4. click'[c] = job /\ record' = record
      BY <2>3 DEF Begin, AttendanceInv, AttendanceTypeOK
    <2>5. Worked(c)'
      BY <2>2, <2>3, <2>4 DEF Worked
    <2> QED
      BY <2>2, <2>3, <2>5, ClickKeeps DEF Begin
  <1>3. CASE DropClick(c)
    <2>1. click' = [click EXCEPT ![c] = NoClick] /\ click'[c] = NoClick
      BY <1>3 DEF DropClick, Release, AttendanceInv, AttendanceTypeOK
    <2>2. Worked(c)'
      BY <2>1, NoClickFacts DEF Worked
    <2> QED
      BY <1>3, <2>1, <2>2, NoClickFacts, ClickKeeps DEF DropClick, Release
  <1> QED
    BY <1>1, <1>2, <1>3

LEMMA ReadTodayKeeps ==
  ASSUME AttendanceInv, NEW c \in Clicks, ReadToday(c)
  PROVE  AttendanceInv'
  <1>1. PICK d \in Calendar, n \in Nat : d = Today /\ n = now /\ n \in Times
    BY TodayFacts DEF AttendanceInv
  <1>2. PICK old \in AttendanceJob : old = click[c] /\ old.pc = "employee"
    BY DEF ReadToday, AttendanceInv, AttendanceTypeOK, AttendanceJob
  <1>3. PICK late \in BOOLEAN : late = IsLate(old.shift, n)
    BY DEF IsLate
  <1>4. PICK pc \in {"create", "update"} : pc = IF record[d] = NoRecord THEN "create" ELSE "update"
    OBVIOUS
  <1> DEFINE job == [pc |-> pc, day |-> d, at |-> n, shift |-> old.shift,
                     status |-> IF late THEN "LATE" ELSE "PRESENT"]
  <1>5. click' = [click EXCEPT ![c] = job] /\ record[d].clockIn = Null
        /\ UNCHANGED <<now, shift, record, clicksCrossed, corrected>>
    BY <1>1, <1>2, <1>3, <1>4 DEF ReadToday
  <1>6. /\ job \in AttendanceJob /\ job.pc \in {"create", "update"} /\ job.day = d /\ job.at = n
        /\ job.shift = old.shift /\ (job.status = "LATE") = late
    BY <1>1, <1>2 DEF AttendanceJob, OwnStatuses
  <1> HIDE DEF job
  <1>7. click'[c] = job
    BY <1>5 DEF AttendanceInv, AttendanceTypeOK
  <1>8. Worked(c)'
    <2>1. old.shift = shift \/ corrected = Calendar
      BY <1>2 DEF AttendanceInv, Worked
    <2>2. n \div DayLength = d /\ n \in 0..now
      BY <1>1 DEF Today
    <2> QED
      BY <1>3, <1>5, <1>6, <1>7, <2>1, <2>2 DEF Worked
  <1>9. click[c] # NoClick
    BY <1>2, NoClickFacts
  <1> QED
    BY <1>5, <1>6, <1>8, <1>9, ClickKeeps

\* A step that writes the row of a day, and may end clicks.
LEMMA RowKeeps ==
  ASSUME AttendanceInv, NEW d \in Calendar, NEW row1 \in AttendanceRow,
         record' = [record EXCEPT ![d] = row1], UNCHANGED <<now, shift, clicksCrossed>>,
         corrected' \in {corrected, corrected \cup {d}},
         click' \in [Clicks -> AttendanceJob],
         \A c \in Clicks : click'[c] \in {click[c], NoClick},
         \A c \in Clicks : click'[c].day = d => Worked(c)',
         Right(d)'
  PROVE  AttendanceInv'
  <1>1. record \in [Calendar -> AttendanceRow] /\ corrected \subseteq Calendar
    BY DEF AttendanceInv, AttendanceTypeOK, AttendanceRow
  <1>2. record' \in [Calendar -> AttendanceRow] /\ \A e \in Calendar \ {d} : record'[e] = record[e]
    BY <1>1
  <1>3. AttendanceTypeOK'
    BY <1>1, <1>2 DEF AttendanceInv, AttendanceTypeOK, AttendanceRow, AttendanceJob
  <1>4. ASSUME NEW e \in Calendar PROVE Right(e)'
    <2>1. CASE e = d
      BY <2>1
    <2>2. CASE e # d
      <3>1. Right(e) /\ record'[e] = record[e] /\ (e \in corrected' <=> e \in corrected)
        BY <1>2, <2>2 DEF AttendanceInv
      <3> QED
        BY <3>1 DEF Right
    <2> QED
      BY <2>1, <2>2
  <1>5. ASSUME NEW c \in Clicks PROVE Worked(c)'
    <2>1. CASE click'[c].day = d
      BY <2>1
    <2>2. CASE click'[c] = NoClick
      BY <2>2, NoClickFacts DEF Worked
    <2>3. CASE click'[c] = click[c] /\ click'[c].day # d
      <3>1. PICK e \in Calendar : e = click[c].day
        BY DEF AttendanceInv, AttendanceTypeOK
      <3>2. Worked(c) /\ record'[e] = record[e] /\ (e \in corrected' <=> e \in corrected)
        BY <1>2, <2>3, <3>1 DEF AttendanceInv
      <3>3. corrected = Calendar => corrected' = Calendar
        OBVIOUS
      <3> QED
        BY <2>3, <3>1, <3>2, <3>3 DEF Worked
    <2> QED
      BY <2>1, <2>2, <2>3
  <1>6. ~clicksCrossed' => LoneClick'
    BY DEF AttendanceInv, LoneClick
  <1> QED
    BY <1>3, <1>4, <1>5, <1>6 DEF AttendanceInv

LEMMA WriteClockInKeeps ==
  ASSUME AttendanceInv, NEW c \in Clicks, WriteClockIn(c)
  PROVE  AttendanceInv'
  <1>1. PICK job \in AttendanceJob : job = click[c] /\ job.pc \in {"create", "update"}
    BY DEF WriteClockIn, AttendanceInv, AttendanceTypeOK, AttendanceJob
  <1>2. PICK d \in Calendar, n \in Nat : d = job.day /\ n = job.at /\ n \in Times
    BY <1>1 DEF AttendanceInv, Worked, AttendanceJob, AttendanceTypeOK
  <1>3. /\ n \in 0..now /\ n \div DayLength = d /\ (job.status = "LATE") = IsLate(job.shift, n)
        /\ clicksCrossed \/ d \in corrected \/ record[d].clockIn = Null
        /\ job.shift = shift \/ d \in corrected
    BY <1>1, <1>2 DEF AttendanceInv, Worked
  <1> DEFINE new == [record[d] EXCEPT !.clockIn = n, !.status = job.status]
  <1>4. record[d] \in AttendanceRow
    BY DEF AttendanceInv, AttendanceTypeOK, AttendanceRow
  <1>5. new \in AttendanceRow /\ new.clockIn = n /\ new.status = job.status
        /\ new.clockOut = record[d].clockOut
    BY <1>2, <1>4 DEF AttendanceRow, AttendanceJob, OwnStatuses, AttendanceStatuses
  <1>6. record' = [record EXCEPT ![d] = new] /\ Release(c)
    BY <1>1, <1>2 DEF WriteClockIn
  <1> HIDE DEF new
  <1>7. click' \in [Clicks -> AttendanceJob] /\ click'[c] = NoClick
        /\ \A e \in Clicks \ {c} : click'[e] = click[e]
    BY <1>6, NoClickFacts DEF Release, AttendanceInv, AttendanceTypeOK, AttendanceJob
  <1>8. record'[d] = new /\ UNCHANGED <<now, shift, clicksCrossed, corrected>>
    BY <1>6 DEF Release, AttendanceInv, AttendanceTypeOK
  <1>9. click[c] # NoClick /\ n # Null
    BY <1>1, NoClickFacts, EntriesAssumption
  <1>10. Right(d)'
    <2>1. Right(d)
      BY DEF AttendanceInv
    <2> QED
      BY <1>3, <1>5, <1>8, <1>9, <2>1 DEF Right
  <1>11. ASSUME NEW e \in Clicks, click'[e].day = d PROVE Worked(e)'
    <2>1. CASE e = c
      BY <1>7, <2>1, NoClickFacts DEF Worked
    <2>2. CASE e # c
      <3>1. Worked(e) /\ click'[e] = click[e]
        BY <1>7, <2>2 DEF AttendanceInv
      <3>2. click[e].pc \in {"create", "update"} => clicksCrossed
        BY <1>9, <2>2, NoClickFacts DEF AttendanceInv, LoneClick
      <3> QED
        BY <1>5, <1>8, <1>9, <1>11, <3>1, <3>2 DEF Worked
    <2> QED
      BY <2>1, <2>2
  <1>12. \A e \in Clicks : click'[e] \in {click[e], NoClick}
    BY <1>7
  <1> QED
    BY <1>5, <1>6, <1>7, <1>8, <1>10, <1>11, <1>12, RowKeeps

LEMMA WriteClockOutKeeps ==
  ASSUME AttendanceInv, NEW c \in Clicks, WriteClockOut(c)
  PROVE  AttendanceInv'
  <1>1. PICK d \in Calendar, n \in Nat : d = click[c].day /\ n = now /\ n \in Times
    BY TodayFacts DEF AttendanceInv, AttendanceTypeOK
  <1>2. d \in corrected \/ record[d].clockIn # Null
    BY <1>1 DEF WriteClockOut, AttendanceInv, Worked
  <1> DEFINE new == [record[d] EXCEPT !.clockOut = n]
  <1>3. record[d] \in AttendanceRow
    BY DEF AttendanceInv, AttendanceTypeOK, AttendanceRow
  <1>4. new \in AttendanceRow /\ new.clockIn = record[d].clockIn /\ new.status = record[d].status
        /\ new.clockOut = n
    BY <1>1, <1>3 DEF AttendanceRow
  <1>5. record' = [record EXCEPT ![d] = new] /\ Release(c)
    BY <1>1 DEF WriteClockOut
  <1> HIDE DEF new
  <1>6. click' \in [Clicks -> AttendanceJob] /\ click'[c] = NoClick
        /\ \A e \in Clicks \ {c} : click'[e] = click[e]
    BY <1>5, NoClickFacts DEF Release, AttendanceInv, AttendanceTypeOK, AttendanceJob
  <1>7. record'[d] = new /\ UNCHANGED <<now, shift, clicksCrossed, corrected>>
    BY <1>5 DEF Release, AttendanceInv, AttendanceTypeOK
  <1>8. Right(d)'
    <2>1. Right(d)
      BY DEF AttendanceInv
    <2>2. d \notin corrected => record[d].clockIn \in 0..n
      BY <1>1, <1>2, <2>1 DEF Right
    <2> QED
      BY <1>1, <1>2, <1>4, <1>7, <2>1, <2>2 DEF Right
  <1>9. ASSUME NEW e \in Clicks, click'[e].day = d PROVE Worked(e)'
    <2>1. CASE e = c
      BY <1>6, <2>1, NoClickFacts DEF Worked
    <2>2. CASE e # c
      <3>1. Worked(e) /\ click'[e] = click[e]
        BY <1>6, <2>2 DEF AttendanceInv
      <3> QED
        BY <1>4, <1>7, <1>9, <3>1 DEF Worked
    <2> QED
      BY <2>1, <2>2
  <1>10. \A e \in Clicks : click'[e] \in {click[e], NoClick}
    BY <1>6
  <1> QED
    BY <1>4, <1>5, <1>6, <1>7, <1>8, <1>9, <1>10, RowKeeps

LEMMA EntryKeeps ==
  ASSUME AttendanceInv, NEW d \in Calendar, NEW entry \in Entries,
         CreateRecord(d, entry) \/ UpdateRecord(d, entry)
  PROVE  AttendanceInv'
  <1>1. entry \in AttendanceRow /\ record \in [Calendar -> AttendanceRow]
        /\ click \in [Clicks -> AttendanceJob]
    BY EntriesAssumption DEF AttendanceInv, AttendanceTypeOK, AttendanceRow, AttendanceJob
  <1>2. PICK new \in AttendanceRow : record' = [record EXCEPT ![d] = new]
    <2>1. CASE CreateRecord(d, entry)
      BY <1>1, <2>1 DEF CreateRecord
    <2>2. CASE UpdateRecord(d, entry)
      <3> DEFINE new == [k \in DOMAIN entry |-> IF entry[k] = Null THEN record[d][k] ELSE entry[k]]
      <3>1. record[d] \in AttendanceRow
        BY <1>1
      <3>2. new \in AttendanceRow
        BY <1>1, <3>1 DEF AttendanceRow
      <3> QED
        BY <2>2, <3>2 DEF UpdateRecord
    <2> QED
      BY <2>1, <2>2
  <1>3. record'[d] = new /\ UNCHANGED <<now, shift, click, clicksCrossed>>
    BY <1>1, <1>2 DEF CreateRecord, UpdateRecord
  <1>4. corrected' \in {corrected, corrected \cup {d}}
    BY DEF CreateRecord, UpdateRecord
  <1>5. \/ d \in corrected'
        \/ corrected' = corrected /\ record[d].clockIn = Null /\ new.clockIn = Null
             /\ new.clockOut = Null
    BY <1>1, <1>3 DEF CreateRecord, UpdateRecord, NoRecord
  <1>6. Right(d)'
    BY <1>3, <1>5 DEF Right
  <1>7. ASSUME NEW c \in Clicks, click'[c].day = d PROVE Worked(c)'
    <2>1. Worked(c) /\ (corrected = Calendar => corrected' = Calendar)
      BY <1>4 DEF AttendanceInv
    <2> QED
      BY <1>3, <1>5, <1>7, <2>1 DEF Worked
  <1> QED
    BY <1>1, <1>2, <1>3, <1>4, <1>6, <1>7, RowKeeps

LEMMA TickKeeps ==
  ASSUME AttendanceInv, Tick
  PROVE  AttendanceInv'
  <1>1. PICK n \in Nat : n = now /\ now' = n + 1
    BY TodayFacts DEF AttendanceInv, Tick
  <1>2. AttendanceTypeOK'
    <2>1. PICK h \in Int : h = Horizon
      BY AttendanceAssumption DEF Horizon
    <2> QED
      BY <1>1, <2>1 DEF Tick, AttendanceInv, AttendanceTypeOK
  <1>3. ASSUME NEW d \in Calendar PROVE Right(d)'
    <2>1. Right(d) /\ UNCHANGED <<shift, record, clicksCrossed, corrected>>
      BY DEF AttendanceInv, Tick
    <2>2. record[d].clockIn \in 0..now => record[d].clockIn \in 0..now'
      BY <1>1
    <2> QED
      BY <2>1, <2>2 DEF Right
  <1>4. ASSUME NEW c \in Clicks PROVE Worked(c)'
    <2>1. Worked(c) /\ UNCHANGED <<shift, record, click, clicksCrossed, corrected>>
      BY DEF AttendanceInv, Tick
    <2>2. click[c].at \in 0..now => click[c].at \in 0..now'
      BY <1>1
    <2> QED
      BY <2>1, <2>2 DEF Worked
  <1>5. ~clicksCrossed' => LoneClick'
    BY DEF AttendanceInv, Tick, LoneClick
  <1> QED
    BY <1>2, <1>3, <1>4, <1>5 DEF AttendanceInv

\* A day to come has no row of the employee's own, so HR gives it another shift.
LEMMA SetShiftKeeps ==
  ASSUME AttendanceInv, NEW start \in Starts, SetShift(start)
  PROVE  AttendanceInv'
  <1>1. UNCHANGED <<now, record, click, clicksCrossed>> /\ corrected \subseteq corrected'
        /\ corrected' \subseteq Calendar /\ shift' = start
    BY DEF SetShift, AttendanceInv, AttendanceTypeOK
  <1>2. AttendanceTypeOK'
    BY <1>1 DEF AttendanceInv, AttendanceTypeOK
  <1>3. ASSUME NEW d \in Calendar, d \notin corrected', record[d].clockIn # Null PROVE FALSE
    <2>1. d > Today
      BY <1>3, TodayFacts DEF SetShift, AttendanceInv, Calendar
    <2>2. PICK n \in Nat, m \in Nat : n = record[d].clockIn /\ m = now /\ n <= m
                                      /\ n \div DayLength = d
      BY <1>1, <1>3, TodayFacts DEF AttendanceInv, Right
    <2>3. n \div DayLength <= m \div DayLength
      BY <2>2, AttendanceAssumption, DayFacts
    <2> QED
      BY <2>1, <2>2, <2>3, TodayFacts DEF Today, Calendar, AttendanceInv
  <1>4. ASSUME NEW d \in Calendar PROVE Right(d)'
    <2>1. Right(d) /\ (d \notin corrected' => record[d].clockIn = Null)
      BY <1>3 DEF AttendanceInv
    <2> QED
      BY <1>1, <2>1 DEF Right
  <1>5. ASSUME NEW c \in Clicks PROVE Worked(c)'
    <2>1. Worked(c) /\ (click[c] = NoClick \/ corrected' = Calendar)
      BY DEF SetShift, AttendanceInv
    <2> QED
      BY <1>1, <2>1, NoClickFacts DEF Worked
  <1>6. ~clicksCrossed' => LoneClick'
    BY <1>1 DEF AttendanceInv, LoneClick
  <1> QED
    BY <1>2, <1>4, <1>5, <1>6 DEF AttendanceInv

LEMMA AttendanceStep == AttendanceInv /\ [AttendanceNext]_attendanceVars => AttendanceInv'
  <1> SUFFICES ASSUME AttendanceInv, [AttendanceNext]_attendanceVars PROVE AttendanceInv'
    OBVIOUS
  <1>1. CASE UNCHANGED attendanceVars
    BY <1>1 DEF attendanceVars, AttendanceInv, AttendanceTypeOK, Worked, Right, LoneClick
  <1>2. CASE AttendanceNext
    BY <1>2, TickKeeps, BeginClickKeeps, ReadTodayKeeps, WriteClockInKeeps, WriteClockOutKeeps,
       EntryKeeps, SetShiftKeeps DEF AttendanceNext
  <1> QED
    BY <1>1, <1>2

LEMMA AttendanceInvariant == AttendanceSpec => []AttendanceInv
  BY AttendanceStarts, AttendanceStep, PTL DEF AttendanceSpec

\* The row of a day HR has not touched holds that day's clock-in, LATE exactly
\* when it is, however many clicks overlap; and it ends after it starts as long
\* as none do.
THEOREM DaysAreRight == AttendanceSpec => []DaysAreRecordedRight
  <1>1. ASSUME AttendanceInv PROVE DaysAreRecordedRight
    BY <1>1 DEF AttendanceInv, Right, DaysAreRecordedRight, PunctualityIsRight, OutAfterIn, Own
  <1> QED
    BY <1>1, AttendanceInvariant, PTL

-----------------------------------------------------------------------------
(***************************************************************************)
(* The store's hours, for every default that could itself be saved.  A save*)
(* of six steps passes through schedules nobody asked for; alone and whole,*)
(* it ends at the one that was checked.                                    *)
(***************************************************************************)

Schedule(s) == s = [k \in Keys |-> s[k]]

\* Each setting by itself is always one that was checked.
WithinLimits(s) ==
  /\ s.workStart \in 0..MaxTime /\ s.workEnd \in 0..MaxTime
  /\ s.slotMinutes \in MinSlot..MaxSlot
  /\ s.slotCapacity \in 1..MaxCapacity
  /\ s.workingDays # {} /\ s.workingDays \subseteq 0..6
  /\ s.timeZone # "invalid"

\* A lone save has written the keys before its next one; before the first it has
\* written nothing.
OnItsWay(a) ==
  /\ \A b \in Admins \ {a} : saving[b] = NotSaving
  /\ \A i \in 1..6 : i < saving[a].key => setting[KEYS[i]] = saving[a].next[KEYS[i]]
  /\ saving[a].key = 1 => Workable(setting)

ScheduleInv ==
  /\ Schedule(setting) /\ WithinLimits(setting)
  /\ saving = [a \in Admins |-> saving[a]]
  /\ \A a \in Admins : saving[a] # NotSaving =>
       /\ saving[a] = [next |-> saving[a].next, key |-> saving[a].key]
       /\ saving[a].key \in 1..6
       /\ Schedule(saving[a].next) /\ Workable(saving[a].next)
  /\ torn \in BOOLEAN
  /\ ~torn => \A a \in Admins : saving[a] # NotSaving => OnItsWay(a)
  /\ ~torn /\ (\A a \in Admins : saving[a] = NotSaving) => Workable(setting)

-----------------------------------------------------------------------------
LEMMA KeyFacts ==
  /\ Len(KEYS) = 6
  /\ KEYS[1] = "workStart" /\ KEYS[2] = "workEnd" /\ KEYS[3] = "slotMinutes"
  /\ KEYS[4] = "slotCapacity" /\ KEYS[5] = "workingDays" /\ KEYS[6] = "timeZone"
  /\ Keys = {"workStart", "workEnd", "slotMinutes", "slotCapacity", "workingDays", "timeZone"}
  <1>1. /\ Len(KEYS) = 6
        /\ KEYS[1] = "workStart" /\ KEYS[2] = "workEnd" /\ KEYS[3] = "slotMinutes"
        /\ KEYS[4] = "slotCapacity" /\ KEYS[5] = "workingDays" /\ KEYS[6] = "timeZone"
    BY DEF KEYS
  <1>2. 1..6 = {1, 2, 3, 4, 5, 6}
    OBVIOUS
  <1>3. Keys = {KEYS[i] : i \in {1, 2, 3, 4, 5, 6}}
    BY <1>1, <1>2 DEF Keys
  <1> QED
    BY <1>1, <1>3

LEMMA SameKeys ==
  ASSUME NEW s, NEW t, \A i \in 1..6 : s[KEYS[i]] = t[KEYS[i]], Workable(t)
  PROVE  Workable(s)
  <1>1. /\ s.workStart = t.workStart /\ s.workEnd = t.workEnd
        /\ s.slotMinutes = t.slotMinutes /\ s.slotCapacity = t.slotCapacity
        /\ s.workingDays = t.workingDays /\ s.timeZone = t.timeZone
    BY KeyFacts
  <1> QED
    BY <1>1 DEF Workable

\* The first slot of the day ends before the day does.
LEMMA WorkableHasSlots ==
  ASSUME NEW s, Workable(s)
  PROVE  Slots(s) # {}
  <1>1. PICK from \in Nat, to \in Nat, m \in Nat \ {0} :
          from = s.workStart /\ to = s.workEnd /\ m = s.slotMinutes /\ m <= to - from
    BY ScheduleAssumption DEF Workable
  <1>2. from \in from..to /\ from + m <= to /\ (from - from) % m = 0
    BY <1>1
  <1> QED
    BY <1>1, <1>2 DEF Slots

-----------------------------------------------------------------------------
LEMMA ScheduleStarts == ScheduleInit => ScheduleInv
  BY ScheduleAssumption, KeyFacts
     DEF ScheduleInit, ScheduleInv, Schedule, WithinLimits, Workable, NotSaving

LEMMA UpdateScheduleKeeps ==
  ASSUME ScheduleInv, NEW a \in Admins, NEW edit \in Edits, UpdateSchedule(a, edit)
  PROVE  ScheduleInv'
  <1>1. PICK next : /\ next = [k \in Keys |-> next[k]] /\ Workable(next)
                    /\ saving' = [saving EXCEPT ![a] = [next |-> next, key |-> 1]]
    BY DEF UpdateSchedule
  <1> DEFINE r == [next |-> next, key |-> 1]
  <1>2. r # NotSaving /\ r.next = next /\ r.key = 1 /\ r = [next |-> r.next, key |-> r.key]
    BY DEF NotSaving
  <1> HIDE DEF r
  <1>3. /\ saving' = [b \in Admins |-> saving'[b]] /\ saving'[a] = r
        /\ \A b \in Admins \ {a} : saving'[b] = saving[b]
    BY <1>1 DEF ScheduleInv, r
  <1>4. /\ setting' = setting /\ torn' \in BOOLEAN
        /\ ~torn' => ~torn /\ \A b \in Admins : saving[b] = NotSaving
    BY DEF UpdateSchedule, Saving, ScheduleInv
  <1>5. \A b \in Admins : saving'[b] # NotSaving =>
          /\ saving'[b] = [next |-> saving'[b].next, key |-> saving'[b].key]
          /\ saving'[b].key \in 1..6
          /\ Schedule(saving'[b].next) /\ Workable(saving'[b].next)
    BY <1>1, <1>2, <1>3 DEF ScheduleInv, Schedule
  <1>6. ASSUME ~torn', NEW b \in Admins, saving'[b] # NotSaving PROVE OnItsWay(b)'
    <2>1. b = a /\ Workable(setting)
      BY <1>3, <1>4, <1>6 DEF ScheduleInv
    <2> QED
      BY <1>2, <1>3, <1>4, <1>6, <2>1 DEF OnItsWay, Workable
  <1> QED
    BY <1>2, <1>3, <1>4, <1>5, <1>6 DEF ScheduleInv, Schedule, WithinLimits, NotSaving

LEMMA SaveKeyKeeps ==
  ASSUME ScheduleInv, NEW a \in Admins, SaveKey(a)
  PROVE  ScheduleInv'
  <1>1. PICK n, next : /\ n \in 1..6 /\ saving[a] = [next |-> next, key |-> n]
                       /\ next = [k \in Keys |-> next[k]] /\ Workable(next)
    BY DEF SaveKey, ScheduleInv, Schedule
  <1> DEFINE r == IF n = 6 THEN NotSaving ELSE [next |-> next, key |-> n + 1]
  <1>2. /\ setting' = [setting EXCEPT ![KEYS[n]] = next[KEYS[n]]]
        /\ saving' = [saving EXCEPT ![a] = r] /\ torn' = torn
    BY <1>1, KeyFacts DEF SaveKey
  <1>3. /\ n = 6 => r = NotSaving
        /\ n # 6 => r = [next |-> r.next, key |-> r.key] /\ r.next = next /\ r.key = n + 1
        /\ n # 6 => r # NotSaving
    <2>1. CASE n = 6
      BY <2>1
    <2>2. CASE n # 6
      <3>1. r = [next |-> next, key |-> n + 1]
        BY <2>2
      <3>2. r.key = n + 1 /\ r.next = next /\ NotSaving.key = 0 /\ n + 1 # 0
        BY <1>1, <3>1 DEF NotSaving
      <3> HIDE DEF r
      <3>3. r # NotSaving
        BY <3>2
      <3> QED
        BY <2>2, <3>1, <3>2, <3>3
    <2> QED
      BY <2>1, <2>2
  <1> HIDE DEF r
  <1>4. /\ saving' = [b \in Admins |-> saving'[b]] /\ saving'[a] = r
        /\ \A b \in Admins \ {a} : saving'[b] = saving[b]
    BY <1>2 DEF ScheduleInv
  <1>5. /\ Schedule(setting') /\ setting'[KEYS[n]] = next[KEYS[n]]
        /\ \A i \in 1..6 : i # n => setting'[KEYS[i]] = setting[KEYS[i]]
    <2>1. \A i \in 1..6 : i = 1 \/ i = 2 \/ i = 3 \/ i = 4 \/ i = 5 \/ i = 6
      OBVIOUS
    <2>2. \A i \in 1..6 : KEYS[i] \in Keys
      BY <2>1, KeyFacts
    <2>3. \A i \in 1..6 : i # n => KEYS[i] # KEYS[n]
      BY <1>1, <2>1, KeyFacts
    <2>4. setting = [k \in Keys |-> setting[k]]
      BY DEF ScheduleInv, Schedule
    <2> QED
      BY <1>1, <1>2, <2>2, <2>3, <2>4 DEF Schedule
  <1>6. WithinLimits(setting)'
    <2>1. \A i \in 1..6 : setting'[KEYS[i]] \in {setting[KEYS[i]], next[KEYS[i]]}
      BY <1>5
    <2>2. /\ setting'.workStart \in {setting.workStart, next.workStart}
          /\ setting'.workEnd \in {setting.workEnd, next.workEnd}
          /\ setting'.slotMinutes \in {setting.slotMinutes, next.slotMinutes}
          /\ setting'.slotCapacity \in {setting.slotCapacity, next.slotCapacity}
          /\ setting'.workingDays \in {setting.workingDays, next.workingDays}
          /\ setting'.timeZone \in {setting.timeZone, next.timeZone}
      BY <2>1, KeyFacts
    <2> QED
      BY <1>1, <2>2 DEF WithinLimits, Workable, ScheduleInv
  <1>7. \A b \in Admins : saving'[b] # NotSaving =>
          /\ saving'[b] = [next |-> saving'[b].next, key |-> saving'[b].key]
          /\ saving'[b].key \in 1..6
          /\ Schedule(saving'[b].next) /\ Workable(saving'[b].next)
    BY <1>1, <1>3, <1>4 DEF ScheduleInv, Schedule
  <1>8. ~torn => /\ \A b \in Admins \ {a} : saving[b] = NotSaving
                 /\ \A i \in 1..6 : i < n => setting[KEYS[i]] = next[KEYS[i]]
    <2>1. saving[a].key = n /\ saving[a].next = next /\ saving[a] # NotSaving
      BY <1>1 DEF SaveKey
    <2>2. ~torn => OnItsWay(a)
      BY <2>1 DEF ScheduleInv
    <2> QED
      BY <2>1, <2>2 DEF OnItsWay
  <1>9. ~torn => \A i \in 1..6 : i <= n => setting'[KEYS[i]] = next[KEYS[i]]
    <2>1. \A i \in 1..6 : i <= n => i = n \/ i < n
      BY <1>1
    <2> QED
      BY <1>1, <1>5, <1>8, <2>1
  <1>10. ASSUME ~torn', NEW b \in Admins, saving'[b] # NotSaving PROVE OnItsWay(b)'
    <2>1. b = a /\ n # 6
      BY <1>2, <1>3, <1>4, <1>8, <1>10
    <2>2. /\ saving'[b].key = n + 1 /\ saving'[b].next = next /\ n + 1 # 1
          /\ \A c \in Admins \ {b} : saving'[c] = NotSaving
      BY <1>1, <1>2, <1>3, <1>4, <1>8, <1>10, <2>1
    <2>3. \A i \in 1..6 : i < n + 1 => i <= n
      BY <1>1
    <2>4. \A i \in 1..6 : i < n + 1 => setting'[KEYS[i]] = next[KEYS[i]]
      BY <1>2, <1>9, <1>10, <2>3
    <2> QED
      BY <2>2, <2>4 DEF OnItsWay, NotSaving
  <1>11. ASSUME ~torn', \A b \in Admins : saving'[b] = NotSaving PROVE Workable(setting')
    <2>1. n = 6
      BY <1>3, <1>4, <1>11
    <2>2. \A i \in 1..6 : setting'[KEYS[i]] = next[KEYS[i]]
      BY <1>2, <1>9, <1>11, <2>1
    <2> QED
      BY <1>1, <2>2, SameKeys
  <1> QED
    BY <1>2, <1>4, <1>5, <1>6, <1>7, <1>10, <1>11 DEF ScheduleInv, Schedule, Workable

LEMMA CutShortKeeps ==
  ASSUME ScheduleInv, NEW a \in Admins, CutShort(a)
  PROVE  ScheduleInv'
  <1>1. /\ saving' = [b \in Admins |-> saving'[b]] /\ saving'[a] = NotSaving
        /\ \A b \in Admins \ {a} : saving'[b] = saving[b]
        /\ setting' = setting
    BY DEF CutShort, ScheduleInv
  <1>2. /\ torn' \in BOOLEAN
        /\ ~torn' => ~torn /\ saving[a].key = 1
    <2>1. torn \in BOOLEAN /\ saving[a].key \in 1..6 /\ torn' = (torn \/ saving[a].key > 1)
      BY DEF CutShort, ScheduleInv
    <2>2. saving[a].key > 1 \/ saving[a].key = 1
      BY <2>1
    <2> QED
      BY <2>1, <2>2
  <1>3. ~torn' => (\A b \in Admins : saving'[b] = NotSaving) /\ Workable(setting)
    BY <1>1, <1>2 DEF CutShort, ScheduleInv, OnItsWay
  <1> QED
    BY <1>1, <1>2, <1>3 DEF ScheduleInv, Schedule, WithinLimits, Workable

LEMMA ScheduleStep == ScheduleInv /\ [ScheduleNext]_scheduleVars => ScheduleInv'
  <1> SUFFICES ASSUME ScheduleInv, [ScheduleNext]_scheduleVars PROVE ScheduleInv'
    OBVIOUS
  <1>1. CASE UNCHANGED scheduleVars
    BY <1>1 DEF scheduleVars, ScheduleInv, Schedule, WithinLimits, Workable, OnItsWay
  <1>2. CASE ScheduleNext
    BY <1>2, UpdateScheduleKeeps, SaveKeyKeeps, CutShortKeeps DEF ScheduleNext
  <1> QED
    BY <1>1, <1>2

LEMMA ScheduleInvariant == ScheduleSpec => []ScheduleInv
  BY ScheduleStarts, ScheduleStep, PTL DEF ScheduleSpec

\* The six keys are always the whole schedule, each within its own limits.
THEOREM ScheduleTypeCorrect == ScheduleSpec => []ScheduleTypeOK
  <1>1. ASSUME ScheduleInv PROVE ScheduleTypeOK
    <2>1. DOMAIN setting = Keys
      BY <1>1 DEF ScheduleInv, Schedule
    <2>2. \A a \in Admins : saving[a].key \in 0..Len(KEYS)
      BY <1>1, KeyFacts DEF ScheduleInv, NotSaving
    <2> QED
      BY <1>1, <2>1, <2>2 DEF ScheduleInv, ScheduleTypeOK, WithinLimits
  <1> QED
    BY <1>1, ScheduleInvariant, PTL

\* Whatever the limits and the edits, saves that neither overlapped nor were cut
\* short leave hours to book.
THEOREM HoursStay == ScheduleSpec => []HoursToBook
  <1>1. ASSUME ScheduleInv PROVE HoursToBook
    <2>1. Workable(setting) => Slots(setting) # {}
      BY WorkableHasSlots
    <2> QED
      BY <1>1, <2>1 DEF ScheduleInv, HoursToBook, Saving
  <1> QED
    BY <1>1, ScheduleInvariant, PTL

-----------------------------------------------------------------------------
(***************************************************************************)
(* Appraisals, for every set of reviewers, ratings and requests.  That a   *)
(* completed appraisal was reviewed by everybody holds however requests    *)
(* overlap, because a review once given stays given; the rest needs each   *)
(* request to have the rows to itself.                                     *)
(***************************************************************************)

Reviewing(job) == job.pc \in {"submit", "marked", "counted", "rated"}

OthersGave(r) == \A s \in Reviewers \ {r} : review[s] # Null

\* What stays true of a request whatever the others do.
Heard(q) ==
  /\ Reviewing(form[q]) => /\ form[q].who \in Reviewers /\ form[q].rating \in Ratings
                           /\ appraisal # NoAppraisal
  /\ form[q].pc \in {"counted", "rated"} /\ form[q].last => OthersGave(form[q].who)
  /\ form[q].pc = "rated" => form[q].last
  /\ form[q].pc = "cycle" => form[q].to \in CycleStatuses

\* What is true of a request that has been alone.
Fresh(q) ==
  /\ Reviewing(form[q]) => review[form[q].who] = Null
  /\ form[q].pc = "counted" => (form[q].last <=> OthersGave(form[q].who))
  /\ form[q].pc = "rated" =>
       form[q].overall = Average([review EXCEPT ![form[q].who] = form[q].rating])
  /\ form[q].pc = "cycle" /\ form[q].to = "CLOSED" => appraisal.status \in {Null, "COMPLETED"}
  /\ form[q].pc = "create" => cycle # "CLOSED"

LoneForm == \A p, q \in Requests : form[p] # NoForm /\ form[q] # NoForm => p = q

AppraisalsInv ==
  /\ AppraisalsTypeOK
  /\ appraisal.status = Null => appraisal = NoAppraisal
  /\ \A q \in Requests : Heard(q)
  /\ ~formsCrossed => LoneForm /\ \A q \in Requests : form[q] # NoForm => Fresh(q)
  /\ CompletedWasReviewed /\ LastReviewCompletes /\ ClosedMeansReviewed

-----------------------------------------------------------------------------
LEMMA NoFormFacts == NoForm \in Form /\ NoForm.pc = "idle"
  BY DEF NoForm, Form

\* No average is above five.
LEMMA AverageFacts ==
  ASSUME NEW rating \in [Reviewers -> 1..5]
  PROVE  Average(rating) \in 0..500
  <1>1. PICK n \in Nat \ {0} : n = Cardinality(Reviewers)
    BY AppraisalsAssumption, FS_CardinalityType, FS_EmptySet
  <1>2. PICK s \in Nat : s = MapThenSumSet(LAMBDA r : rating[r], Reviewers) /\ s <= 5 * n
    <2>1. rating \in [Reviewers -> Nat] /\ \A r \in Reviewers : rating[r] <= 5
      OBVIOUS
    <2>2. MapThenSumSet(LAMBDA r : rating[r], Reviewers) \in Nat
      BY <2>1, AppraisalsAssumption, SumIsNat
    <2>3. MapThenSumSet(LAMBDA r : rating[r], Reviewers) <= 5 * Cardinality(Reviewers)
      BY <2>1, AppraisalsAssumption, SumBound
    <2> QED
      BY <1>1, <2>2, <2>3
  <1>3. PICK x \in Nat, y \in Nat \ {0} : x = s * 200 + n /\ y = 2 * n /\ x <= 501 * y - 1
    <2>1. s * 200 + n \in Nat /\ 2 * n \in Nat \ {0} /\ s * 200 + n <= 501 * (2 * n) - 1
      BY <1>1, <1>2
    <2> QED
      BY <2>1
  <1>4. x \div y \in Nat /\ x \div y <= 501 - 1
    <2>1. 501 \in Nat \ {0}
      OBVIOUS
    <2> QED
      BY <1>3, <2>1, DayFacts
  <1>5. Average(rating) = x \div y
    <2> DEFINE sum == MapThenSumSet(LAMBDA r : rating[r], Reviewers)
               size == Cardinality(Reviewers)
    <2>1. Average(rating) = (sum * 200 + size) \div (2 * size)
      BY DEF Average
    <2>2. sum = s /\ size = n
      BY <1>1, <1>2
    <2> HIDE DEF sum, size
    <2> QED
      BY <1>3, <2>1, <2>2
  <1> QED
    BY <1>4, <1>5

LEMMA AppraisalsStart == AppraisalsInit => AppraisalsInv
  <1> SUFFICES ASSUME AppraisalsInit PROVE AppraisalsInv
    OBVIOUS
  <1>1. AppraisalsTypeOK
    <2>1. NoAppraisal \in [status : AppraisalStatuses \cup {Null}, overall : 0..500]
      BY DEF NoAppraisal
    <2>2. /\ cycle = Null /\ appraisal = NoAppraisal /\ review = [r \in Reviewers |-> Null]
          /\ form = [q \in Requests |-> NoForm] /\ formsCrossed = FALSE
      BY DEF AppraisalsInit
    <2> QED
      BY <2>1, <2>2, NoFormFacts DEF AppraisalsTypeOK
  <1>2. \A q \in Requests : Heard(q)
    BY NoFormFacts DEF AppraisalsInit, Heard, Reviewing
  <1>3. LoneForm
    BY DEF AppraisalsInit, LoneForm
  <1>4. CompletedWasReviewed /\ ClosedMeansReviewed
    BY StatusesAssumption
       DEF AppraisalsInit, CompletedWasReviewed, ClosedMeansReviewed, NoAppraisal,
           AppraisalStatuses
  <1>5. LastReviewCompletes
    BY AppraisalsAssumption DEF AppraisalsInit, LastReviewCompletes, AllSubmitted
  <1> QED
    BY <1>1, <1>2, <1>3, <1>4, <1>5 DEF AppraisalsInv, AppraisalsInit

\* One request takes a step: a review once given stays, an appraisal once made stays, and
\* the others' facts with them.
LEMMA FormKeeps ==
  ASSUME AppraisalsInv, NEW q \in Requests, NEW job \in Form,
         form' = [form EXCEPT ![q] = job],
         cycle' \in CycleStatuses \cup {Null},
         appraisal' \in [status : AppraisalStatuses \cup {Null}, overall : 0..500],
         review' \in [Reviewers -> Ratings \cup {Null}],
         formsCrossed' \in BOOLEAN,
         \A r \in Reviewers : review[r] # Null => review'[r] # Null,
         appraisal # NoAppraisal => appraisal' # NoAppraisal,
         appraisal'.status = Null => appraisal' = NoAppraisal,
         ~formsCrossed' => ~formsCrossed /\ \A p \in Requests \ {q} : form[p] = NoForm,
         Heard(q)', ~formsCrossed' /\ job # NoForm => Fresh(q)',
         CompletedWasReviewed', LastReviewCompletes', ClosedMeansReviewed'
  PROVE  AppraisalsInv'
  <1>1. /\ form' \in [Requests -> Form] /\ form'[q] = job
        /\ \A p \in Requests \ {q} : form'[p] = form[p]
    BY DEF AppraisalsInv, AppraisalsTypeOK
  <1>2. ASSUME NEW p \in Requests, p # q PROVE Heard(p)'
    <2>1. Heard(p) /\ form'[p] = form[p]
      BY <1>1, <1>2 DEF AppraisalsInv
    <2> QED
      BY <2>1 DEF Heard, Reviewing, OthersGave
  <1>3. ~formsCrossed' => LoneForm'
    BY <1>1 DEF LoneForm
  <1>4. ASSUME ~formsCrossed', NEW p \in Requests, form'[p] # NoForm PROVE Fresh(p)'
    <2>1. p = q /\ job # NoForm
      BY <1>1, <1>4
    <2> QED
      BY <1>4, <2>1
  <1>5. \A p \in Requests : Heard(p)'
    BY <1>2
  <1>6. AppraisalsTypeOK'
    BY <1>1 DEF AppraisalsTypeOK
  <1> QED
    BY <1>3, <1>4, <1>5, <1>6 DEF AppraisalsInv

\* A step of a request at work, if it has been alone, is still alone.
LEMMA StillAlone ==
  ASSUME AppraisalsInv, NEW q \in Requests, form[q] # NoForm, formsCrossed' = formsCrossed
  PROVE  /\ formsCrossed' \in BOOLEAN
         /\ ~formsCrossed' => /\ ~formsCrossed /\ \A p \in Requests \ {q} : form[p] = NoForm
                              /\ Fresh(q)
  BY DEF AppraisalsInv, AppraisalsTypeOK, LoneForm

-----------------------------------------------------------------------------
LEMMA CreateCycleKeeps ==
  ASSUME AppraisalsInv, CreateCycle
  PROVE  AppraisalsInv'
  <1>1. UNCHANGED <<appraisal, review, form, formsCrossed>> /\ cycle' = "DRAFT"
    BY DEF CreateCycle
  <1>2. AppraisalsTypeOK'
    BY <1>1 DEF AppraisalsInv, AppraisalsTypeOK, CycleStatuses, CYCLE_TRANSITIONS
  <1>3. ASSUME NEW q \in Requests PROVE Heard(q)' /\ (Fresh(q) => Fresh(q)')
    <2>1. Heard(q)
      BY DEF AppraisalsInv
    <2> QED
      BY <1>1, <2>1 DEF Heard, Reviewing, OthersGave, Fresh
  <1>4. CompletedWasReviewed' /\ LastReviewCompletes' /\ ClosedMeansReviewed'
    BY <1>1 DEF AppraisalsInv, CompletedWasReviewed, LastReviewCompletes, ClosedMeansReviewed,
                AllSubmitted
  <1> QED
    BY <1>1, <1>2, <1>3, <1>4 DEF AppraisalsInv, LoneForm

\* Nothing but the request itself changes.
LEMMA QuietKeeps ==
  ASSUME AppraisalsInv, NEW q \in Requests, NEW job \in Form,
         form' = [form EXCEPT ![q] = job], UNCHANGED <<cycle, appraisal, review>>,
         formsCrossed' \in BOOLEAN,
         ~formsCrossed' => ~formsCrossed /\ \A p \in Requests \ {q} : form[p] = NoForm,
         Heard(q)', ~formsCrossed' /\ job # NoForm => Fresh(q)'
  PROVE  AppraisalsInv'
  <1>1. CompletedWasReviewed' /\ LastReviewCompletes' /\ ClosedMeansReviewed'
    BY DEF AppraisalsInv, CompletedWasReviewed, LastReviewCompletes, ClosedMeansReviewed,
           AllSubmitted
  <1>2. /\ cycle' \in CycleStatuses \cup {Null}
        /\ appraisal' \in [status : AppraisalStatuses \cup {Null}, overall : 0..500]
        /\ review' \in [Reviewers -> Ratings \cup {Null}]
        /\ \A r \in Reviewers : review[r] # Null => review'[r] # Null
        /\ appraisal # NoAppraisal => appraisal' # NoAppraisal
        /\ appraisal'.status = Null => appraisal' = NoAppraisal
    BY DEF AppraisalsInv, AppraisalsTypeOK
  <1> QED
    BY <1>1, <1>2, FormKeeps

\* A request begins.
LEMMA StartKeeps ==
  ASSUME AppraisalsInv, NEW q \in Requests, NEW job \in Form, Start(q, job),
         \/ /\ job.pc = "cycle" /\ job.to \in CycleStatuses
            /\ job.to = "CLOSED" => appraisal.status \in {Null, "COMPLETED"}
         \/ job.pc = "create" /\ cycle # "CLOSED"
         \/ /\ job.pc = "submit" /\ job.who \in Reviewers /\ job.rating \in Ratings
            /\ appraisal # NoAppraisal /\ review[job.who] = Null
  PROVE  AppraisalsInv'
  <1>1. /\ form' = [form EXCEPT ![q] = job] /\ UNCHANGED <<cycle, appraisal, review>>
        /\ formsCrossed' \in BOOLEAN
        /\ ~formsCrossed' => ~formsCrossed /\ \A p \in Requests \ {q} : form[p] = NoForm
    BY DEF Start, AppraisalsInv, AppraisalsTypeOK
  <1>2. form'[q] = job
    BY <1>1 DEF AppraisalsInv, AppraisalsTypeOK
  <1>3. Heard(q)' /\ Fresh(q)'
    BY <1>1, <1>2 DEF Heard, Fresh, Reviewing
  <1> QED
    BY <1>1, <1>3, QuietKeeps

LEMMA BeginKeeps ==
  ASSUME AppraisalsInv, NEW q \in Requests,
         \/ \E to \in CycleStatuses : UpdateCycleStatus(q, to)
         \/ CreateAppraisal(q)
         \/ \E r \in Reviewers, rating \in Ratings : SubmitReview(q, r, rating)
  PROVE  AppraisalsInv'
  <1>1. CASE \E to \in CycleStatuses : UpdateCycleStatus(q, to)
    <2>1. PICK to \in CycleStatuses : UpdateCycleStatus(q, to)
      BY <1>1
    <2> DEFINE r == [NoForm EXCEPT !.pc = "cycle", !.to = to]
    <2>2. r \in Form /\ r.pc = "cycle" /\ r.to = to
      BY NoFormFacts DEF Form
    <2> HIDE DEF r
    <2>3. /\ Start(q, r)
          /\ r.to = "CLOSED" => appraisal.status \in {Null, "COMPLETED"}
      BY <2>1, <2>2 DEF UpdateCycleStatus, r
    <2> QED
      BY <2>2, <2>3, StartKeeps
  <1>2. CASE CreateAppraisal(q)
    <2> DEFINE r == [NoForm EXCEPT !.pc = "create"]
    <2>1. r \in Form /\ r.pc = "create"
      BY NoFormFacts DEF Form
    <2> HIDE DEF r
    <2>2. Start(q, r) /\ cycle # "CLOSED"
      BY <1>2 DEF CreateAppraisal, r
    <2> QED
      BY <2>1, <2>2, StartKeeps
  <1>3. CASE \E r \in Reviewers, rating \in Ratings : SubmitReview(q, r, rating)
    <2>1. PICK r \in Reviewers, rating \in Ratings : SubmitReview(q, r, rating)
      BY <1>3
    <2> DEFINE s == [NoForm EXCEPT !.pc = "submit", !.who = r, !.rating = rating]
    <2>2. s \in Form /\ s.pc = "submit" /\ s.who = r /\ s.rating = rating
      <3>1. r \in Reviewers \cup {Null} /\ rating \in 0..5
        BY AppraisalsAssumption
      <3>2. s \in Form
        BY <3>1, NoFormFacts DEF Form
      <3>3. s.pc = "submit" /\ s.who = r /\ s.rating = rating
        BY NoFormFacts DEF Form
      <3> QED
        BY <3>2, <3>3
    <2> HIDE DEF s
    <2>3. Start(q, s) /\ appraisal # NoAppraisal /\ review[s.who] = Null
      BY <2>1, <2>2 DEF SubmitReview, s
    <2> QED
      BY <2>2, <2>3, StartKeeps
  <1> QED
    BY <1>1, <1>2, <1>3

\* A request reads on.
LEMMA ReadKeeps ==
  ASSUME AppraisalsInv, NEW q \in Requests, Mark(q) \/ Count(q) \/ Rate(q)
  PROVE  AppraisalsInv'
  <1>1. form[q] # NoForm /\ form[q] \in Form /\ Heard(q) /\ Reviewing(form[q])
    BY NoFormFacts DEF Mark, Count, Rate, AppraisalsInv, AppraisalsTypeOK, Reviewing
  <1>2. UNCHANGED <<cycle, appraisal, review>> /\ formsCrossed' = formsCrossed
    BY DEF Mark, Count, Rate
  <1>3. /\ formsCrossed' \in BOOLEAN
        /\ ~formsCrossed' => /\ ~formsCrossed /\ \A p \in Requests \ {q} : form[p] = NoForm
                             /\ Fresh(q)
    BY <1>1, <1>2, StillAlone
  <1>4. form \in [Requests -> Form]
    BY DEF AppraisalsInv, AppraisalsTypeOK
  <1>5. CASE Mark(q)
    <2> DEFINE r == [form[q] EXCEPT !.pc = "marked"]
    <2>1. /\ r \in Form /\ r.pc = "marked" /\ r.who = form[q].who /\ r.rating = form[q].rating
          /\ form' = [form EXCEPT ![q] = r]
      <3>1. r \in Form
        BY <1>1 DEF Form
      <3>2. r.pc = "marked" /\ r.who = form[q].who /\ r.rating = form[q].rating
        BY <1>1 DEF Form
      <3>3. form' = [form EXCEPT ![q] = r]
        BY <1>4, <1>5 DEF Mark, Form
      <3> QED
        BY <3>1, <3>2, <3>3
    <2> HIDE DEF r
    <2>2. form'[q] = r
      BY <1>4, <2>1
    <2>3. Heard(q)' /\ (~formsCrossed' => Fresh(q)')
      BY <1>1, <1>2, <1>3, <2>1, <2>2 DEF Heard, Fresh, Reviewing
    <2> QED
      BY <1>2, <1>3, <2>1, <2>3, QuietKeeps
  <1>6. CASE Count(q)
    <2> DEFINE whole == \A s \in Reviewers \ {form[q].who} : review[s] # Null
    <2>1. whole \in BOOLEAN /\ (whole <=> OthersGave(form[q].who))
      BY DEF OthersGave
    <2>a. form' = [form EXCEPT ![q].pc = "counted", ![q].last = whole]
      BY <1>6 DEF Count
    <2> HIDE DEF whole
    <2> DEFINE r == [form[q] EXCEPT !.pc = "counted", !.last = whole]
    <2>2. /\ r \in Form /\ r.pc = "counted" /\ r.who = form[q].who /\ r.rating = form[q].rating
          /\ r.last = whole /\ form' = [form EXCEPT ![q] = r]
      <3>1. r \in Form
        BY <1>1, <2>1 DEF Form
      <3>2. /\ r.pc = "counted" /\ r.who = form[q].who /\ r.rating = form[q].rating
            /\ r.last = whole
        BY <1>1 DEF Form
      <3>3. form' = [form EXCEPT ![q] = r]
        <4>1. form' = [form EXCEPT ![q].pc = "counted", ![q].last = whole]
          BY <2>a
        <4>2. whole \in BOOLEAN
          BY <2>1
        <4>3. [form EXCEPT ![q].pc = "counted", ![q].last = whole] = [form EXCEPT ![q] = r]
          BY <1>4, <4>2 DEF Form
        <4> QED
          BY <4>1, <4>3
      <3> QED
        BY <3>1, <3>2, <3>3
    <2>3. r.last <=> OthersGave(form[q].who)
      BY <2>1, <2>2
    <2> HIDE DEF r
    <2>4. form'[q] = r
      BY <1>4, <2>2
    <2>5. OthersGave(form[q].who)' <=> OthersGave(form[q].who)
      BY <1>2, <2>2, <2>4 DEF OthersGave
    <2>6. form'[q].last <=> OthersGave(form[q].who)'
      BY <2>3, <2>4, <2>5
    <2>7. Heard(q)' /\ (~formsCrossed' => Fresh(q)')
      <3>1. /\ form'[q].pc = "counted" /\ form'[q].who = form[q].who
            /\ form'[q].rating = form[q].rating
        BY <2>2, <2>4
      <3>2. Heard(q)'
        BY <1>1, <1>2, <2>6, <3>1 DEF Heard, Reviewing
      <3>3. ~formsCrossed' => Fresh(q)'
        BY <1>1, <1>2, <1>3, <2>6, <3>1 DEF Fresh, Reviewing
      <3> QED
        BY <3>2, <3>3
    <2> QED
      BY <1>2, <1>3, <2>2, <2>7, QuietKeeps
  <1>7. CASE Rate(q)
    <2>1. form[q].pc = "counted" /\ form[q].last /\ OthersGave(form[q].who)
      BY <1>1, <1>7 DEF Rate, Heard
    <2> DEFINE ratings == [review EXCEPT ![form[q].who] = form[q].rating]
    <2>2. Average(ratings) \in 0..500
      <3>1. form[q].who \in Reviewers /\ form[q].rating \in 1..5
        BY <1>1, AppraisalsAssumption DEF Heard
      <3>2. review \in [Reviewers -> Ratings \cup {Null}]
        BY DEF AppraisalsInv, AppraisalsTypeOK
      <3>3. \A s \in Reviewers : s # form[q].who => review[s] \in 1..5
        BY <2>1, <3>2, AppraisalsAssumption DEF OthersGave
      <3>4. ratings \in [Reviewers -> 1..5]
        BY <3>1, <3>2, <3>3
      <3> HIDE DEF ratings
      <3> QED
        BY <3>4, AverageFacts
    <2>3. PICK mark \in 0..500 : mark = Average(ratings)
      BY <2>2
    <2>4. form' = [form EXCEPT ![q].pc = "rated", ![q].overall = mark]
      BY <1>7, <2>3 DEF Rate
    <2> DEFINE r == [form[q] EXCEPT !.pc = "rated", !.overall = mark]
    <2>5. /\ r \in Form /\ r.pc = "rated" /\ r.who = form[q].who /\ r.rating = form[q].rating
          /\ r.last = form[q].last /\ r.overall = mark /\ form' = [form EXCEPT ![q] = r]
      <3>1. r \in Form
        BY <1>1 DEF Form
      <3>2. /\ r.pc = "rated" /\ r.who = form[q].who /\ r.rating = form[q].rating
            /\ r.last = form[q].last /\ r.overall = mark
        BY <1>1 DEF Form
      <3>3. form' = [form EXCEPT ![q] = r]
        BY <1>4, <2>4 DEF Form
      <3> QED
        BY <3>1, <3>2, <3>3
    <2> HIDE DEF r
    <2>6. form'[q] = r
      BY <1>4, <2>5
    <2>7. Heard(q)' /\ (~formsCrossed' => Fresh(q)')
      <3>1. Heard(q)'
        BY <1>1, <1>2, <2>1, <2>5, <2>6 DEF Heard, Reviewing, OthersGave
      <3>2. Average([review EXCEPT ![form[q].who] = form[q].rating])'
              = Average([review EXCEPT ![form[q].who] = form[q].rating])
        BY <1>2, <2>5, <2>6
      <3> QED
        BY <1>1, <1>2, <1>3, <2>3, <2>5, <2>6, <3>1, <3>2 DEF Fresh, Reviewing
    <2> QED
      BY <1>2, <1>3, <2>5, <2>7, QuietKeeps
  <1> QED
    BY <1>5, <1>6, <1>7

\* A request ends and leaves the rows as they are.
LEMMA DropFormKeeps ==
  ASSUME AppraisalsInv, NEW q \in Requests, Drop(q)
  PROVE  AppraisalsInv'
  <1>1. /\ form[q] # NoForm /\ form' = [form EXCEPT ![q] = NoForm]
        /\ UNCHANGED <<cycle, appraisal, review>> /\ formsCrossed' = formsCrossed
    BY DEF Drop, Finish
  <1>2. form'[q] = NoForm
    BY <1>1 DEF AppraisalsInv, AppraisalsTypeOK
  <1>3. Heard(q)'
    BY <1>2, NoFormFacts DEF Heard, Reviewing
  <1>4. /\ formsCrossed' \in BOOLEAN
        /\ ~formsCrossed' => ~formsCrossed /\ \A p \in Requests \ {q} : form[p] = NoForm
    BY <1>1, StillAlone
  <1> QED
    BY <1>1, <1>3, <1>4, NoFormFacts, QuietKeeps

LEMMA WriteCycleKeeps ==
  ASSUME AppraisalsInv, NEW q \in Requests, WriteCycle(q)
  PROVE  AppraisalsInv'
  <1>1. /\ form[q].pc = "cycle" /\ form[q] # NoForm /\ cycle' = form[q].to
        /\ form' = [form EXCEPT ![q] = NoForm]
        /\ UNCHANGED <<appraisal, review>> /\ formsCrossed' = formsCrossed
    BY NoFormFacts DEF WriteCycle, Finish
  <1>2. form'[q] = NoForm
    BY <1>1 DEF AppraisalsInv, AppraisalsTypeOK
  <1>3. Heard(q)'
    BY <1>2, NoFormFacts DEF Heard, Reviewing
  <1>4. /\ formsCrossed' \in BOOLEAN
        /\ ~formsCrossed' => /\ ~formsCrossed /\ \A p \in Requests \ {q} : form[p] = NoForm
                             /\ Fresh(q)
    BY <1>1, StillAlone
  <1>5. cycle' \in CycleStatuses
    BY <1>1 DEF AppraisalsInv, Heard
  <1>6. CompletedWasReviewed' /\ LastReviewCompletes'
    BY <1>1 DEF AppraisalsInv, CompletedWasReviewed, LastReviewCompletes, AllSubmitted
  <1>7. ClosedMeansReviewed'
    BY <1>1, <1>4 DEF ClosedMeansReviewed, Fresh
  <1>8. /\ appraisal' \in [status : AppraisalStatuses \cup {Null}, overall : 0..500]
        /\ review' \in [Reviewers -> Ratings \cup {Null}]
        /\ \A r \in Reviewers : review[r] # Null => review'[r] # Null
        /\ appraisal # NoAppraisal => appraisal' # NoAppraisal
        /\ appraisal'.status = Null => appraisal' = NoAppraisal
    BY <1>1 DEF AppraisalsInv, AppraisalsTypeOK
  <1> QED
    BY <1>1, <1>3, <1>4, <1>5, <1>6, <1>7, <1>8, NoFormFacts, FormKeeps

LEMMA InsertAppraisalKeeps ==
  ASSUME AppraisalsInv, NEW q \in Requests, InsertAppraisal(q)
  PROVE  AppraisalsInv'
  <1> DEFINE new == [status |-> "PENDING", overall |-> 0]
  <1>1. /\ form[q].pc = "create" /\ form[q] # NoForm
        /\ appraisal' = IF appraisal = NoAppraisal THEN new ELSE appraisal
        /\ form' = [form EXCEPT ![q] = NoForm]
        /\ UNCHANGED <<cycle, review>> /\ formsCrossed' = formsCrossed
    BY NoFormFacts DEF InsertAppraisal, Finish
  <1>2. form'[q] = NoForm
    BY <1>1 DEF AppraisalsInv, AppraisalsTypeOK
  <1>3. Heard(q)'
    BY <1>2, NoFormFacts DEF Heard, Reviewing
  <1>4. /\ formsCrossed' \in BOOLEAN
        /\ ~formsCrossed' => /\ ~formsCrossed /\ \A p \in Requests \ {q} : form[p] = NoForm
                             /\ Fresh(q)
    BY <1>1, StillAlone
  <1>5. /\ new \in [status : AppraisalStatuses \cup {Null}, overall : 0..500]
        /\ new.status = "PENDING" /\ NoAppraisal.status = Null /\ Null # "PENDING"
    BY StatusesAssumption DEF NoAppraisal, AppraisalStatuses
  <1> HIDE DEF new
  <1>6. /\ appraisal' \in [status : AppraisalStatuses \cup {Null}, overall : 0..500]
        /\ appraisal'.status # Null /\ appraisal' # NoAppraisal
    BY <1>1, <1>5 DEF AppraisalsInv, AppraisalsTypeOK
  <1>7. CompletedWasReviewed'
    BY <1>1, <1>5 DEF AppraisalsInv, CompletedWasReviewed, AllSubmitted
  <1>8. LastReviewCompletes'
    <2> SUFFICES ASSUME ~formsCrossed', AllSubmitted'
                 PROVE  (appraisal = [status |-> "COMPLETED", overall |-> Average(review)])'
      BY DEF LastReviewCompletes
    <2> DEFINE done == [status |-> "COMPLETED", overall |-> Average(review)]
    <2>1. done.status = "COMPLETED"
      OBVIOUS
    <2>2. appraisal = done
      BY <1>1 DEF AppraisalsInv, LastReviewCompletes, AllSubmitted
    <2>3. done' = done
      BY <1>1
    <2> HIDE DEF done
    <2>4. appraisal # NoAppraisal
      BY <1>5, <2>1, <2>2, StatusesAssumption DEF AppraisalStatuses
    <2>5. appraisal' = done'
      BY <1>1, <2>2, <2>3, <2>4
    <2> QED
      BY <2>5 DEF done
  <1>9. ClosedMeansReviewed'
    BY <1>1, <1>4 DEF ClosedMeansReviewed, Fresh
  <1>10. /\ cycle' \in CycleStatuses \cup {Null}
         /\ review' \in [Reviewers -> Ratings \cup {Null}]
         /\ \A r \in Reviewers : review[r] # Null => review'[r] # Null
    BY <1>1 DEF AppraisalsInv, AppraisalsTypeOK
  <1> QED
    BY <1>1, <1>3, <1>4, <1>6, <1>7, <1>8, <1>9, <1>10, NoFormFacts, FormKeeps

\* The review is in, and the appraisal with it.
LEMMA SaveKeeps ==
  ASSUME AppraisalsInv, NEW q \in Requests, Postpone(q) \/ Complete(q)
  PROVE  AppraisalsInv'
  <1>1. /\ form[q].pc \in {"counted", "rated"} /\ form[q] # NoForm /\ form[q] \in Form
        /\ review' = [review EXCEPT ![form[q].who] = form[q].rating]
        /\ form' = [form EXCEPT ![q] = NoForm]
        /\ cycle' = cycle /\ formsCrossed' = formsCrossed
    BY NoFormFacts DEF Postpone, Complete, Save, Finish, AppraisalsInv, AppraisalsTypeOK
  <1>2. /\ form[q].who \in Reviewers /\ form[q].rating \in Ratings /\ form[q].rating # Null
        /\ appraisal # NoAppraisal /\ appraisal.status # Null
        /\ review \in [Reviewers -> Ratings \cup {Null}]
        /\ form[q].pc = "rated" => OthersGave(form[q].who)
    BY <1>1, AppraisalsAssumption DEF AppraisalsInv, AppraisalsTypeOK, Heard, Reviewing
  <1>3. /\ review' \in [Reviewers -> Ratings \cup {Null}]
        /\ review'[form[q].who] # Null
        /\ \A r \in Reviewers : r # form[q].who => review'[r] = review[r]
    BY <1>1, <1>2
  <1>4. /\ formsCrossed' \in BOOLEAN
        /\ ~formsCrossed' => /\ ~formsCrossed /\ \A p \in Requests \ {q} : form[p] = NoForm
                             /\ Fresh(q)
    BY <1>1, StillAlone
  <1>5. form'[q] = NoForm
    BY <1>1 DEF AppraisalsInv, AppraisalsTypeOK
  <1>6. Heard(q)'
    BY <1>5, NoFormFacts DEF Heard, Reviewing
  <1>7. ~formsCrossed' => cycle # "CLOSED"
    <2>1. SUFFICES ASSUME ~formsCrossed', cycle = "CLOSED" PROVE FALSE
      OBVIOUS
    <2>2. review[form[q].who] = Null /\ ~AllSubmitted
      BY <1>1, <1>2, <1>4, <2>1 DEF Fresh, Reviewing, AllSubmitted
    <2>3. appraisal.status # "COMPLETED"
      BY <2>2 DEF AppraisalsInv, CompletedWasReviewed
    <2> QED
      BY <1>2, <1>4, <2>1, <2>3 DEF AppraisalsInv, ClosedMeansReviewed
  <1>8. NoAppraisal.status = Null /\ Null \notin {"IN_PROGRESS", "COMPLETED"}
    BY StatusesAssumption DEF NoAppraisal, AppraisalStatuses
  <1>9. PICK new : /\ new \in [status : AppraisalStatuses \cup {Null}, overall : 0..500]
                   /\ appraisal' = new
                   /\ form[q].pc = "counted" => new.status = "IN_PROGRESS" /\ ~form[q].last
                   /\ form[q].pc = "rated" => new.status = "COMPLETED"
                        /\ new = [status |-> "COMPLETED", overall |-> form[q].overall]
    <2>1. CASE Postpone(q)
      <3> DEFINE new == [appraisal EXCEPT !.status = "IN_PROGRESS"]
      <3>1. appraisal \in [status : AppraisalStatuses \cup {Null}, overall : 0..500]
        BY DEF AppraisalsInv, AppraisalsTypeOK
      <3>2. /\ new \in [status : AppraisalStatuses \cup {Null}, overall : 0..500]
            /\ new.status = "IN_PROGRESS"
        BY <3>1 DEF AppraisalStatuses
      <3>3. appraisal' = new /\ form[q].pc = "counted" /\ ~form[q].last
        BY <2>1 DEF Postpone
      <3> QED
        BY <3>2, <3>3
    <2>2. CASE Complete(q)
      <3> DEFINE new == [status |-> "COMPLETED", overall |-> form[q].overall]
      <3>1. form[q].overall \in 0..500
        BY <1>1 DEF Form
      <3>2. /\ new \in [status : AppraisalStatuses \cup {Null}, overall : 0..500]
            /\ new.status = "COMPLETED"
        BY <3>1 DEF AppraisalStatuses
      <3>3. appraisal' = new /\ form[q].pc = "rated"
        BY <2>2 DEF Complete
      <3> QED
        BY <3>2, <3>3
    <2> QED
      BY <2>1, <2>2
  <1>10. appraisal' # NoAppraisal /\ appraisal'.status # Null
    BY <1>1, <1>8, <1>9
  <1>11. CompletedWasReviewed'
    <2> SUFFICES ASSUME appraisal'.status = "COMPLETED" PROVE AllSubmitted'
      BY DEF CompletedWasReviewed
    <2>1. OthersGave(form[q].who)
      BY <1>1, <1>2, <1>9
    <2> QED
      BY <1>3, <2>1 DEF OthersGave, AllSubmitted
  <1>12. LastReviewCompletes'
    <2> SUFFICES ASSUME ~formsCrossed', AllSubmitted'
                 PROVE  (appraisal = [status |-> "COMPLETED", overall |-> Average(review)])'
      BY DEF LastReviewCompletes
    <2>1. OthersGave(form[q].who)
      BY <1>3 DEF AllSubmitted, OthersGave
    <2>2. form[q].pc = "rated"
      BY <1>1, <1>4, <1>9, <2>1 DEF Fresh
    <2>3. form[q].overall = Average(review')
      BY <1>1, <1>4, <2>2 DEF Fresh
    <2>4. appraisal' = [status |-> "COMPLETED", overall |-> form[q].overall]
      BY <1>9, <2>2
    <2>5. appraisal' = [status |-> "COMPLETED", overall |-> Average(review')]
      BY <2>3, <2>4
    <2> QED
      BY <2>5
  <1>13. ClosedMeansReviewed'
    BY <1>1, <1>7 DEF ClosedMeansReviewed
  <1>14. /\ cycle' \in CycleStatuses \cup {Null}
         /\ appraisal' \in [status : AppraisalStatuses \cup {Null}, overall : 0..500]
         /\ \A r \in Reviewers : review[r] # Null => review'[r] # Null
    BY <1>1, <1>3, <1>9 DEF AppraisalsInv, AppraisalsTypeOK
  <1> QED
    BY <1>1, <1>3, <1>4, <1>6, <1>10, <1>11, <1>12, <1>13, <1>14, NoFormFacts, FormKeeps

-----------------------------------------------------------------------------
LEMMA AppraisalsStep == AppraisalsInv /\ [AppraisalsNext]_appraisalsVars => AppraisalsInv'
  <1> SUFFICES ASSUME AppraisalsInv, [AppraisalsNext]_appraisalsVars PROVE AppraisalsInv'
    OBVIOUS
  <1>1. CASE UNCHANGED appraisalsVars
    BY <1>1 DEF appraisalsVars, AppraisalsInv, AppraisalsTypeOK, Heard, Fresh, Reviewing,
                OthersGave, LoneForm, CompletedWasReviewed, LastReviewCompletes,
                ClosedMeansReviewed, AllSubmitted
  <1>2. CASE AppraisalsNext
    <2>1. CASE CreateCycle
      BY <2>1, CreateCycleKeeps
    <2>2. ASSUME NEW q \in Requests,
                 \/ \E to \in CycleStatuses : UpdateCycleStatus(q, to)
                 \/ WriteCycle(q) \/ CreateAppraisal(q) \/ InsertAppraisal(q)
                 \/ \E r \in Reviewers, rating \in Ratings : SubmitReview(q, r, rating)
                 \/ Mark(q) \/ Count(q) \/ Rate(q) \/ Postpone(q) \/ Complete(q) \/ Drop(q)
          PROVE  AppraisalsInv'
      BY <2>2, BeginKeeps, WriteCycleKeeps, InsertAppraisalKeeps, ReadKeeps, SaveKeeps,
         DropFormKeeps
    <2> QED
      BY <1>2, <2>1, <2>2 DEF AppraisalsNext
  <1> QED
    BY <1>1, <1>2

THEOREM AppraisalsInvariant == AppraisalsSpec => []AppraisalsInv
  BY AppraisalsStart, AppraisalsStep, PTL DEF AppraisalsSpec

\* A completed appraisal was reviewed by all its reviewers, however their
\* requests overlapped; as long as they did not, the last review completes it
\* with the average of all, and a closed cycle leaves none to be given.
THEOREM AppraisalsAreFinished == AppraisalsSpec => []AppraisalsFinish
  <1>1. AppraisalsInv => AppraisalsFinish
    BY DEF AppraisalsInv, AppraisalsFinish
  <1> QED
    BY <1>1, AppraisalsInvariant, PTL

=============================================================================
