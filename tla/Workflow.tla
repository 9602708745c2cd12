------------------------------- MODULE Workflow -------------------------------
(***************************************************************************)
(* One row whose status follows a table of transitions: a project and its  *)
(* milestone (projects.service.ts), an expense request                     *)
(* (hr/expense-requests.service.ts) or an employment                       *)
(* (hr/employees.service.ts).  The three services read the row, check the  *)
(* table and write the row in two statements, with nothing in between.     *)
(* Rows share nothing, so one row of one kind is modelled.                 *)
(***************************************************************************)
EXTENDS FiniteSets, Nulls

CONSTANTS
  Clerks   \* status requests that may be in flight at once

VARIABLES
  kind,       \* which of the three the row is
  row,        \* its status and the dates the status has stamped on it
  milestone,  \* the status of a milestone of a project and its completedAt
  desk,       \* what each clerk has read and is about to write
  stale,      \* clerks who act on a row that has changed since they read it
  desksCrossed     \* history: a stale clerk has written

workflowVars == <<kind, row, milestone, desk, stale, desksCrossed>>

Kinds == {"project", "expense", "employment"}

\* ALLOWED_TRANSITIONS of projects and of expense requests.  An employment has
\* no table: only what is terminated cannot be changed.
ProjectTransitions ==
  [PLANNED |-> {"ACTIVE", "CLOSED"}, ACTIVE |-> {"ON_HOLD", "CLOSED"},
   ON_HOLD |-> {"ACTIVE", "CLOSED"}, CLOSED |-> {}]

ExpenseTransitions ==
  [PENDING |-> {"APPROVED", "REJECTED"}, APPROVED |-> {"REIMBURSED"},
   REJECTED |-> {}, REIMBURSED |-> {}]

Employments == {"ACTIVE", "ON_LEAVE", "TERMINATED"}

EmploymentTransitions ==
  [status \in Employments |-> IF status = "TERMINATED" THEN {} ELSE Employments]

Transitions ==
  [project |-> ProjectTransitions, expense |-> ExpenseTransitions,
   employment |-> EmploymentTransitions]

InitialStatus == [project |-> "PLANNED", expense |-> "PENDING", employment |-> "ACTIVE"]

MilestoneStatuses == {"PENDING", "IN_PROGRESS", "COMPLETED"}

Statuses == UNION {DOMAIN Transitions[k] : k \in Kinds}

ASSUME WorkflowAssumption == Null \notin Statuses

NoRow    == [status |-> Null, decided |-> FALSE, reimbursed |-> FALSE, exited |-> FALSE]
Row      == [status : Statuses \cup {Null}, decided : BOOLEAN, reimbursed : BOOLEAN,
             exited : BOOLEAN]
Idle     == [to |-> Null, decided |-> FALSE]

WorkflowTypeOK ==
  /\ kind \in Kinds
  /\ row \in Row
  /\ milestone \in [status : MilestoneStatuses \cup {Null}, completed : BOOLEAN]
  /\ desk \in [Clerks -> [to : Statuses \cup {Null}, decided : BOOLEAN]]
  /\ stale \subseteq Clerks
  /\ desksCrossed \in BOOLEAN

WorkflowInit ==
  /\ kind \in Kinds
  /\ row = NoRow
  /\ milestone = [status |-> Null, completed |-> FALSE]
  /\ desk = [c \in Clerks |-> Idle]
  /\ stale = {}
  /\ desksCrossed = FALSE

-----------------------------------------------------------------------------
\* create, createForEmployee
CreateRow ==
  /\ row = NoRow
  /\ row' = [NoRow EXCEPT !.status = InitialStatus[kind]]
  /\ UNCHANGED <<kind, milestone, desk, stale, desksCrossed>>

\* MUTANT of RequestStatus: the table is not asked.
RequestStatus_AnyMove(c, to) ==
  /\ row # NoRow
  /\ desk[c] = Idle
  /\ to \in DOMAIN Transitions[kind]
  /\ desk' = [desk EXCEPT ![c] = [to |-> to, decided |-> row.decided]]
  /\ UNCHANGED <<kind, row, milestone, stale, desksCrossed>>

\* updateStatus, updateEmploymentStatus: the check ...
RequestStatus(c, to) ==
  /\ row # NoRow
  /\ desk[c] = Idle
  /\ to \in Transitions[kind][row.status]
  /\ desk' = [desk EXCEPT ![c] = [to |-> to, decided |-> row.decided]]
  /\ UNCHANGED <<kind, row, milestone, stale, desksCrossed>>

\* ... and the write.  The date of the decision is the one that was read unless
\* the request is a decision itself; the other dates are only ever set.
WriteStatus(c) ==
  LET to == desk[c].to
  IN  /\ desk[c] # Idle
      /\ row' = [status     |-> to,
                 decided    |-> to \in {"APPROVED", "REJECTED"} \/ desk[c].decided,
                 reimbursed |-> to = "REIMBURSED" \/ row.reimbursed,
                 exited     |-> to = "TERMINATED" \/ row.exited]
      /\ desk' = [desk EXCEPT ![c] = Idle]
      /\ stale' = {d \in Clerks \ {c} : desk[d] # Idle}
      /\ desksCrossed' = (desksCrossed \/ c \in stale)
      /\ UNCHANGED <<kind, milestone>>

\* The statement fails or the server dies.
DropStatus(c) ==
  /\ desk[c] # Idle
  /\ desk' = [desk EXCEPT ![c] = Idle]
  /\ stale' = stale \ {c}
  /\ UNCHANGED <<kind, row, milestone, desksCrossed>>

\* createMilestone asks for the project, not for its status.
CreateMilestone ==
  /\ kind = "project" /\ row # NoRow
  /\ milestone.status = Null
  /\ milestone' = [status |-> "PENDING", completed |-> FALSE]
  /\ UNCHANGED <<kind, row, desk, stale, desksCrossed>>

\* updateMilestone with a status: any, at any time.
UpdateMilestone(status) ==
  /\ milestone.status # Null
  /\ milestone' = [status |-> status, completed |-> status = "COMPLETED"]
  /\ UNCHANGED <<kind, row, desk, stale, desksCrossed>>

WorkflowNext ==
  \/ CreateRow
  \/ CreateMilestone
  \/ \E status \in MilestoneStatuses : UpdateMilestone(status)
  \/ \E c \in Clerks :
       \/ \E to \in Statuses : RequestStatus(c, to)
       \/ WriteStatus(c)
       \/ DropStatus(c)

WorkflowSpec == WorkflowInit /\ [][WorkflowNext]_workflowVars

-----------------------------------------------------------------------------
(***************************************************************************)
(* Properties.                                                             *)
(***************************************************************************)

\* "REIMBURSED only ever follows APPROVED" (expense-requests.service.ts:12):
\* whatever overlaps, money goes out only for a request somebody has decided.
ReimbursedWasDecided == row.status = "REIMBURSED" => row.decided

\* Until somebody writes on a stale read, the dates on a row and its status tell
\* the same story: nothing is undone after it was paid, decided or ended.
DatesTellTheStatus ==
  ~desksCrossed => /\ row.reimbursed = (row.status = "REIMBURSED")
              /\ row.decided = (row.status \in {"APPROVED", "REJECTED", "REIMBURSED"})
              /\ row.exited = (row.status = "TERMINATED")

RowsTellTheirStory == ReimbursedWasDecided /\ DatesTellTheStatus

=============================================================================
