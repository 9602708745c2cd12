------------------------------- MODULE MCOffice -------------------------------
(***************************************************************************)
(* Instances of the offices' modules, and of the browser in front of them,  *)
(* for TLC.  They share neither rows nor variables, so a behaviour runs    *)
(* one of them, chosen at the start: letting all of them step would only   *)
(* multiply their state spaces.                                            *)
(***************************************************************************)
EXTENDS Accounting, Hse, Workflow, Appraisals, Attendance, Reminders, AppointmentSchedule,
        Client

CONSTANTS c1, c2, r1, r2, m1, m2

Two       == {c1, c2}
Three     == {c1, c2, r1}
Raters    == {r1, r2}
TwoActions == {m1, m2}
HalfCents == {0, 1, 2, 4, 6}
FiveStars == {1, 4}
Morning   == {0, 1}
Typed     == {[status |-> "ABSENT", clockIn |-> Null, clockOut |-> Null]}

Hours ==
  [workStart |-> 2, workEnd |-> 6, slotMinutes |-> 1, slotCapacity |-> 1,
   workingDays |-> {1}, timeZone |-> "Lagos"]

SomeEdits ==
  {[workStart |-> 5], [workEnd |-> 3],
   [slotMinutes |-> 3, slotCapacity |-> 2, workingDays |-> {1, 2}, timeZone |-> "UTC"]}

VARIABLE part  \* the module this behaviour runs

Parts == {"accounting", "hse", "workflow", "appraisals", "attendance", "reminders", "schedule",
          "client"}

OfficeInit ==
  /\ part \in Parts
  /\ AccountingInit /\ HseInit /\ AppraisalsInit /\ ScheduleInit
  /\ WorkflowInit   /\ (part # "workflow" => kind = "project")
  /\ AttendanceInit /\ (part # "attendance" => shift = Null)
  /\ RemindersInit  /\ (part # "reminders" => waiting)
  /\ ClientInit     /\ (part # "client" => page = "Ledger" /\ role = "staff" /\ watched = EveryItem)

OfficeNext ==
  /\ UNCHANGED part
  /\ IF part = "accounting" THEN AccountingNext ELSE UNCHANGED accountingVars
  /\ IF part = "hse"        THEN HseNext        ELSE UNCHANGED hseVars
  /\ IF part = "workflow"   THEN WorkflowNext   ELSE UNCHANGED workflowVars
  /\ IF part = "appraisals" THEN AppraisalsNext ELSE UNCHANGED appraisalsVars
  /\ IF part = "attendance" THEN AttendanceNext ELSE UNCHANGED attendanceVars
  /\ IF part = "reminders"  THEN RemindersNext  ELSE UNCHANGED remindersVars
  /\ IF part = "schedule"   THEN ScheduleNext   ELSE UNCHANGED scheduleVars
  /\ IF part = "client"     THEN ClientNext     ELSE UNCHANGED clientVars

officeVars == <<part, accountingVars, hseVars, workflowVars, appraisalsVars,
                attendanceVars, remindersVars, scheduleVars, clientVars>>

OfficeSpec == OfficeInit /\ [][OfficeNext]_officeVars

OfficeTypeOK ==
  /\ part \in Parts
  /\ AccountingTypeOK /\ HseTypeOK /\ WorkflowTypeOK /\ AppraisalsTypeOK
  /\ AttendanceTypeOK /\ RemindersTypeOK /\ ScheduleTypeOK
  /\ ClientTypeOK

=============================================================================
