------------------------------ MODULE Attendance ------------------------------
(***************************************************************************)
(* The attendance rows of one employee (backend/src/modules/hr/            *)
(* attendance.service.ts): the employee clocks in and out, HR creates and  *)
(* corrects rows and assigns the shift.  The employee's requests read, then*)
(* write; an HR request is one statement.                                  *)
(*                                                                         *)
(* Time is a number of ticks, a day DayLength of them.  The server's local *)
(* time is taken to be UTC, as it is in the containers that run it: the    *)
(* code reads the day in local time and the shift's start in UTC.          *)
(***************************************************************************)
EXTENDS Integers, FiniteSets, Nulls

CONSTANTS
  Clicks,     \* requests of the employee that may be in flight at once
  Days,       \* number of days modelled
  DayLength,  \* ticks of a day
  Starts,     \* start times a shift may have
  Entries,    \* what HR puts on a row: [status, clockIn, clockOut]
  Grace       \* LATE_GRACE_MINUTES

ASSUME AttendanceAssumption ==
  /\ Days \in Nat \ {0} /\ DayLength \in Nat \ {0} /\ Grace \in Nat
  /\ Starts \subseteq 0..(DayLength - 1)

VARIABLES
  now,       \* the clock
  shift,     \* start of the employee's shift, Null without one
  record,    \* the AttendanceRecord of each day
  click,     \* what each request of the employee has read
  clicksCrossed,   \* history: two requests of the employee have been in flight at once
  corrected  \* history: HR has put times or a status on the row of the day, or
             \* has changed the shift under it

attendanceVars == <<now, shift, record, click, clicksCrossed, corrected>>

Horizon  == Days * DayLength - 1
Times    == (0..Horizon) \cup {Null}
Calendar == 0..(Days - 1)
OwnStatuses == {"PRESENT", "LATE"}
AttendanceStatuses == OwnStatuses \cup {"ABSENT", "HALF_DAY", "ON_LEAVE", "HOLIDAY"}

ASSUME EntriesAssumption ==
  /\ Entries \subseteq [status : AttendanceStatuses \cup {Null}, clockIn : Times, clockOut : Times]
  /\ Null \notin Nat /\ Null \notin AttendanceStatuses

NoRecord == [status |-> Null, clockIn |-> Null, clockOut |-> Null]
NoClick  == [pc |-> "idle", day |-> 0, at |-> Null, shift |-> Null, status |-> Null]

AttendanceTypeOK ==
  /\ now \in 0..Horizon
  /\ shift \in Starts \cup {Null}
  /\ record \in [Calendar -> [status : AttendanceStatuses \cup {Null},
                              clockIn : Times, clockOut : Times]]
  /\ click \in [Clicks -> [pc : {"idle", "employee", "create", "update", "out"},
                           day : Calendar, at : Times, shift : Starts \cup {Null},
                           status : OwnStatuses \cup {Null}]]
  /\ clicksCrossed \in BOOLEAN
  /\ corrected \subseteq Calendar

AttendanceInit ==
  /\ now = 0
  /\ shift \in Starts \cup {Null}
  /\ record = [d \in Calendar |-> NoRecord]
  /\ click = [c \in Clicks |-> NoClick]
  /\ clicksCrossed = FALSE
  /\ corrected = {}

Today == now \div DayLength

IsLate(start, at) ==
  start # Null /\ at > (at \div DayLength) * DayLength + start + Grace

-----------------------------------------------------------------------------
Tick ==
  /\ now < Horizon
  /\ now' = now + 1
  /\ UNCHANGED <<shift, record, click, clicksCrossed, corrected>>

Begin(c, job) ==
  /\ click[c] = NoClick
  /\ click' = [click EXCEPT ![c] = job]
  /\ clicksCrossed' = (clicksCrossed \/ \E d \in Clicks \ {c} : click[d] # NoClick)
  /\ UNCHANGED <<now, shift, record, corrected>>

Release(c) ==
  /\ click' = [click EXCEPT ![c] = NoClick]
  /\ UNCHANGED <<now, shift, clicksCrossed, corrected>>

\* clockIn: the employee and the shift are read ...
ClockIn(c) == Begin(c, [NoClick EXCEPT !.pc = "employee", !.shift = shift])

\* MUTANT of ReadToday: the row may have a clock-in already.
ReadToday_Again(c) ==
  /\ click[c].pc = "employee"
  /\ click' = [click EXCEPT ![c] =
       [pc     |-> IF record[Today] = NoRecord THEN "create" ELSE "update",
        day    |-> Today, at |-> now, shift |-> click[c].shift,
        status |-> IF IsLate(click[c].shift, now) THEN "LATE" ELSE "PRESENT"]]
  /\ UNCHANGED <<now, shift, record, clicksCrossed, corrected>>

\* ... then the clock and the row of the day.
ReadToday(c) ==
  /\ click[c].pc = "employee"
  /\ record[Today].clockIn = Null
  /\ click' = [click EXCEPT ![c] =
       [pc     |-> IF record[Today] = NoRecord THEN "create" ELSE "update",
        day    |-> Today, at |-> now, shift |-> click[c].shift,
        status |-> IF IsLate(click[c].shift, now) THEN "LATE" ELSE "PRESENT"]]
  /\ UNCHANGED <<now, shift, record, clicksCrossed, corrected>>

\* A row that was there is updated, whatever it says by now; a new one is
\* refused if the day has one by now.
WriteClockIn(c) ==
  LET job == click[c]
  IN  /\ \/ job.pc = "update"
         \/ job.pc = "create" /\ record[job.day] = NoRecord
      /\ record' = [record EXCEPT ![job.day].clockIn = job.at, ![job.day].status = job.status]
      /\ Release(c)

\* clockOut: the row of the day it is asked on ...
ClockOut(c) ==
  /\ record[Today].clockIn # Null
  /\ record[Today].clockOut = Null
  /\ Begin(c, [NoClick EXCEPT !.pc = "out", !.day = Today])

\* ... and the time of the write.
WriteClockOut(c) ==
  /\ click[c].pc = "out"
  /\ record' = [record EXCEPT ![click[c].day].clockOut = now]
  /\ Release(c)

\* A refusal after the first read, a conflict, a failure.
DropClick(c) ==
  /\ click[c] # NoClick
  /\ Release(c)
  /\ UNCHANGED record

-----------------------------------------------------------------------------
\* HR's create: a day without a row gets one.
CreateRecord(d, entry) ==
  /\ record[d] = NoRecord
  /\ record' = [record EXCEPT ![d] = entry]
  /\ corrected' = IF entry.clockIn = Null /\ entry.clockOut = Null THEN corrected
                  ELSE corrected \cup {d}
  /\ UNCHANGED <<now, shift, click, clicksCrossed>>

\* HR's update: what the request leaves out stays.
UpdateRecord(d, entry) ==
  /\ record[d] # NoRecord
  /\ record' = [record EXCEPT ![d] =
       [k \in DOMAIN entry |-> IF entry[k] = Null THEN record[d][k] ELSE entry[k]]]
  /\ corrected' = corrected \cup {d}
  /\ UNCHANGED <<now, shift, click, clicksCrossed>>

\* EmployeesService.update with a shift, ShiftsService.update with a start.
SetShift(start) ==
  /\ shift' = start
  /\ corrected' = IF \A c \in Clicks : click[c] = NoClick
                  THEN corrected \cup {d \in Calendar : d <= Today}
                  ELSE Calendar
  /\ UNCHANGED <<now, record, click, clicksCrossed>>

AttendanceNext ==
  \/ Tick
  \/ \E c \in Clicks :
       \/ ClockIn(c)
       \/ ReadToday(c)
       \/ WriteClockIn(c)
       \/ ClockOut(c)
       \/ WriteClockOut(c)
       \/ DropClick(c)
  \/ \E d \in Calendar, entry \in Entries : CreateRecord(d, entry) \/ UpdateRecord(d, entry)
  \/ \E start \in Starts : SetShift(start)

AttendanceSpec == AttendanceInit /\ [][AttendanceNext]_attendanceVars

-----------------------------------------------------------------------------
(***************************************************************************)
(* Properties.                                                             *)
(***************************************************************************)

Own(d) == d \notin corrected /\ record[d].clockIn # Null

\* The row of a day HR has not touched holds that day's clock-in, LATE exactly
\* when it is later than the shift's start and the grace, however two clicks
\* overlap.
PunctualityIsRight ==
  \A d \in Calendar : Own(d) =>
    /\ record[d].clockIn \div DayLength = d
    /\ (record[d].status = "LATE") = IsLate(shift, record[d].clockIn)

\* Without overlapping clicks the day ends after it starts.
OutAfterIn ==
  \A d \in Calendar : Own(d) /\ ~clicksCrossed /\ record[d].clockOut # Null =>
    record[d].clockIn <= record[d].clockOut

DaysAreRecordedRight == PunctualityIsRight /\ OutAfterIn

=============================================================================
