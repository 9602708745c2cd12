-------------------------- MODULE AppointmentSchedule --------------------------
(***************************************************************************)
(* The six settings of the store's hours (backend/src/modules/appointments/*)
(* appointment-schedule.ts): an admin's edit is merged over what is stored,*)
(* checked, and written key by key without a transaction.  Times are in    *)
(* steps of a few minutes.                                                 *)
(***************************************************************************)
EXTENDS Integers, Sequences

CONSTANTS
  Admins,   \* updateSchedule requests that may be in flight at once
  Edits,    \* what an admin may ask for: some of the settings, with values
  Default,  \* DEFAULT_SCHEDULE
  MinSlot, MaxSlot, MaxCapacity, MaxTime  \* the limits of applyScheduleChanges

VARIABLES
  setting,  \* the stored schedule, defaults included
  saving,   \* what each admin still has to write, and which keys
  torn      \* history: two saves have overlapped, or one was cut short

scheduleVars == <<setting, saving, torn>>

\* In the order saveSchedule writes them.
KEYS == <<"workStart", "workEnd", "slotMinutes", "slotCapacity", "workingDays", "timeZone">>

Keys    == {KEYS[i] : i \in 1..Len(KEYS)}
NotSaving == [next |-> Default, key |-> 0]

ScheduleInit ==
  /\ setting = Default
  /\ saving = [a \in Admins |-> NotSaving]
  /\ torn = FALSE

\* MUTANT of Workable: the length of the day is not compared with a slot.
Workable_AnyLength(s) ==
  /\ s.workStart \in 0..MaxTime /\ s.workEnd \in 0..MaxTime
  /\ s.workStart < s.workEnd
  /\ s.slotMinutes \in MinSlot..MaxSlot
  /\ s.slotCapacity \in 1..MaxCapacity
  /\ s.workingDays # {} /\ s.workingDays \subseteq 0..6
  /\ s.timeZone # "invalid"

\* What applyScheduleChanges lets through.
Workable(s) ==
  /\ s.workStart \in 0..MaxTime /\ s.workEnd \in 0..MaxTime
  /\ s.workStart < s.workEnd
  /\ s.slotMinutes \in MinSlot..MaxSlot
  /\ s.slotMinutes <= s.workEnd - s.workStart
  /\ s.slotCapacity \in 1..MaxCapacity
  /\ s.workingDays # {} /\ s.workingDays \subseteq 0..6
  /\ s.timeZone # "invalid"

ASSUME ScheduleAssumption ==
  /\ DOMAIN Default = Keys /\ Default = [k \in Keys |-> Default[k]]
  /\ Workable(Default)
  /\ MinSlot \in Nat \ {0} /\ MaxSlot \in Nat /\ MaxCapacity \in Nat /\ MaxTime \in Nat

\* AppointmentsService.slots: the times offered on a working day.
Slots(s) == {t \in s.workStart..s.workEnd : /\ t + s.slotMinutes <= s.workEnd
                                            /\ (t - s.workStart) % s.slotMinutes = 0}

-----------------------------------------------------------------------------
Saving == {a \in Admins : saving[a] # NotSaving}

\* updateSchedule: what the request leaves out stays as it was read.
UpdateSchedule(a, edit) ==
  LET next == [k \in Keys |-> IF k \in DOMAIN edit THEN edit[k] ELSE setting[k]]
  IN  /\ saving[a] = NotSaving
      /\ Workable(next)
      /\ saving' = [saving EXCEPT ![a] = [next |-> next, key |-> 1]]
      /\ torn' = (torn \/ Saving # {})
      /\ UNCHANGED setting

\* One upsert of saveSchedule.
SaveKey(a) ==
  LET key == KEYS[saving[a].key]
  IN  /\ saving[a] # NotSaving
      /\ setting' = [setting EXCEPT ![key] = saving[a].next[key]]
      /\ saving' = [saving EXCEPT ![a] =
           IF saving[a].key = Len(KEYS) THEN NotSaving
           ELSE [next |-> saving[a].next, key |-> saving[a].key + 1]]
      /\ UNCHANGED torn

\* An upsert fails or the server dies: the keys written stay.
CutShort(a) ==
  /\ saving[a] # NotSaving
  /\ saving' = [saving EXCEPT ![a] = NotSaving]
  /\ torn' = (torn \/ saving[a].key > 1)
  /\ UNCHANGED setting

ScheduleNext ==
  \E a \in Admins :
    \/ \E edit \in Edits : UpdateSchedule(a, edit)
    \/ SaveKey(a)
    \/ CutShort(a)

ScheduleSpec == ScheduleInit /\ [][ScheduleNext]_scheduleVars

-----------------------------------------------------------------------------
(***************************************************************************)
(* Properties.                                                             *)
(***************************************************************************)

ScheduleTypeOK ==
  /\ DOMAIN setting = Keys
  /\ setting.workStart \in 0..MaxTime /\ setting.workEnd \in 0..MaxTime
  /\ setting.slotMinutes \in MinSlot..MaxSlot
  /\ setting.slotCapacity \in 1..MaxCapacity
  /\ setting.workingDays # {} /\ setting.workingDays \subseteq 0..6
  /\ \A a \in Admins : saving[a].key \in 0..Len(KEYS)
  /\ torn \in BOOLEAN

\* Saves that neither overlap nor fail leave a schedule with hours to book.
HoursToBook == ~torn /\ Saving = {} => Slots(setting) # {}

=============================================================================
