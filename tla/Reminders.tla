------------------------------- MODULE Reminders -------------------------------
(***************************************************************************)
(* The daily reminder (backend/src/modules/mail/reminders.service.ts) that *)
(* several servers run every hour, the claim of the day they settle it     *)
(* with (modules/settings/email-settings.ts) and the master switch of mail *)
(* (modules/mail/mail.service.ts).  A server may die between any two       *)
(* statements; nothing is retried.                                         *)
(*                                                                         *)
(* A run is over before the next day's reminder hour: NewDay waits for it. *)
(***************************************************************************)
EXTENDS Integers

CONSTANTS
  Servers,  \* servers that run the same cron job
  LastDay,  \* days are 1..LastDay
  NoDay     \* absence of the email.lastReminderDate row

ASSUME RemindersAssumption == LastDay \in Nat \ {0} /\ NoDay = 0

VARIABLES
  day,      \* the date in the schedule's time zone
  hour,     \* whether it is the reminder hour
  last,     \* email.lastReminderDate, NoDay when there is no such row
  enabled,  \* email.enabled
  waiting,  \* something has been PENDING for more than 24 hours
  run,      \* where the hourly run of each server is, and the value it has read
  sent      \* history: how many times the reminder of each day has been mailed

remindersVars == <<day, hour, last, enabled, waiting, run, sent>>

NoRun == [pc |-> "idle", seen |-> NoDay]

RemindersTypeOK ==
  /\ day \in 1..LastDay
  /\ hour \in BOOLEAN
  /\ last \in 0..LastDay
  /\ enabled \in BOOLEAN
  /\ waiting \in BOOLEAN
  /\ run \in [Servers -> [pc : {"idle", "awake", "claim", "gather", "mail"}, seen : 0..LastDay]]
  /\ sent \in [1..LastDay -> Nat]

RemindersInit ==
  /\ day = 1
  /\ hour = FALSE
  /\ last = NoDay
  /\ enabled = TRUE
  /\ waiting \in BOOLEAN
  /\ run = [s \in Servers |-> NoRun]
  /\ sent = [d \in 1..LastDay |-> 0]

-----------------------------------------------------------------------------
\* The hour strikes, or passes.
HourPasses ==
  /\ hour' = ~hour
  /\ UNCHANGED <<day, last, enabled, waiting, run, sent>>

NewDay ==
  /\ day < LastDay /\ ~hour
  /\ \A s \in Servers : run[s] = NoRun
  /\ day' = day + 1
  /\ UNCHANGED <<hour, last, enabled, waiting, run, sent>>

\* Requests come and are decided; the admin turns mail on and off.
WaitingChanges ==
  /\ waiting' = ~waiting
  /\ UNCHANGED <<day, hour, last, enabled, run, sent>>

SetEmailEnabled ==
  /\ enabled' = ~enabled
  /\ UNCHANGED <<day, hour, last, waiting, run, sent>>

GoTo(s, pc) == run' = [run EXCEPT ![s] = [pc |-> pc, seen |-> run[s].seen]]
Stop(s)     == run' = [run EXCEPT ![s] = NoRun]

\* The cron job; outside the hour it does nothing.
Hourly(s) ==
  /\ hour
  /\ run[s] = NoRun
  /\ GoTo(s, "awake")
  /\ UNCHANGED <<day, hour, last, enabled, waiting, sent>>

\* claimReminderDay: the read ...
ReadLastDay(s) ==
  /\ run[s].pc = "awake"
  /\ IF last = day THEN Stop(s) ELSE run' = [run EXCEPT ![s] = [pc |-> "claim", seen |-> last]]
  /\ UNCHANGED <<day, hour, last, enabled, waiting, sent>>

\* MUTANT of ClaimDay: the row is updated whatever it says by now.
ClaimDay_Unconditional(s) ==
  /\ run[s].pc = "claim"
  /\ last' = day
  /\ GoTo(s, "gather")
  /\ UNCHANGED <<day, hour, enabled, waiting, sent>>

\* ... and the update of the value that was read, or the creation of the row,
\* which fails if it is there by now.
ClaimDay(s) ==
  /\ run[s].pc = "claim"
  /\ IF last = run[s].seen THEN last' = day /\ GoTo(s, "gather")
                           ELSE last' = last /\ Stop(s)
  /\ UNCHANGED <<day, hour, enabled, waiting, sent>>

\* sendReminder: what is waiting ...
Gather(s) ==
  /\ run[s].pc = "gather"
  /\ IF waiting THEN GoTo(s, "mail") ELSE Stop(s)
  /\ UNCHANGED <<day, hour, last, enabled, waiting, sent>>

\* ... and the mail, which the switch may hold back.
Mail(s) ==
  /\ run[s].pc = "mail"
  /\ sent' = IF enabled THEN [sent EXCEPT ![day] = sent[day] + 1] ELSE sent
  /\ Stop(s)
  /\ UNCHANGED <<day, hour, last, enabled, waiting>>

\* The server dies, or an error is logged: the claim stays.
Crash(s) ==
  /\ run[s] # NoRun
  /\ Stop(s)
  /\ UNCHANGED <<day, hour, last, enabled, waiting, sent>>

Run(s) == ReadLastDay(s) \/ ClaimDay(s) \/ Gather(s) \/ Mail(s)

RemindersNext ==
  \/ HourPasses
  \/ NewDay
  \/ WaitingChanges
  \/ SetEmailEnabled
  \/ \E s \in Servers : Hourly(s) \/ Run(s) \/ Crash(s)

RemindersSpec == RemindersInit /\ [][RemindersNext]_remindersVars

-----------------------------------------------------------------------------
(***************************************************************************)
(* Properties.                                                             *)
(***************************************************************************)

\* "Only the first to claim a day sends" (email-settings.ts:20): however many
\* servers wake up together and however they fail, admins get one reminder a day.
RemindedOncePerDay == \A d \in 1..LastDay : sent[d] <= 1

=============================================================================
