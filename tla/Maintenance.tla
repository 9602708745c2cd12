----------------------------- MODULE Maintenance -----------------------------
(***************************************************************************)
(* The work orders and the maintenance schedules of one asset:             *)
(* backend/src/modules/maintenance/maintenance.service.ts and              *)
(* backend/src/modules/maintenance/schedules.  Composes with Assets: both  *)
(* write Asset.status.                                                     *)
(*                                                                         *)
(* Moving a work order is one transaction, at READ COMMITTED, of five      *)
(* statements: the work order, a look at the asset, a count of the work    *)
(* orders still active, the asset, the schedule.  Which moves are allowed  *)
(* is decided on a row read before.                                        *)
(*                                                                         *)
(* Dates are days; an interval is a number of days.                        *)
(***************************************************************************)
EXTENDS Integers, Assets

CONSTANTS
  WorkOrders,           \* ids of WorkOrder rows
  Schedules,            \* ids of MaintenanceSchedule rows
  Workers,              \* requests that may be in flight at once
  cron,                 \* the hourly run of MaintenanceSchedulerService
  Intervals,            \* intervals of schedules, in days
  LeadDays,             \* leadDays of every schedule
  MAX_CATCH_UP_STEPS,   \* where onWorkOrderClosed gives up catching up
  LastDay               \* the calendar ends here; due dates that are entered
                        \* or moved on from are not later

Procs == Workers \cup {cron}
Days == 0..LastDay

VARIABLES
  today,  \* the date in the store's time zone
  wo,     \* WorkOrder rows
  sched,  \* MaintenanceSchedule rows
  job     \* the request each process is serving

vars == <<registerVars, today, wo, sched, job>>

\* Work order statuses that still represent active work against the asset.
ACTIVE_STATUSES == {"OPEN", "IN_PROGRESS", "ON_HOLD"}
Closing == {"COMPLETED", "CANCELLED"}

WorkOrder == [status : ACTIVE_STATUSES \cup Closing, schedule : Schedules \cup {Null},
              due : Nat \cup {Null}]

Schedule == [next : Nat, last : Nat \cup {Null}, every : Intervals,
             basis : {"FIXED", "FLOATING"}, state : {"active", "paused", "deleted"}]

ASSUME MaintenanceAssumption ==
  /\ cron \notin Workers
  /\ IsFiniteSet(Workers) /\ IsFiniteSet(Clerks)
  /\ Intervals \subseteq Nat \ {0}
  /\ LeadDays \in Nat /\ MAX_CATCH_UP_STEPS \in Nat /\ LastDay \in Nat
  /\ Null \notin WorkOrders /\ Null \notin Schedules
  /\ Null \notin WorkOrder /\ Null \notin Schedule
  /\ Null \notin Nat /\ Null \notin AssetStatuses

(***************************************************************************)
(* A request: the work order or the schedule it is about, the scheduleId   *)
(* it has read, the status to move to.  In its transaction: the status of  *)
(* the asset it has seen, the one it has written, the dates it is going to *)
(* give the schedule.  A run of generateDue: the schedules that were due.  *)
(***************************************************************************)
Job == [pc : {"idle", "insert", "write", "sync", "count", "touch", "move", "close",
              "plan", "generate", "open"},
        ref : WorkOrders \cup Schedules \cup {Null}, schedule : Schedules \cup {Null},
        to : ACTIVE_STATUSES \cup Closing \cup {Null}, seen : AssetStatuses \cup {Null},
        put : AssetStatuses \cup {Null}, next : Nat \cup {Null}, last : Nat \cup {Null},
        due : SUBSET (Schedules \X Nat)]

Idle == [pc |-> "idle", ref |-> Null, schedule |-> Null, to |-> Null, seen |-> Null,
         put |-> Null, next |-> Null, last |-> Null, due |-> {}]

TypeOK ==
  /\ RegisterTypeOK
  /\ today \in Days
  /\ wo \in [WorkOrders -> WorkOrder \cup {Null}]
  /\ sched \in [Schedules -> Schedule \cup {Null}]
  /\ job \in [Procs -> Job]

Init ==
  /\ RegisterInit
  /\ today = 0
  /\ wo = [w \in WorkOrders |-> Null]
  /\ sched = [s \in Schedules |-> Null]
  /\ job = [p \in Procs |-> Idle]

Begin(p, request) ==
  /\ job[p] = Idle
  /\ job' = [job EXCEPT ![p] = request]
  /\ UNCHANGED <<registerVars, today, wo, sched>>

End(p) == job' = [job EXCEPT ![p] = Idle]

\* The request goes on to pc, with nothing else changed.
Goes(p, pc) ==
  /\ job' = [job EXCEPT ![p].pc = pc]
  /\ UNCHANGED <<registerVars, today, wo, sched>>

Active(w) == wo[w] # Null /\ wo[w].status \in ACTIVE_STATUSES

\* Open work orders of a schedule.
OpenOf(s) == {w \in WorkOrders : Active(w) /\ wo[w].schedule = s}

InTransaction == {"sync", "count", "touch", "move", "close"}

\* A transaction other than p's has updated the work order.
Held(p, w) == \E q \in Procs \ {p} : job[q].pc \in InTransaction /\ job[q].ref = w

\* A transaction other than p's has updated the asset.
AssetHeld(p) == \E q \in Procs \ {p} : job[q].pc \in {"move", "close"} /\ job[q].put # Null

-----------------------------------------------------------------------------
(***************************************************************************)
(* Work orders.                                                            *)
(***************************************************************************)

\* create looks at the asset, ...
OpenWorkOrder(p) ==
  /\ asset \notin {Null, "DECOMMISSIONED"}
  /\ Begin(p, [Idle EXCEPT !.pc = "insert"])

\* ... and inserts.
InsertWorkOrder(p, w) ==
  /\ job[p].pc = "insert"
  /\ wo[w] = Null
  /\ wo' = [wo EXCEPT ![w] = [status |-> "OPEN", schedule |-> Null, due |-> Null]]
  /\ End(p)
  /\ UNCHANGED <<registerVars, today, sched>>

ALLOWED_TRANSITIONS ==
  [OPEN        |-> {"IN_PROGRESS", "ON_HOLD", "CANCELLED"},
   IN_PROGRESS |-> {"ON_HOLD", "COMPLETED", "CANCELLED"},
   ON_HOLD     |-> {"IN_PROGRESS", "CANCELLED"},
   COMPLETED   |-> {},
   CANCELLED   |-> {}]

\* updateStatus
MoveWorkOrder(p, w, to) ==
  /\ wo[w] # Null
  /\ to \in ALLOWED_TRANSITIONS[wo[w].status]
  /\ \A s \in Schedules : wo[w].schedule = s => sched[s].next <= LastDay
  /\ Begin(p, [Idle EXCEPT !.pc = "write", !.ref = w, !.schedule = wo[w].schedule, !.to = to])

\* MUTANT of Refused: there is no partial unique index.
Refused_NoIndex(w, s, to) == FALSE

\* Work order w may not be active: the partial unique index knows another one
\* that is open for the same schedule.
Refused(w, s, to) == to \in ACTIVE_STATUSES /\ s # Null /\ OpenOf(s) \ {w} # {}

\* The index waits for a transaction that is about to open or close another
\* work order of the schedule.
MustWait(p, w, s) ==
  \E v \in WorkOrders \ {w} : /\ Held(p, v) /\ s # Null /\ wo[v].schedule = s
                              /\ \/ Active(v)
                                 \/ \E q \in Procs : job[q].ref = v /\ job[q].to \in ACTIVE_STATUSES

WriteWorkOrder(p) ==
  LET w == job[p].ref IN
  /\ job[p].pc = "write"
  /\ ~Held(p, w)
  /\ job[p].to \in ACTIVE_STATUSES => ~MustWait(p, w, wo[w].schedule)
  /\ job' = [job EXCEPT ![p] = IF Refused(w, wo[w].schedule, job[p].to)
                               THEN Idle ELSE [@ EXCEPT !.pc = "sync"]]
  /\ UNCHANGED <<registerVars, today, wo, sched>>

\* What is left to do after the asset.
AfterAsset(p) ==
  IF job[p].schedule # Null /\ job[p].to \in Closing THEN "move" ELSE "close"

\* syncAssetStatus: the asset as it is now decides what to do about it.
SyncAssetStatus(p) ==
  /\ job[p].pc = "sync"
  /\ job' = [job EXCEPT
       ![p].seen = asset,
       ![p].put = IF job[p].to = "IN_PROGRESS" /\ asset = "ACTIVE" THEN "UNDER_MAINTENANCE" ELSE Null,
       ![p].pc =
          CASE asset # "DECOMMISSIONED" /\ job[p].to \in Closing -> "count"
            [] asset = "ACTIVE" /\ job[p].to = "IN_PROGRESS" -> "touch"
            [] OTHER -> AfterAsset(p)]
  /\ UNCHANGED <<registerVars, today, wo, sched>>

\* MUTANT of StillActive: the count misses that its own work order is closed.
StillActive_WithOwn(w) == {v \in WorkOrders : Active(v)}

\* The count sees the transaction's own change and what is committed.
StillActive(w) == {v \in WorkOrders \ {w} : Active(v)}

CountActive(p) ==
  LET backUp == StillActive(job[p].ref) = {} /\ job[p].seen = "UNDER_MAINTENANCE" IN
  /\ job[p].pc = "count"
  /\ job' = [job EXCEPT ![p].put = IF backUp THEN "ACTIVE" ELSE Null,
                        ![p].pc = IF backUp THEN "touch" ELSE AfterAsset(p)]
  /\ UNCHANGED <<registerVars, today, wo, sched>>

TouchAsset(p) ==
  /\ job[p].pc = "touch"
  /\ ~AssetHeld(p)
  /\ Goes(p, AfterAsset(p))

-----------------------------------------------------------------------------
(***************************************************************************)
(* The next due date.                                                      *)
(***************************************************************************)

\* MUTANT of FixedNext: one interval further, however late the work was done.
FixedNext_NoCatchUp(s, done) == sched[s].next + sched[s].every

\* On the calendar, but never on a date that has passed.
FixedNext(s, done) ==
  LET first  == sched[s].next + sched[s].every
      missed == IF first > done THEN 0 ELSE (done - first) \div sched[s].every + 1 IN
  first + sched[s].every * IF missed < MAX_CATCH_UP_STEPS THEN missed ELSE MAX_CATCH_UP_STEPS

NextDue(s, to, done) ==
  CASE to = "CANCELLED" -> sched[s].next + sched[s].every
    [] to = "COMPLETED" /\ sched[s].basis = "FLOATING" -> done + sched[s].every
    [] OTHER -> FixedNext(s, done)

Exists(s) == sched[s] # Null /\ sched[s].state # "deleted"

\* onWorkOrderClosed, with the scheduleId read before.
OnWorkOrderClosed(p) ==
  LET s == job[p].schedule IN
  /\ job[p].pc = "move"
  /\ job' = [job EXCEPT ![p].pc = "close",
                        ![p].next = IF Exists(s) THEN NextDue(s, job[p].to, today) ELSE Null,
                        ![p].last = IF Exists(s) /\ job[p].to = "COMPLETED" THEN today ELSE Null]
  /\ UNCHANGED <<registerVars, today, wo, sched>>

\* MUTANT of CloseTransaction: the schedule is written whether it was found or not.
CloseTransaction_ScheduleUnchecked(p) ==
  LET j == job[p] IN
  /\ j.pc = "close"
  /\ wo' = [wo EXCEPT ![j.ref].status = j.to]
  /\ asset' = IF j.put = Null THEN asset ELSE j.put
  /\ sched' = IF j.schedule = Null THEN sched ELSE [sched EXCEPT ![j.schedule].next = j.next]
  /\ End(p)
  /\ UNCHANGED <<custody, desk, today>>

\* Everything the transaction did.
CloseTransaction(p) ==
  LET j == job[p] IN
  /\ j.pc = "close"
  /\ wo' = [wo EXCEPT ![j.ref].status = j.to]
  /\ asset' = IF j.put = Null THEN asset ELSE j.put
  /\ sched' = IF j.next = Null THEN sched
              ELSE [sched EXCEPT ![j.schedule].next = j.next,
                                 ![j.schedule].last = IF j.last = Null THEN @ ELSE j.last]
  /\ End(p)
  /\ UNCHANGED <<custody, desk, today>>

-----------------------------------------------------------------------------
(***************************************************************************)
(* Schedules.                                                              *)
(***************************************************************************)

\* create looks at the asset, ...
AddSchedule(p) ==
  /\ asset \notin {Null, "DECOMMISSIONED"}
  /\ Begin(p, [Idle EXCEPT !.pc = "plan"])

\* ... inserts, and opens the work order if it is due already.
InsertSchedule(p, s, first, every, basis) ==
  /\ job[p].pc = "plan"
  /\ sched[s] = Null
  /\ sched' = [sched EXCEPT ![s] = [next |-> first, last |-> Null, every |-> every,
                                    basis |-> basis, state |-> "active"]]
  /\ job' = [job EXCEPT ![p] = [Idle EXCEPT !.pc = "generate", !.ref = s]]
  /\ UNCHANGED <<registerVars, today, wo>>

\* update writes what was asked for (a new interval or basis is as good as one
\* given to another schedule from the start), and opens the work order if it is due now.
EditSchedule(p, s, next, state) ==
  /\ job[p] = Idle
  /\ Exists(s)
  /\ <<next, state>> # <<sched[s].next, sched[s].state>>
  /\ sched' = [sched EXCEPT ![s].next = next, ![s].state = state]
  /\ job' = [job EXCEPT ![p] = [Idle EXCEPT !.pc = "generate", !.ref = s]]
  /\ UNCHANGED <<registerVars, today, wo>>

\* remove; the foreign key sets scheduleId to null, once nobody holds the rows.
RemoveSchedule(s) ==
  /\ Exists(s)
  /\ \A w \in WorkOrders : wo[w] # Null /\ wo[w].schedule = s => ~Held(Null, w)
  /\ sched' = [sched EXCEPT ![s].state = "deleted"]
  /\ wo' = [w \in WorkOrders |->
              IF wo[w] # Null /\ wo[w].schedule = s THEN [wo[w] EXCEPT !.schedule = Null] ELSE wo[w]]
  /\ UNCHANGED <<registerVars, today, job>>

\* The hourly run of generateDue, or somebody asking for it.
Generate(p) == Begin(p, [Idle EXCEPT !.pc = "generate"])

\* MUTANT of IsDue: the run that misses the day does not make up for it.
IsDue_OnTheDay(s) ==
  /\ Exists(s) /\ sched[s].state = "active"
  /\ asset # "DECOMMISSIONED"
  /\ sched[s].next = today + LeadDays

IsDue(s) ==
  /\ Exists(s) /\ sched[s].state = "active"
  /\ asset # "DECOMMISSIONED"
  /\ sched[s].next <= today + LeadDays

\* MUTANT of FindDue: a work order is dated the day of the run.
FindDue_DatedToday(p) ==
  /\ job[p].pc = "generate"
  /\ job' = [job EXCEPT ![p].pc = "open",
                        ![p].due = {s \in Schedules : IsDue(s) /\ job[p].ref \in {s, Null}} \X {today}]
  /\ UNCHANGED <<registerVars, today, wo, sched>>

\* The candidates of a run: one schedule after create and update, or all.
FindDue(p) ==
  /\ job[p].pc = "generate"
  /\ job' = [job EXCEPT ![p].pc = "open",
                        ![p].due = {<<s, sched[s].next>> : s \in
                                      {s \in Schedules : IsDue(s) /\ job[p].ref \in {s, Null}}}]
  /\ UNCHANGED <<registerVars, today, wo, sched>>

\* One candidate: a work order for the due date that was read; or nothing, as
\* one is open already; or a failed run, as the schedule has been deleted.
OpenDue(p, w) ==
  /\ job[p].pc = "open"
  /\ wo[w] = Null
  /\ \E d \in job[p].due :
       /\ ~MustWait(p, w, d[1])
       /\ job' = [job EXCEPT ![p] = IF Exists(d[1]) THEN [@ EXCEPT !.due = job[p].due \ {d}] ELSE Idle]
       /\ wo' = IF Exists(d[1]) /\ ~Refused(w, d[1], "OPEN")
                THEN [wo EXCEPT ![w] = [status |-> "OPEN", schedule |-> d[1], due |-> d[2]]]
                ELSE wo
  /\ UNCHANGED <<registerVars, today, sched>>

EndRun(p) ==
  /\ job[p].pc = "open"
  /\ job[p].due = {}
  /\ End(p)
  /\ UNCHANGED <<registerVars, today, wo, sched>>

-----------------------------------------------------------------------------
\* A statement fails, the transaction times out or the server dies.
Rollback(p) ==
  /\ job[p] # Idle
  /\ End(p)
  /\ UNCHANGED <<registerVars, today, wo, sched>>

Midnight ==
  /\ today < LastDay
  /\ today' = today + 1
  /\ UNCHANGED <<registerVars, wo, sched, job>>

\* What AssetsService does.  Its write of the status waits for a transaction
\* that has updated the asset.
AtTheDesk(c) ==
  /\ \/ \E s \in MANUAL_STATUSES : SetStatus(c, s)
     \/ ~AssetHeld(Null) /\ WriteStatus(c)
     \/ CheckOut(c)
     \/ \E a \in Assignments : HandOut(c, a) \/ CheckIn(c, a)
     \/ TakeIn(c)
     \/ Drop(c)
  /\ UNCHANGED <<today, wo, sched, job>>

\* What people ask of the maintenance services.
Ask(p) ==
  \/ OpenWorkOrder(p)
  \/ \E w \in WorkOrders, to \in ACTIVE_STATUSES \cup Closing : MoveWorkOrder(p, w, to)
  \/ AddSchedule(p)
  \/ \E s \in Schedules, next \in Days, state \in {"active", "paused"} : EditSchedule(p, s, next, state)

\* What the backend goes on with.
Serve(p) ==
  \/ \E w \in WorkOrders : InsertWorkOrder(p, w)
  \/ WriteWorkOrder(p)
  \/ SyncAssetStatus(p)
  \/ CountActive(p)
  \/ TouchAsset(p)
  \/ OnWorkOrderClosed(p)
  \/ CloseTransaction(p)
  \/ \E s \in Schedules, first \in Days, every \in Intervals, basis \in {"FIXED", "FLOATING"} :
       InsertSchedule(p, s, first, every, basis)
  \/ FindDue(p)
  \/ \E w \in WorkOrders : OpenDue(p, w)
  \/ EndRun(p)

Next ==
  \/ Register /\ UNCHANGED <<today, wo, sched, job>>
  \/ \E c \in Clerks : AtTheDesk(c)
  \/ \E p \in Workers : Ask(p)
  \/ \E p \in Procs : Generate(p) \/ Serve(p) \/ Rollback(p)
  \/ \E s \in Schedules : RemoveSchedule(s)
  \/ Midnight

Spec == Init /\ [][Next]_vars

(***************************************************************************)
(* Fairness: the backend goes on with what it has begun; the run is due    *)
(* every hour and not every one of them is cut short.                      *)
(***************************************************************************)
Fairness ==
  /\ \A p \in Procs : WF_vars(Serve(p))
  /\ WF_vars(Generate(cron))
  /\ SF_vars(FindDue(cron))
  /\ SF_vars(\E w \in WorkOrders : OpenDue(cron, w))

FairSpec == Spec /\ Fairness

-----------------------------------------------------------------------------
(***************************************************************************)
(* Properties.                                                             *)
(***************************************************************************)

\* "There is only ever one open work order per schedule" (README.md:286),
\* whoever reopens a work order on a status that is no longer true.
OneOpenPerSchedule == \A s \in Schedules : Cardinality(OpenOf(s)) <= 1

\* "never land on a date that has already passed"
\* (maintenance-schedules.service.ts:189): the service that is recorded last
\* is followed by a due date after it, however late it was done.
NextDueAfterService ==
  [][\A s \in Schedules : Exists(s) /\ sched'[s].last # sched[s].last =>
       sched'[s].next > sched'[s].last]_vars

\* An asset is under maintenance only while some work order is active.
UnderMaintenanceHasWork == asset = "UNDER_MAINTENANCE" => \E w \in WorkOrders : Active(w)

\* "the asset only comes back up once no other work order against it is still
\* active" (maintenance.service.ts:136-137).
InProgressMeansDown ==
  (\E w \in WorkOrders : wo[w] # Null /\ wo[w].status = "IN_PROGRESS") => asset # "ACTIVE"

\* The step opens work orders for the date their schedule is due, not for one
\* that has been dealt with.
OpensForTheDueDate ==
  \A w \in WorkOrders, s \in Schedules :
    wo[w] = Null /\ wo'[w] # Null /\ wo'[w].schedule = s => wo'[w].due = sched[s].next

\* The due date has come and the asset is in service.
Overdue(s) ==
  /\ sched[s] # Null /\ sched[s].state = "active" /\ sched[s].next <= today
  /\ asset # "DECOMMISSIONED"

\* What is due has its work order opened in the end, unless somebody moves it on
\* or pauses it (or the instance runs out of work orders): the hourly run of
\* maintenance-scheduler.service.ts:15-20 makes up for those that failed.
DueIsOpened ==
  \A s \in Schedules :
    Overdue(s) ~> ~Overdue(s) \/ OpenOf(s) # {} \/ \A w \in WorkOrders : wo[w] # Null

-----------------------------------------------------------------------------
(***************************************************************************)
(* The inductive invariant behind them (MaintenanceProofs).                *)
(***************************************************************************)

\* What a request remembers: the work order it moves exists, a schedule it is
\* going to move on exists, and a service it is going to record comes before
\* the next due date.
JobOK(p) ==
  LET j == job[p] IN
  /\ j.pc \in {"write"} \cup InTransaction =>
       /\ j.ref \in WorkOrders /\ wo[j.ref] # Null
       /\ j.to \in ACTIVE_STATUSES \cup Closing
  /\ j.pc = "move" => j.schedule \in Schedules
  /\ j.next # Null => j.schedule \in Schedules /\ sched[j.schedule] # Null

\* One transaction at a time has updated a work order.
Exclusive ==
  \A p, q \in Procs :
    job[p].pc \in InTransaction /\ job[q].pc \in InTransaction /\ job[p].ref = job[q].ref => p = q

\* Work order w is open for schedule s, or a transaction is about to open it.
Claims(w, s) ==
  /\ wo[w] # Null
  /\ wo[w].schedule = s
  /\ \/ wo[w].status \in ACTIVE_STATUSES
     \/ \E q \in Procs : /\ job[q].pc \in InTransaction
                          /\ job[q].ref = w
                          /\ job[q].to \in ACTIVE_STATUSES

OneClaim == \A s \in Schedules, v, w \in WorkOrders : Claims(v, s) /\ Claims(w, s) => v = w

IInv ==
  /\ TypeOK
  /\ \A p \in Procs : JobOK(p)
  /\ Exclusive
  /\ OneClaim
  /\ \A a, b \in Out : a = b

\* A service that is going to be recorded comes before the next due date.
ServiceThenDue == \A p \in Procs : job[p].last # Null => job[p].next # Null /\ job[p].next > job[p].last

=============================================================================
