--------------------------- MODULE MaintenanceHistory ---------------------------
(***************************************************************************)
(* Maintenance with a history variable that tells the behaviours in which  *)
(* requests have overlapped from the others: what a request has looked at  *)
(* before its transaction, the comments take to be still true in it.       *)
(***************************************************************************)
EXTENDS Maintenance

VARIABLE overlapped  \* two requests have been in flight at once

hvars == <<vars, overlapped>>

\* The requests to the maintenance services, and those to the register.
InFlight == ({"maintenance"} \X {p \in Procs : job[p] # Idle})
              \cup ({"register"} \X {c \in Clerks : desk[c] # Free})

HInit == Init /\ overlapped = FALSE
HNext == Next /\ overlapped' = (overlapped \/ Cardinality(InFlight') > 1)
HSpec == HInit /\ [][HNext]_hvars
HFairSpec == HSpec /\ Fairness

\* As long as requests do not overlap, whatever fails on the way, an asset is
\* under maintenance only while some work order is active, ...
AloneUnderMaintenanceHasWork == ~overlapped => UnderMaintenanceHasWork

\* ... what is out of service is in nobody's hands, ...
AloneDecommissionedIsHome == ~overlapped => DecommissionedIsHome

\* ... and a work order is opened for the date the schedule is due.
AloneOpenedForTheDueDate == [][~overlapped' => OpensForTheDueDate]_hvars

(***************************************************************************)
(* The inductive invariant behind them (MaintenanceProofs).                *)
(***************************************************************************)
OneInFlight == \A x, y \in InFlight : x = y

\* What a request has seen of the asset is still so, a transaction that closes
\* the last active work order takes the asset out of maintenance, and a run
\* opens work orders for the dates that are due.
Undisturbed(p) ==
  LET j == job[p] IN
  /\ j.put # "DECOMMISSIONED"
  /\ j.put = "UNDER_MAINTENANCE" => j.to \notin Closing
  /\ j.pc = "count" /\ asset = "UNDER_MAINTENANCE" => j.seen = asset
  /\ j.pc \in {"touch", "move", "close"} /\ j.put = Null /\ j.to \in Closing =>
       (asset = "UNDER_MAINTENANCE" => StillActive(j.ref) # {})
  /\ j.pc = "open" => \A d \in j.due : d[2] = sched[d[1]].next

\* An asset that is about to be decommissioned is at home; one that is about
\* to be handed out is in service.
Attended(c) ==
  /\ desk[c].pc = "status" => desk[c].status \in MANUAL_STATUSES
  /\ desk[c].pc = "status" /\ desk[c].status = "DECOMMISSIONED" => Out = {}
  /\ desk[c].pc = "out" => asset = "ACTIVE"

SerialInv ==
  /\ UnderMaintenanceHasWork
  /\ DecommissionedIsHome
  /\ \A p \in Procs : Undisturbed(p)
  /\ \A c \in Clerks : Attended(c)

AloneInv == ~overlapped => OneInFlight /\ SerialInv

=============================================================================
