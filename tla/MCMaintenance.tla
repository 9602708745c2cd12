----------------------------- MODULE MCMaintenance -----------------------------
(***************************************************************************)
(* Instances of MaintenanceHistory for TLC.                                *)
(***************************************************************************)
EXTENDS MaintenanceHistory

CONSTANTS a1, a2, c1, c2, w1, w2, s1, p1, p2

None           == {}
TwoAssignments == {a1, a2}
OneClerk       == {c1}
TwoClerks      == {c1, c2}
OneWorkOrder   == {w1}
TwoWorkOrders  == {w1, w2}
OneSchedule    == {s1}
OneWorker      == {p1}
TwoWorkers     == {p1, p2}

=============================================================================
