---------------------------- MODULE MCAppointments ----------------------------
(***************************************************************************)
(* Instances of Appointments for TLC: one slot, a requester and a member   *)
(* of the store, who may also book.                                        *)
(***************************************************************************)
EXTENDS Appointments, TLC

CONSTANTS a1, a2, a3, u1, u2, s1, i1, i2, p1, p2

TwoAppts   == {a1, a2}
ThreeAppts == {a1, a2, a3}
TwoUsers   == {u1, u2}
Store      == {u2}
OneSlot    == {s1}
OneItem    == {i1}
TwoItems   == {i1, i2}
TwoProcs   == {p1, p2}

\* Appointments, items and processes are interchangeable; users are not.
Symmetry == Permutations(Appts) \cup Permutations(Items) \cup Permutations(Procs)

=============================================================================
