------------------------------- MODULE MCAccess -------------------------------
(***************************************************************************)
(* Instance of Access for TLC: the first administrator and one other user, *)
(* whose address is outside the company and whom Cognito may put in the    *)
(* group staff, at two tabs, the second always the other user's.           *)
(***************************************************************************)
EXTENDS Access

CONSTANTS u1, u2, t1, t2

TwoUsers   == {u1, u2}
TwoTabs    == {t1, t2}
Strangers  == {u2}
Seats      == {[t \in TwoTabs |-> IF t = t1 THEN u1 ELSE u2], [t \in TwoTabs |-> u2]}
Membership == [u \in TwoUsers |-> IF u = u1 THEN {} ELSE {"staff"}]
Closing    == {[open |-> FALSE, limited |-> TRUE]}

FairAccess == AccessSpec /\ AccessFairness

=============================================================================
