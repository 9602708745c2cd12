----------------------------- MODULE Appointments -----------------------------
(***************************************************************************)
(* Booking a slot with the store, and the store's review of the booking:   *)
(* backend/src/modules/appointments/appointments.service.ts.               *)
(*                                                                         *)
(* Each request reads first and writes later; in between other requests    *)
(* commit.  A booking counts and inserts in one transaction, at PostgreSQL's *)
(* READ COMMITTED; a review issues the stock of its lines and moves the    *)
(* appointment in one transaction; a cancellation has none.                *)
(*                                                                         *)
(* Whether issueStock finds enough on the shelf is the business of module  *)
(* Inventory: here a line is issued or the request is refused.  The        *)
(* calendar of slots is left out: which of them exist and are not past.    *)
(***************************************************************************)
EXTENDS Integers, FiniteSets, FiniteSetsExt

CONSTANTS
  Appts,       \* ids of Appointment rows
  Users,       \* people who are signed in
  StoreUsers,  \* those with a role of STORE_ROLES
  Slots,       \* (date, time) pairs
  Items,       \* what an appointment may hand over
  Procs,       \* requests that may be in flight at once
  Capacities,  \* values of slotCapacity an admin may set
  Null         \* absence of a row

Statuses == {"PENDING", "APPROVED", "DECLINED", "COMPLETED", "CANCELLED"}

\* A slot is taken while the appointment is waiting or approved.
HOLDING_SLOT == {"PENDING", "APPROVED"}

Appointment == [status : Statuses, requester : Users, slot : Slots]

ASSUME AppointmentsAssumption ==
  /\ StoreUsers \subseteq Users
  /\ Capacities \subseteq Nat \ {0}
  /\ \E largest \in Capacities : \A c \in Capacities : c <= largest
  /\ IsFiniteSet(Appts) /\ IsFiniteSet(Procs)
  /\ Null \notin Appointment

VARIABLES
  capacity,  \* the slotCapacity setting
  appt,      \* Appointment rows
  issued,    \* Consumption rows of each appointment and item
  req        \* the request each process is serving

vars == <<capacity, appt, issued, req>>

(***************************************************************************)
(* A request: where it is, who makes it, what it is about and what it has  *)
(* read: the capacity (book), the status (review).  A review has issued    *)
(* the lines in done, and not yet committed them.                          *)
(***************************************************************************)
Request == [pc : {"idle", "book", "create", "cancel", "review"}, user : Users \cup {Null},
            slot : Slots \cup {Null}, capacity : Nat, ref : Appts \cup {Null},
            read : Statuses \cup {Null}, decision : Statuses \cup {Null},
            lines : SUBSET Items, done : SUBSET Items]

Idle == [pc |-> "idle", user |-> Null, slot |-> Null, capacity |-> 0, ref |-> Null,
         read |-> Null, decision |-> Null, lines |-> {}, done |-> {}]

TypeOK ==
  /\ capacity \in Capacities
  /\ appt \in [Appts -> Appointment \cup {Null}]
  /\ issued \in [Appts -> [Items -> Nat]]
  /\ req \in [Procs -> Request]

Init ==
  /\ capacity \in Capacities
  /\ appt = [a \in Appts |-> Null]
  /\ issued = [a \in Appts |-> [i \in Items |-> 0]]
  /\ req = [p \in Procs |-> Idle]

Existing == {a \in Appts : appt[a] # Null}

\* The appointments that take the slot.
Holders(s) == {a \in Existing : appt[a].slot = s /\ appt[a].status \in HOLDING_SLOT}

-----------------------------------------------------------------------------
Begin(p, request) ==
  /\ req[p].pc = "idle"
  /\ req' = [req EXCEPT ![p] = request]
  /\ UNCHANGED <<capacity, appt, issued>>

End(p) == req' = [req EXCEPT ![p] = Idle]

\* An admin saves another capacity; what is booked already stays.
UpdateSchedule(c) ==
  /\ c # capacity
  /\ capacity' = c
  /\ UNCHANGED <<appt, issued, req>>

(***************************************************************************)
(* book: the schedule is read first, ...                                   *)
(***************************************************************************)
Book(p, u, s) ==
  Begin(p, [Idle EXCEPT !.pc = "book", !.user = u, !.slot = s, !.capacity = capacity])

\* MUTANT of Refuses: one booking too many is let in.
Refuses_OffByOne(u, s, cap) ==
  \/ Cardinality(Holders(s)) > cap
  \/ \E a \in Holders(s) : appt[a].requester = u

\* The slot is full, or the same person has it already.
Refuses(u, s, cap) ==
  \/ Cardinality(Holders(s)) >= cap
  \/ \E a \in Holders(s) : appt[a].requester = u

\* ... then who holds the slot; nothing is locked by that ...
CheckSlot(p) ==
  /\ req[p].pc = "book"
  /\ IF Refuses(req[p].user, req[p].slot, req[p].capacity)
     THEN End(p)
     ELSE req' = [req EXCEPT ![p].pc = "create"]
  /\ UNCHANGED <<capacity, appt, issued>>

\* ... and then the booking is inserted, whatever was booked since.
CreateBooking(p, a) ==
  /\ req[p].pc = "create"
  /\ appt[a] = Null
  /\ appt' = [appt EXCEPT ![a] = [status |-> "PENDING", requester |-> req[p].user,
                                  slot |-> req[p].slot]]
  /\ End(p)
  /\ UNCHANGED <<capacity, issued>>

(***************************************************************************)
(* cancel: permission and status are checked on a row read before, ...     *)
(***************************************************************************)
Cancel(p, u, a) ==
  /\ a \in Existing
  /\ appt[a].requester = u \/ u \in StoreUsers
  /\ appt[a].status \in HOLDING_SLOT
  /\ Begin(p, [Idle EXCEPT !.pc = "cancel", !.user = u, !.ref = a])

\* MUTANT of CommitCancel: writes the decision of a review instead of CANCELLED.
CommitCancel_WritesDecision(p) ==
  /\ req[p].pc = "cancel"
  /\ appt' = [appt EXCEPT ![req[p].ref].status = req[p].decision]
  /\ End(p)
  /\ UNCHANGED <<capacity, issued>>

\* ... and the row is updated without looking again.
CommitCancel(p) ==
  /\ req[p].pc = "cancel"
  /\ appt' = [appt EXCEPT ![req[p].ref].status = "CANCELLED"]
  /\ End(p)
  /\ UNCHANGED <<capacity, issued>>

(***************************************************************************)
(* review: the decisions the status read allows.                           *)
(***************************************************************************)

\* MUTANT of Allowed: a completed appointment may be completed again.
Allowed_Again(status) ==
  CASE status = "PENDING" -> {"APPROVED", "DECLINED", "COMPLETED"}
    [] status \in {"APPROVED", "COMPLETED"} -> {"DECLINED", "COMPLETED"}
    [] OTHER -> {}

Allowed(status) ==
  CASE status = "PENDING" -> {"APPROVED", "DECLINED", "COMPLETED"}
    [] status = "APPROVED" -> {"DECLINED", "COMPLETED"}
    [] OTHER -> {}

\* Only a completion hands over items; repeated lines were merged.
Review(p, u, a, decision, lines) ==
  /\ u \in StoreUsers
  /\ a \in Existing
  /\ decision \in Allowed(appt[a].status)
  /\ decision # "COMPLETED" => lines = {}
  /\ Begin(p, [Idle EXCEPT !.pc = "review", !.user = u, !.ref = a, !.read = appt[a].status,
                           !.decision = decision, !.lines = lines])

\* MUTANT of IssueLine: issueStock runs in a transaction of its own.
IssueLine_CommittedAtOnce(p, i) ==
  /\ req[p].pc = "review"
  /\ i \in req[p].lines \ req[p].done
  /\ req' = [req EXCEPT ![p].done = @ \cup {i}]
  /\ issued' = [issued EXCEPT ![req[p].ref][i] = @ + 1]
  /\ UNCHANGED <<capacity, appt>>

\* issueStock, in the transaction of the review.
IssueLine(p, i) ==
  /\ req[p].pc = "review"
  /\ i \in req[p].lines \ req[p].done
  /\ req' = [req EXCEPT ![p].done = @ \cup {i}]
  /\ UNCHANGED <<capacity, appt, issued>>

\* MUTANT of Unchanged: the update is not conditional on the status.
Unchanged_NotAsked(p) == TRUE

\* updateMany finds the appointment as the review has read it.
Unchanged(p) == appt[req[p].ref].status = req[p].read

\* The conditional update and the commit of everything the review did, or a
\* conflict and nothing of it.
Decide(p) ==
  /\ req[p].pc = "review"
  /\ req[p].done = req[p].lines
  /\ IF Unchanged(p)
     THEN /\ appt' = [appt EXCEPT ![req[p].ref].status = req[p].decision]
          /\ issued' = [issued EXCEPT ![req[p].ref] =
                          [i \in Items |-> @[i] + IF i \in req[p].done THEN 1 ELSE 0]]
     ELSE UNCHANGED <<appt, issued>>
  /\ End(p)
  /\ UNCHANGED capacity

\* issueStock refuses a line, a statement fails or the server dies.
Rollback(p) ==
  /\ req[p].pc # "idle"
  /\ End(p)
  /\ UNCHANGED <<capacity, appt, issued>>

-----------------------------------------------------------------------------
Next ==
  \/ \E c \in Capacities : UpdateSchedule(c)
  \/ \E p \in Procs :
       \/ \E u \in Users, s \in Slots : Book(p, u, s)
       \/ CheckSlot(p)
       \/ \E a \in Appts : CreateBooking(p, a)
       \/ \E u \in Users, a \in Appts : Cancel(p, u, a)
       \/ CommitCancel(p)
       \/ \E u \in Users, a \in Appts, d \in Statuses, lines \in SUBSET Items :
            Review(p, u, a, d, lines)
       \/ \E i \in Items : IssueLine(p, i)
       \/ Decide(p)
       \/ Rollback(p)

Spec == Init /\ [][Next]_vars

-----------------------------------------------------------------------------
(***************************************************************************)
(* Properties.                                                             *)
(***************************************************************************)

\* "so two people completing it at once cannot issue the stock twice"
\* (appointments.service.ts:265-266): no item is issued twice for an
\* appointment, whoever else reviews or cancels it meanwhile.
IssuedAtMostOnce == \A a \in Appts, i \in Items : issued[a][i] <= 1

\* Stock leaves with an appointment only in the step that turns it from waiting
\* or approved into completed, and then every line of the review leaves.
IssuedOnlyByCompletion ==
  [][\A a \in Appts : issued'[a] # issued[a] =>
       /\ appt[a].status \in HOLDING_SLOT
       /\ appt'[a].status = "COMPLETED"
       /\ \E p \in Procs : req[p].lines = {i \in Items : issued'[a][i] > issued[a][i]}]_vars

\* An appointment that has given up its slot never takes one again.  The only
\* change it can still see is a cancellation that was under way.
ClosedStaysClosed ==
  [][\A a \in Existing : appt[a].status \notin HOLDING_SLOT /\ appt'[a] # appt[a] =>
       /\ appt'[a].status = "CANCELLED"
       /\ \E p \in Procs : req[p].pc = "cancel" /\ req[p].ref = a]_vars

\* The bookings of a slot that have been let in and not been inserted yet.
LetIn(s) == {p \in Procs : req[p].pc = "create" /\ req[p].slot = s}

\* How far a slot can be overbooked, and how often one person can hold it: by
\* the requests in flight and no further.  With one request at a time, a slot
\* never holds more than the capacity and nobody holds it twice.
OverbookedByOverlapOnly ==
  \A s \in Slots :
    /\ Cardinality(Holders(s)) + Cardinality(LetIn(s)) <= Max(Capacities) + Cardinality(Procs) - 1
    /\ \A u \in Users :
         Cardinality({a \in Holders(s) : appt[a].requester = u})
           + Cardinality({p \in LetIn(s) : req[p].user = u}) <= Cardinality(Procs)

\* "slotCapacity: appointments the store can take at the same time"
\* (appointment-schedule.ts:10); "Refused for ... a full slot" (README.md:410).
SlotNotOverbooked == \A s \in Slots : Cardinality(Holders(s)) <= Max(Capacities)

-----------------------------------------------------------------------------
(***************************************************************************)
(* The inductive invariant behind them (AppointmentsProofs).               *)
(***************************************************************************)

\* A request that is about an appointment names one that exists, and a review
\* was let in by the status it has read and hands over items only to complete.
RequestOK(p) ==
  /\ req[p].pc \in {"cancel", "review"} => req[p].ref \in Existing
  /\ req[p].pc \in {"book", "create"} => req[p].user \in Users /\ req[p].slot \in Slots
  /\ req[p].pc = "review" => /\ req[p].decision \in Allowed(req[p].read)
                             /\ req[p].decision # "COMPLETED" => req[p].lines = {}

\* Nothing has been issued for an appointment that holds its slot.
NothingIssuedYet ==
  \A a \in Appts, i \in Items :
    (a \in Existing => appt[a].status \in HOLDING_SLOT) => issued[a][i] = 0

IInv ==
  /\ TypeOK
  /\ \A p \in Procs : RequestOK(p)
  /\ NothingIssuedYet
  /\ IssuedAtMostOnce

\* A booking compares with a capacity that was set when it read the schedule.
CapacityWasSet == \A p \in Procs : req[p].pc = "book" => req[p].capacity \in Capacities

OverbookInv == CapacityWasSet /\ OverbookedByOverlapOnly

=============================================================================
