-------------------------- MODULE AppointmentsProofs --------------------------
(***************************************************************************)
(* Proofs about Appointments, for any number of appointments, slots, items *)
(* and requests in flight.                                                 *)
(***************************************************************************)
EXTENDS Appointments, FiniteSetTheorems, TLAPS

USE AppointmentsAssumption

\* The conditional update of a review was let in by a status that holds a slot.
LEMMA AllowedFromHolding ==
  ASSUME NEW s \in Statuses \cup {Null}, NEW d \in Allowed(s)
  PROVE  s \in HOLDING_SLOT /\ d \in Statuses /\ d \notin {"PENDING", "CANCELLED"}
  BY DEF Allowed, HOLDING_SLOT, Statuses

LEMMA IdleFacts == Idle \in Request /\ Idle.pc = "idle"
  BY DEF Idle, Request

LEMMA InitInv == Init => IInv
  BY IdleFacts DEF Init, IInv, TypeOK, RequestOK, NothingIssuedYet, IssuedAtMostOnce, Existing

\* A step that only moves a request on.
LEMMA RequestStep ==
  ASSUME IInv, NEW p \in Procs, NEW r \in Request, req' = [req EXCEPT ![p] = r],
         UNCHANGED <<capacity, appt, issued>>,
         r.pc \in {"cancel", "review"} => r.ref \in Existing,
         r.pc \in {"book", "create"} => r.user \in Users /\ r.slot \in Slots,
         r.pc = "review" => /\ r.decision \in Allowed(r.read)
                            /\ r.decision # "COMPLETED" => r.lines = {}
  PROVE  IInv'
  <1>1. TypeOK'
    BY DEF IInv, TypeOK
  <1>2. \A q \in Procs : RequestOK(q)'
    BY DEF IInv, TypeOK, RequestOK, Existing
  <1>3. NothingIssuedYet' /\ IssuedAtMostOnce'
    BY DEF IInv, NothingIssuedYet, IssuedAtMostOnce, Existing
  <1> QED
    BY <1>1, <1>2, <1>3 DEF IInv

\* A step that ends a request and changes rows: it keeps the invariant if no
\* row vanishes and what is issued stays in order.
LEMMA EndStep ==
  ASSUME IInv, NEW p \in Procs, End(p), capacity' \in Capacities,
         appt' \in [Appts -> Appointment \cup {Null}],
         issued' \in [Appts -> [Items -> Nat]],
         Existing \subseteq Existing', NothingIssuedYet', IssuedAtMostOnce'
  PROVE  IInv'
  <1>1. TypeOK'
    BY IdleFacts DEF End, IInv, TypeOK
  <1>2. \A q \in Procs : RequestOK(q)'
    BY IdleFacts DEF End, IInv, TypeOK, RequestOK
  <1> QED
    BY <1>1, <1>2 DEF IInv

LEMMA BookInv ==
  ASSUME IInv, NEW p \in Procs, NEW u \in Users, NEW s \in Slots, Book(p, u, s)
  PROVE  IInv'
  <1> DEFINE r == [Idle EXCEPT !.pc = "book", !.user = u, !.slot = s, !.capacity = capacity]
  <1>1. capacity \in Nat
    BY DEF IInv, TypeOK
  <1>2. r \in Request /\ r.pc = "book" /\ r.user = u /\ r.slot = s
    BY <1>1 DEF Idle, Request
  <1>3. req' = [req EXCEPT ![p] = r] /\ UNCHANGED <<capacity, appt, issued>>
    BY DEF Book, Begin
  <1> HIDE DEF r
  <1> QED
    BY <1>2, <1>3, RequestStep

LEMMA CheckSlotInv ==
  ASSUME IInv, NEW p \in Procs, CheckSlot(p)
  PROVE  IInv'
  <1> DEFINE r == [req[p] EXCEPT !.pc = "create"]
  <1>1. UNCHANGED <<capacity, appt, issued>> /\ req[p] \in Request
    BY DEF CheckSlot, IInv, TypeOK
  <1>2. CASE End(p)
    BY <1>1, <1>2, IdleFacts, RequestStep DEF End
  <1>3. CASE req' = [req EXCEPT ![p].pc = "create"]
    <2>1. r \in Request /\ r.pc = "create" /\ r.user = req[p].user /\ r.slot = req[p].slot
      BY <1>1 DEF Request
    <2>2. req' = [req EXCEPT ![p] = r]
      BY <1>3
    <2>3. r.user \in Users /\ r.slot \in Slots
      BY <2>1 DEF CheckSlot, IInv, RequestOK
    <2> HIDE DEF r
    <2> QED
      BY <1>1, <2>1, <2>2, <2>3, RequestStep
  <1> QED
    BY <1>2, <1>3 DEF CheckSlot

LEMMA CreateBookingInv ==
  ASSUME IInv, NEW p \in Procs, NEW a \in Appts, CreateBooking(p, a)
  PROVE  IInv'
  <1> DEFINE row == [status |-> "PENDING", requester |-> req[p].user, slot |-> req[p].slot]
  <1>1. row \in Appointment /\ row.status \in HOLDING_SLOT /\ row # Null
    BY DEF CreateBooking, IInv, RequestOK, Appointment, Statuses, HOLDING_SLOT
  <1>2. End(p) /\ UNCHANGED <<capacity, issued>> /\ appt[a] = Null
        /\ appt' = [appt EXCEPT ![a] = row]
    BY DEF CreateBooking
  <1> HIDE DEF row
  <1>3. appt' \in [Appts -> Appointment \cup {Null}] /\ appt'[a] = row
        /\ \A b \in Appts \ {a} : appt'[b] = appt[b]
    BY <1>1, <1>2 DEF IInv, TypeOK
  <1>4. Existing \subseteq Existing'
    BY <1>1, <1>3 DEF Existing
  <1>5. NothingIssuedYet'
    BY <1>1, <1>2, <1>3 DEF IInv, NothingIssuedYet, Existing
  <1>6. IssuedAtMostOnce'
    BY <1>2 DEF IInv, IssuedAtMostOnce
  <1> QED
    BY <1>2, <1>3, <1>4, <1>5, <1>6, EndStep DEF IInv, TypeOK

LEMMA CancelInv ==
  ASSUME IInv, NEW p \in Procs, NEW u \in Users, NEW a \in Appts, Cancel(p, u, a)
  PROVE  IInv'
  <1> DEFINE r == [Idle EXCEPT !.pc = "cancel", !.user = u, !.ref = a]
  <1>1. r \in Request /\ r.pc = "cancel" /\ r.ref = a
    BY DEF Idle, Request
  <1>2. req' = [req EXCEPT ![p] = r] /\ UNCHANGED <<capacity, appt, issued>> /\ a \in Existing
    BY DEF Cancel, Begin
  <1> HIDE DEF r
  <1> QED
    BY <1>1, <1>2, RequestStep

\* The status of an existing appointment is replaced.
LEMMA StatusFacts ==
  ASSUME IInv, NEW a \in Existing, NEW s \in Statuses, appt' = [appt EXCEPT ![a].status = s]
  PROVE  /\ appt' \in [Appts -> Appointment \cup {Null}]
         /\ appt'[a].status = s
         /\ appt'[a].slot = appt[a].slot /\ appt'[a].requester = appt[a].requester
         /\ \A b \in Appts \ {a} : appt'[b] = appt[b]
         /\ Existing' = Existing
  <1>1. a \in Appts /\ appt[a] \in Appointment
    BY DEF Existing, IInv, TypeOK
  <1> DEFINE row == [appt[a] EXCEPT !.status = s]
  <1>2. /\ row \in Appointment /\ row.status = s /\ row # Null
        /\ row.slot = appt[a].slot /\ row.requester = appt[a].requester
    BY <1>1 DEF Appointment
  <1>3. appt' = [appt EXCEPT ![a] = row]
    OBVIOUS
  <1> HIDE DEF row
  <1>4. /\ appt' \in [Appts -> Appointment \cup {Null}]
        /\ appt'[a] = row
        /\ \A b \in Appts \ {a} : appt'[b] = appt[b]
    BY <1>1, <1>2, <1>3 DEF IInv, TypeOK
  <1> QED
    BY <1>1, <1>2, <1>4 DEF Existing

LEMMA CommitCancelInv ==
  ASSUME IInv, NEW p \in Procs, CommitCancel(p)
  PROVE  IInv'
  <1>1. /\ req[p].ref \in Existing /\ End(p) /\ UNCHANGED <<capacity, issued>>
        /\ appt' = [appt EXCEPT ![req[p].ref].status = "CANCELLED"]
    BY DEF CommitCancel, IInv, RequestOK
  <1>2. /\ appt' \in [Appts -> Appointment \cup {Null}] /\ Existing' = Existing
        /\ appt'[req[p].ref].status = "CANCELLED"
        /\ \A b \in Appts \ {req[p].ref} : appt'[b] = appt[b]
    BY <1>1, StatusFacts DEF Statuses
  <1>3. NothingIssuedYet' /\ IssuedAtMostOnce'
    BY <1>1, <1>2 DEF IInv, NothingIssuedYet, IssuedAtMostOnce, HOLDING_SLOT
  <1> QED
    BY <1>1, <1>2, <1>3, EndStep DEF IInv, TypeOK

LEMMA ReviewInv ==
  ASSUME IInv, NEW p \in Procs, NEW u \in Users, NEW a \in Appts, NEW d \in Statuses,
         NEW lines \in SUBSET Items, Review(p, u, a, d, lines)
  PROVE  IInv'
  <1> DEFINE r == [Idle EXCEPT !.pc = "review", !.user = u, !.ref = a, !.read = appt[a].status,
                               !.decision = d, !.lines = lines]
  <1>1. a \in Existing /\ d \in Allowed(appt[a].status) /\ appt[a].status \in Statuses
    BY DEF Review, Existing, IInv, TypeOK, Appointment
  <1>2. r \in Request
    BY <1>1 DEF Idle, Request
  <1>3. r.pc = "review" /\ r.ref = a /\ r.decision = d /\ r.read = appt[a].status
        /\ r.lines = lines
    BY DEF Idle
  <1>4. /\ req' = [req EXCEPT ![p] = r] /\ UNCHANGED <<capacity, appt, issued>>
        /\ d # "COMPLETED" => lines = {}
    BY DEF Review, Begin
  <1> HIDE DEF r
  <1> QED
    BY <1>1, <1>2, <1>3, <1>4, RequestStep

LEMMA IssueLineInv ==
  ASSUME IInv, NEW p \in Procs, NEW i \in Items, IssueLine(p, i)
  PROVE  IInv'
  <1> DEFINE done == req[p].done \cup {i}
             r == [req[p] EXCEPT !.done = done]
  <1>1. req[p] \in Request /\ req[p].pc = "review" /\ RequestOK(p)
    BY DEF IssueLine, IInv, TypeOK
  <1>2. done \in SUBSET Items
    BY <1>1 DEF Request
  <1>3. req' = [req EXCEPT ![p] = r] /\ UNCHANGED <<capacity, appt, issued>>
    BY DEF IssueLine
  <1> HIDE DEF done
  <1>4. /\ r \in Request
        /\ r.pc = "review" /\ r.ref = req[p].ref /\ r.decision = req[p].decision
        /\ r.read = req[p].read /\ r.lines = req[p].lines
    BY <1>1, <1>2 DEF Request
  <1> HIDE DEF r
  <1> QED
    BY <1>1, <1>3, <1>4, RequestStep DEF RequestOK

\* The rows of a review that finds the appointment as it has read it.
LEMMA DecideFacts ==
  ASSUME IInv, NEW p \in Procs, Decide(p), Unchanged(p)
  PROVE  /\ req[p].ref \in Existing /\ req[p].ref \in Appts
         /\ appt[req[p].ref].status \in HOLDING_SLOT
         /\ req[p].decision \in Statuses \ {"PENDING"}
         /\ appt' = [appt EXCEPT ![req[p].ref].status = req[p].decision]
         /\ issued' \in [Appts -> [Items -> Nat]]
         /\ \A b \in Appts \ {req[p].ref} : issued'[b] = issued[b]
         /\ \A i \in Items : issued[req[p].ref][i] = 0
         /\ \A i \in Items : issued'[req[p].ref][i] = IF i \in req[p].done THEN 1 ELSE 0
  <1> DEFINE a == req[p].ref
  <1>1. /\ req[p] \in Request /\ a \in Existing /\ req[p].decision \in Allowed(req[p].read)
        /\ req[p].read = appt[a].status
    BY DEF Decide, Unchanged, IInv, TypeOK, RequestOK
  <1>2. appt[a].status \in HOLDING_SLOT /\ req[p].decision \in Statuses \ {"PENDING"}
    <2>1. req[p].read \in Statuses \cup {Null}
      BY <1>1 DEF Request
    <2> QED
      BY <1>1, <2>1, AllowedFromHolding
  <1>3. a \in Appts /\ \A i \in Items : issued[a][i] = 0
    BY <1>1, <1>2 DEF IInv, NothingIssuedYet, Existing
  <1>4. /\ appt' = [appt EXCEPT ![a].status = req[p].decision]
        /\ issued' = [issued EXCEPT ![a] =
                        [i \in Items |-> issued[a][i] + IF i \in req[p].done THEN 1 ELSE 0]]
    BY DEF Decide
  <1>5. [i \in Items |-> issued[a][i] + IF i \in req[p].done THEN 1 ELSE 0]
          = [i \in Items |-> IF i \in req[p].done THEN 1 ELSE 0]
    BY <1>3
  <1>6. [i \in Items |-> IF i \in req[p].done THEN 1 ELSE 0] \in [Items -> Nat]
    OBVIOUS
  <1> QED
    BY <1>1, <1>2, <1>3, <1>4, <1>5, <1>6 DEF IInv, TypeOK

LEMMA DecideInv ==
  ASSUME IInv, NEW p \in Procs, Decide(p)
  PROVE  IInv'
  <1> DEFINE a == req[p].ref
  <1>1. End(p) /\ UNCHANGED capacity
    BY DEF Decide
  <1>2. CASE Unchanged(p)
    <2>0. /\ a \in Existing /\ a \in Appts /\ req[p].decision \in Statuses
          /\ appt' = [appt EXCEPT ![a].status = req[p].decision]
          /\ issued' \in [Appts -> [Items -> Nat]]
          /\ \A b \in Appts \ {a} : issued'[b] = issued[b]
          /\ \A i \in Items : issued'[a][i] = IF i \in req[p].done THEN 1 ELSE 0
      BY <1>2, DecideFacts
    <2>1. /\ appt' \in [Appts -> Appointment \cup {Null}] /\ Existing' = Existing
          /\ appt'[a].status = req[p].decision
          /\ \A b \in Appts \ {a} : appt'[b] = appt[b]
      BY <2>0, StatusFacts
    <2>2. IssuedAtMostOnce'
      <3>1. \A i \in Items : issued'[a][i] <= 1
        BY <2>0
      <3>2. \A b \in Appts \ {a} : \A i \in Items : issued'[b][i] <= 1
        BY <2>0 DEF IInv, IssuedAtMostOnce
      <3> QED
        BY <3>1, <3>2 DEF IssuedAtMostOnce
    <2>3. NothingIssuedYet'
      <3> SUFFICES ASSUME NEW b \in Appts, NEW i \in Items,
                          b \in Existing' => appt'[b].status \in HOLDING_SLOT
                   PROVE  issued'[b][i] = 0
        BY DEF NothingIssuedYet
      <3>1. CASE b = a
        <4>1. req[p].decision = "APPROVED"
          BY <1>2, <2>1, <3>1, DecideFacts DEF HOLDING_SLOT
        <4>2. req[p].done = {}
          BY <4>1 DEF Decide, IInv, RequestOK
        <4> QED
          BY <2>0, <3>1, <4>2
      <3>2. CASE b # a
        BY <2>0, <2>1, <3>2 DEF IInv, NothingIssuedYet
      <3> QED
        BY <3>1, <3>2
    <2> QED
      BY <1>1, <2>0, <2>1, <2>2, <2>3, EndStep DEF IInv, TypeOK
  <1>3. CASE ~Unchanged(p)
    <2>1. UNCHANGED <<appt, issued>>
      BY <1>3 DEF Decide
    <2> QED
      BY <1>1, <2>1, EndStep DEF IInv, TypeOK, NothingIssuedYet, IssuedAtMostOnce, Existing
  <1> QED
    BY <1>2, <1>3

LEMMA UpdateScheduleInv ==
  ASSUME IInv, NEW c \in Capacities, UpdateSchedule(c)
  PROVE  IInv'
  BY DEF UpdateSchedule, IInv, TypeOK, RequestOK, NothingIssuedYet, IssuedAtMostOnce, Existing

LEMMA RollbackInv ==
  ASSUME IInv, NEW p \in Procs, Rollback(p)
  PROVE  IInv'
  BY IdleFacts, RequestStep DEF Rollback, End

LEMMA NextInv == IInv /\ [Next]_vars => IInv'
  <1> SUFFICES ASSUME IInv, [Next]_vars PROVE IInv'
    OBVIOUS
  <1>1. CASE UNCHANGED vars
    BY <1>1 DEF vars, IInv, TypeOK, RequestOK, NothingIssuedYet, IssuedAtMostOnce, Existing
  <1>2. CASE Next
    BY <1>2, UpdateScheduleInv, BookInv, CheckSlotInv, CreateBookingInv, CancelInv,
       CommitCancelInv, ReviewInv, IssueLineInv, DecideInv, RollbackInv DEF Next
  <1> QED
    BY <1>1, <1>2

THEOREM ReviewInvariant == Spec => []IInv
  BY InitInv, NextInv, PTL DEF Spec

\* Rows and requests keep their shape.
THEOREM TypeCorrect == Spec => []TypeOK
  <1>1. IInv => TypeOK
    BY DEF IInv
  <1> QED
    BY <1>1, ReviewInvariant, PTL

\* However many people review and cancel an appointment at once, none of its
\* items is issued twice.
THEOREM IssuedOnce == Spec => []IssuedAtMostOnce
  <1>1. IInv => IssuedAtMostOnce
    BY DEF IInv
  <1> QED
    BY <1>1, ReviewInvariant, PTL

-----------------------------------------------------------------------------
(***************************************************************************)
(* What a step may do to an appointment.                                   *)
(***************************************************************************)

\* Stock leaves with an appointment only when it is completed.
THEOREM IssuesOnlyOnCompletion == Spec => IssuedOnlyByCompletion
  <1> DEFINE Step == \A a \in Appts : issued'[a] # issued[a] =>
                       /\ appt[a].status \in HOLDING_SLOT
                       /\ appt'[a].status = "COMPLETED"
                       /\ \E p \in Procs :
                            req[p].lines = {i \in Items : issued'[a][i] > issued[a][i]}
  <1>1. ASSUME IInv, NEW p \in Procs, Decide(p) PROVE Step
    <2> DEFINE a == req[p].ref
    <2>1. CASE ~Unchanged(p)
      BY <1>1, <2>1 DEF Decide
    <2>2. CASE Unchanged(p)
      <3>1. /\ a \in Existing /\ a \in Appts /\ req[p].decision \in Statuses
            /\ appt[a].status \in HOLDING_SLOT
            /\ appt' = [appt EXCEPT ![a].status = req[p].decision]
            /\ issued' \in [Appts -> [Items -> Nat]]
            /\ \A b \in Appts \ {a} : issued'[b] = issued[b]
            /\ \A i \in Items : issued[a][i] = 0
            /\ \A i \in Items : issued'[a][i] = IF i \in req[p].done THEN 1 ELSE 0
        BY <1>1, <2>2, DecideFacts
      <3>2. appt'[a].status = req[p].decision
        BY <1>1, <3>1, StatusFacts
      <3>3. req[p].lines \subseteq Items /\ req[p].done = req[p].lines
        BY <1>1 DEF Decide, IInv, TypeOK, Request
      <3>4. req[p].lines = {i \in Items : issued'[a][i] > issued[a][i]}
        BY <3>1, <3>3
      <3>5. req[p].decision # "COMPLETED" => issued'[a] = issued[a]
        <4> SUFFICES ASSUME req[p].decision # "COMPLETED" PROVE issued'[a] = issued[a]
          OBVIOUS
        <4>1. req[p].done = {}
          BY <1>1, <3>3 DEF Decide, IInv, RequestOK
        <4>2. \A i \in Items : issued'[a][i] = issued[a][i]
          BY <3>1, <4>1
        <4>3. issued[a] \in [Items -> Nat] /\ issued'[a] \in [Items -> Nat]
          BY <1>1, <3>1 DEF IInv, TypeOK
        <4> QED
          BY <4>2, <4>3
      <3> HIDE DEF a
      <3> QED
        BY <3>1, <3>2, <3>4, <3>5
    <2> QED
      BY <2>1, <2>2
  <1>2. ASSUME UNCHANGED issued PROVE Step
    BY <1>2
  <1>3. IInv /\ [Next]_vars => [Step]_vars
    BY <1>1, <1>2 DEF Next, UpdateSchedule, Book, CheckSlot, CreateBooking, Cancel, CommitCancel,
                      Review, IssueLine, Rollback, Begin
  <1> QED
    BY <1>3, ReviewInvariant, PTL DEF Spec, IssuedOnlyByCompletion

\* An appointment that is closed can at most be turned into a cancelled one.
THEOREM ClosedForGood == Spec => ClosedStaysClosed
  <1> DEFINE Step == \A a \in Existing :
                       appt[a].status \notin HOLDING_SLOT /\ appt'[a] # appt[a] =>
                         /\ appt'[a].status = "CANCELLED"
                         /\ \E p \in Procs : req[p].pc = "cancel" /\ req[p].ref = a
  <1>1. ASSUME IInv, NEW p \in Procs, Decide(p) PROVE Step
    <2>1. CASE ~Unchanged(p)
      BY <1>1, <2>1 DEF Decide
    <2>2. CASE Unchanged(p)
      <3>1. /\ req[p].ref \in Existing /\ req[p].decision \in Statuses
            /\ appt[req[p].ref].status \in HOLDING_SLOT
            /\ appt' = [appt EXCEPT ![req[p].ref].status = req[p].decision]
        BY <1>1, <2>2, DecideFacts
      <3>2. \A b \in Appts \ {req[p].ref} : appt'[b] = appt[b]
        BY <1>1, <3>1, StatusFacts
      <3> QED
        BY <3>1, <3>2 DEF Existing
    <2> QED
      BY <2>1, <2>2
  <1>2. ASSUME IInv, NEW p \in Procs, CommitCancel(p) PROVE Step
    <2>1. /\ req[p].ref \in Existing /\ req[p].pc = "cancel"
          /\ appt' = [appt EXCEPT ![req[p].ref].status = "CANCELLED"]
      BY <1>2 DEF CommitCancel, IInv, RequestOK
    <2>2. /\ appt'[req[p].ref].status = "CANCELLED"
          /\ \A b \in Appts \ {req[p].ref} : appt'[b] = appt[b]
      BY <1>2, <2>1, StatusFacts DEF Statuses
    <2> QED
      BY <2>1, <2>2 DEF Existing
  <1>3. ASSUME IInv, NEW p \in Procs, NEW b \in Appts, CreateBooking(p, b) PROVE Step
    BY <1>3 DEF CreateBooking, Existing, IInv, TypeOK
  <1>4. ASSUME UNCHANGED appt PROVE Step
    BY <1>4
  <1>5. IInv /\ [Next]_vars => [Step]_vars
    BY <1>1, <1>2, <1>3, <1>4 DEF Next, UpdateSchedule, Book, CheckSlot, Cancel, Review, IssueLine,
                                  Rollback, Begin
  <1> QED
    BY <1>5, ReviewInvariant, PTL DEF Spec, ClosedStaysClosed

-----------------------------------------------------------------------------
(***************************************************************************)
(* How far a slot can be overbooked.                                       *)
(***************************************************************************)

\* One person's share of the slot, and of the bookings under way to it.
Held(s, u)   == {a \in Holders(s) : appt[a].requester = u}
Coming(s, u) == {p \in LetIn(s) : req[p].user = u}

\* Sets of appointments and of requests can be counted, and a part of one has
\* no more members than the whole.
LEMMA Fewer ==
  ASSUME NEW S, IsFiniteSet(S), NEW A \in SUBSET S, NEW B \in SUBSET A
  PROVE  /\ IsFiniteSet(A) /\ IsFiniteSet(B)
         /\ Cardinality(A) \in Nat /\ Cardinality(B) \in Nat
         /\ Cardinality(B) <= Cardinality(A)
  <1>1. IsFiniteSet(A)
    BY FS_Subset
  <1>2. IsFiniteSet(B) /\ Cardinality(B) <= Cardinality(A)
    BY <1>1, FS_Subset
  <1> QED
    BY <1>1, <1>2, FS_CardinalityType

LEMMA Counts ==
  ASSUME NEW s, NEW u
  PROVE  /\ Holders(s) \in SUBSET Appts /\ Held(s, u) \in SUBSET Holders(s)
         /\ LetIn(s) \in SUBSET Procs /\ Coming(s, u) \in SUBSET LetIn(s)
         /\ Cardinality(Procs) \in Nat
  BY FS_CardinalityType DEF Holders, Existing, Held, LetIn, Coming

LEMMA LargestCapacity ==
  /\ Max(Capacities) \in Nat
  /\ \A c \in Capacities : c <= Max(Capacities)
  <1>1. PICK largest \in Capacities : \A c \in Capacities : largest >= c
    BY DEF Max
  <1>2. Max(Capacities) \in Capacities /\ \A c \in Capacities : Max(Capacities) >= c
    BY <1>1 DEF Max
  <1> QED
    BY <1>2

\* The bounds in terms of the shares.
LEMMA Bounds ==
  OverbookedByOverlapOnly <=>
    \A s \in Slots :
      /\ Cardinality(Holders(s)) + Cardinality(LetIn(s)) <= Max(Capacities) + Cardinality(Procs) - 1
      /\ \A u \in Users :
           Cardinality(Held(s, u)) + Cardinality(Coming(s, u)) <= Cardinality(Procs)
  BY DEF OverbookedByOverlapOnly, Held, Coming

\* No slot is taken that was not taken before.
NoNewHolder ==
  \A a \in Existing' : appt'[a].status \in HOLDING_SLOT =>
    /\ a \in Existing /\ appt[a].status \in HOLDING_SLOT
    /\ appt'[a].slot = appt[a].slot /\ appt'[a].requester = appt[a].requester

\* A request that is not let in leaves every slot at most as full.
LEMMA QuietStep ==
  ASSUME TypeOK, OverbookInv, NEW p \in Procs, NEW r, req' = [req EXCEPT ![p] = r],
         r.pc # "create", r.pc = "book" => r.capacity \in Capacities, NoNewHolder
  PROVE  OverbookInv'
  <1>1. req'[p] = r /\ \A q \in Procs \ {p} : req'[q] = req[q]
    BY DEF TypeOK
  <1>2. CapacityWasSet'
    BY <1>1 DEF OverbookInv, CapacityWasSet
  <1>3. ASSUME NEW s \in Slots
        PROVE  /\ Holders(s)' \in SUBSET Holders(s)
               /\ LetIn(s)' \in SUBSET LetIn(s)
               /\ \A u \in Users : /\ Held(s, u)' \in SUBSET Held(s, u)
                                   /\ Coming(s, u)' \in SUBSET Coming(s, u)
    <2>1. Holders(s)' \in SUBSET Holders(s)
      BY DEF NoNewHolder, Holders
    <2>2. LetIn(s)' \in SUBSET LetIn(s)
      BY <1>1 DEF LetIn
    <2>3. \A a \in Holders(s)' : appt'[a].requester = appt[a].requester
      BY DEF NoNewHolder, Holders
    <2>4. \A q \in LetIn(s)' : req'[q].user = req[q].user
      BY <1>1 DEF LetIn
    <2> QED
      BY <2>1, <2>2, <2>3, <2>4 DEF Held, Coming
  <1>4. ASSUME NEW s \in Slots
        PROVE  /\ Cardinality(Holders(s)') \in Nat /\ Cardinality(Holders(s)) \in Nat
               /\ Cardinality(LetIn(s)') \in Nat /\ Cardinality(LetIn(s)) \in Nat
               /\ Cardinality(Holders(s)') <= Cardinality(Holders(s))
               /\ Cardinality(LetIn(s)') <= Cardinality(LetIn(s))
    BY <1>3, Counts, Fewer
  <1>5. ASSUME NEW s \in Slots, NEW u \in Users
        PROVE  /\ Cardinality(Held(s, u)') \in Nat /\ Cardinality(Held(s, u)) \in Nat
               /\ Cardinality(Coming(s, u)') \in Nat /\ Cardinality(Coming(s, u)) \in Nat
               /\ Cardinality(Held(s, u)') <= Cardinality(Held(s, u))
               /\ Cardinality(Coming(s, u)') <= Cardinality(Coming(s, u))
    <2>1. Held(s, u) \in SUBSET Appts /\ Coming(s, u) \in SUBSET Procs
      BY Counts
    <2> QED
      BY <1>3, <2>1, Fewer
  <1>6. Cardinality(Procs) \in Nat
    BY FS_CardinalityType
  <1>7. OverbookedByOverlapOnly'
    <2>1. \A s \in Slots :
            /\ Cardinality(Holders(s)) + Cardinality(LetIn(s)) <= Max(Capacities) + Cardinality(Procs) - 1
            /\ \A u \in Users :
                 Cardinality(Held(s, u)) + Cardinality(Coming(s, u)) <= Cardinality(Procs)
      BY Bounds DEF OverbookInv
    <2>2. ASSUME NEW s \in Slots
          PROVE  Cardinality(Holders(s)') + Cardinality(LetIn(s)') <= Max(Capacities) + Cardinality(Procs) - 1
      BY <1>4, <1>6, <2>1, LargestCapacity
    <2>3. ASSUME NEW s \in Slots, NEW u \in Users
          PROVE  Cardinality(Held(s, u)') + Cardinality(Coming(s, u)') <= Cardinality(Procs)
      BY <1>5, <1>6, <2>1
    <2> QED
      BY <2>2, <2>3 DEF OverbookedByOverlapOnly, Held, Coming
  <1> QED
    BY <1>2, <1>7 DEF OverbookInv

\* Who is let in has seen a place that is free and not his own: with him, there
\* are at most that many on their way as there are requests.
LEMMA LetInStep ==
  ASSUME IInv, OverbookInv, NEW p \in Procs, CheckSlot(p)
  PROVE  OverbookInv'
  <1> DEFINE s0 == req[p].slot
             u0 == req[p].user
  <1>0. TypeOK /\ NoNewHolder
    BY DEF IInv, CheckSlot, NoNewHolder, Existing
  <1>1. CASE Refuses(u0, s0, req[p].capacity)
    BY <1>0, <1>1, IdleFacts, QuietStep DEF CheckSlot, End
  <1>2. CASE ~Refuses(u0, s0, req[p].capacity)
    <2>1. /\ req' = [req EXCEPT ![p].pc = "create"] /\ UNCHANGED <<capacity, appt, issued>>
          /\ req[p].pc = "book"
      BY <1>2 DEF CheckSlot
    <2>2. /\ req'[p].pc = "create" /\ req'[p].slot = s0 /\ req'[p].user = u0
          /\ \A q \in Procs \ {p} : req'[q] = req[q]
      BY <1>0, <2>1 DEF TypeOK, Request
    <2>3. CapacityWasSet'
      BY <2>1, <2>2 DEF OverbookInv, CapacityWasSet
    <2>4. /\ Cardinality(Holders(s0)) < req[p].capacity
          /\ \A a \in Holders(s0) : appt[a].requester # u0
          /\ req[p].capacity <= Max(Capacities) /\ req[p].capacity \in Nat
      <3>1. req[p].capacity \in Capacities
        BY <2>1 DEF OverbookInv, CapacityWasSet
      <3>2. Cardinality(Holders(s0)) \in Nat
        BY Counts, Fewer
      <3>3. ~(Cardinality(Holders(s0)) >= req[p].capacity)
        BY <1>2 DEF Refuses
      <3>4. \A a \in Holders(s0) : appt[a].requester # u0
        BY <1>2 DEF Refuses
      <3>5. Cardinality(Holders(s0)) < req[p].capacity
        <4>1. PICK n \in Nat : n = Cardinality(Holders(s0))
          BY <3>2
        <4>2. PICK c \in Nat : c = req[p].capacity
          BY <3>1
        <4> QED
          BY <3>3, <4>1, <4>2
      <3> QED
        BY <3>1, <3>4, <3>5, LargestCapacity
    <2>5. \A s, u : Holders(s)' = Holders(s) /\ Held(s, u)' = Held(s, u)
      BY <2>1 DEF Holders, Existing, Held
    <2>6. Cardinality(Procs) \in Nat
      BY FS_CardinalityType
    <2>7. ASSUME NEW s \in Slots
          PROVE  Cardinality(Holders(s)') + Cardinality(LetIn(s)') <= Max(Capacities) + Cardinality(Procs) - 1
      <3>1. LetIn(s)' \in SUBSET Procs
        BY DEF LetIn
      <3>2. /\ Cardinality(LetIn(s)') \in Nat /\ Cardinality(LetIn(s)') <= Cardinality(Procs)
            /\ Cardinality(Holders(s)) \in Nat
        BY <3>1, Counts, Fewer
      <3>3. CASE s = s0
        BY <2>4, <2>5, <2>6, <3>2, <3>3, LargestCapacity
      <3>4. CASE s # s0
        <4>1. LetIn(s)' = LetIn(s)
          BY <2>1, <2>2, <3>4 DEF LetIn
        <4> QED
          BY <2>5, <4>1, Bounds DEF OverbookInv
      <3> QED
        BY <3>3, <3>4
    <2>8. ASSUME NEW s \in Slots, NEW u \in Users
          PROVE  Cardinality(Held(s, u)') + Cardinality(Coming(s, u)') <= Cardinality(Procs)
      <3>1. Coming(s, u)' \in SUBSET Procs
        BY DEF Coming, LetIn
      <3>2. /\ Cardinality(Coming(s, u)') \in Nat
            /\ Cardinality(Coming(s, u)') <= Cardinality(Procs)
        BY <3>1, Fewer
      <3>3. CASE s = s0 /\ u = u0
        <4>1. Held(s, u) = {}
          BY <2>4, <3>3 DEF Held
        <4> QED
          BY <2>5, <2>6, <3>2, <4>1, FS_EmptySet
      <3>4. CASE ~(s = s0 /\ u = u0)
        <4>1. Coming(s, u)' = Coming(s, u)
          BY <2>1, <2>2, <3>4 DEF LetIn, Coming
        <4> QED
          BY <2>5, <4>1, Bounds DEF OverbookInv
      <3> QED
        BY <3>3, <3>4
    <2>9. OverbookedByOverlapOnly'
      BY <2>7, <2>8 DEF OverbookedByOverlapOnly, Held, Coming
    <2> QED
      BY <2>3, <2>9 DEF OverbookInv
  <1> QED
    BY <1>1, <1>2

\* A booking that is inserted turns from one on its way into one that is there.
LEMMA InsertStep ==
  ASSUME IInv, OverbookInv, NEW p \in Procs, NEW a \in Appts, CreateBooking(p, a)
  PROVE  OverbookInv'
  <1> DEFINE s0 == req[p].slot
             u0 == req[p].user
             row == [status |-> "PENDING", requester |-> u0, slot |-> s0]
  <1>1. /\ appt[a] = Null /\ appt' = [appt EXCEPT ![a] = row] /\ req[p].pc = "create"
        /\ req' = [req EXCEPT ![p] = Idle]
    BY DEF CreateBooking, End
  <1>2. row \in Appointment /\ row # Null
    BY DEF CreateBooking, IInv, RequestOK, Appointment, Statuses
  <1>2a. row.status \in HOLDING_SLOT /\ row.requester = u0 /\ row.slot = s0
    BY DEF HOLDING_SLOT
  <1> HIDE DEF row
  <1>3. /\ appt'[a] = row /\ \A b \in Appts \ {a} : appt'[b] = appt[b]
        /\ req'[p] = Idle /\ \A q \in Procs \ {p} : req'[q] = req[q]
    BY <1>1 DEF IInv, TypeOK
  <1>4. Existing' = Existing \cup {a} /\ a \notin Existing
    BY <1>1, <1>2, <1>3 DEF Existing
  <1>5. CapacityWasSet'
    BY <1>3, IdleFacts DEF OverbookInv, CapacityWasSet
  <1>6. ASSUME NEW s
        PROVE  /\ s = s0 => /\ Holders(s)' = Holders(s) \cup {a} /\ a \notin Holders(s)
                            /\ LetIn(s)' = LetIn(s) \ {p} /\ p \in LetIn(s)
               /\ s # s0 => Holders(s)' = Holders(s) /\ LetIn(s)' = LetIn(s)
    <2>1. \A b \in Existing : appt'[b] = appt[b]
      BY <1>3, <1>4 DEF Existing
    <2>2. s = s0 => Holders(s)' = Holders(s) \cup {a} /\ a \notin Holders(s)
      BY <1>2a, <1>3, <1>4, <2>1 DEF Holders
    <2>3. s # s0 => Holders(s)' = Holders(s)
      BY <1>2a, <1>3, <1>4, <2>1 DEF Holders
    <2>4. s = s0 => LetIn(s)' = LetIn(s) \ {p} /\ p \in LetIn(s)
      BY <1>1, <1>3, IdleFacts DEF LetIn
    <2>5. s # s0 => LetIn(s)' = LetIn(s)
      BY <1>1, <1>3, IdleFacts DEF LetIn
    <2> QED
      BY <2>2, <2>3, <2>4, <2>5
  <1>7. ASSUME NEW s, NEW u
        PROVE  /\ s = s0 /\ u = u0 => /\ Held(s, u)' = Held(s, u) \cup {a} /\ a \notin Held(s, u)
                                      /\ Coming(s, u)' = Coming(s, u) \ {p} /\ p \in Coming(s, u)
               /\ ~(s = s0 /\ u = u0) => Held(s, u)' = Held(s, u) /\ Coming(s, u)' = Coming(s, u)
    <2>1. \A b \in Holders(s) : appt'[b] = appt[b]
      BY <1>3, <1>4 DEF Holders, Existing
    <2>2. \A q \in LetIn(s) \ {p} : req'[q] = req[q]
      BY <1>3 DEF LetIn
    <2>3. s = s0 /\ u = u0 => Held(s, u)' = Held(s, u) \cup {a} /\ a \notin Held(s, u)
      BY <1>2a, <1>3, <1>6, <2>1 DEF Held
    <2>4. s = s0 /\ u = u0 => Coming(s, u)' = Coming(s, u) \ {p} /\ p \in Coming(s, u)
      BY <1>6, <2>2 DEF Coming
    <2>5. ~(s = s0 /\ u = u0) => Held(s, u)' = Held(s, u)
      BY <1>2a, <1>3, <1>6, <2>1 DEF Held
    <2>6. ~(s = s0 /\ u = u0) => Coming(s, u)' = Coming(s, u)
      <3>1. CASE s # s0
        <4>1. LetIn(s)' = LetIn(s) /\ p \notin LetIn(s)
          BY <1>6, <3>1 DEF LetIn
        <4> QED
          BY <2>2, <4>1 DEF Coming
      <3>2. CASE s = s0 /\ u # u0
        BY <1>6, <2>2, <3>2 DEF Coming
      <3> QED
        BY <3>1, <3>2
    <2> QED
      BY <2>3, <2>4, <2>5, <2>6
  <1>8. ASSUME NEW A \in SUBSET Appts, NEW P \in SUBSET Procs, a \notin A, p \in P
        PROVE  Cardinality(A \cup {a}) + Cardinality(P \ {p}) = Cardinality(A) + Cardinality(P)
    <2>1. /\ IsFiniteSet(A) /\ IsFiniteSet(P)
          /\ Cardinality(A) \in Nat /\ Cardinality(P) \in Nat
      BY Fewer
    <2>2. Cardinality(A \cup {a}) = Cardinality(A) + 1
      BY <1>8, <2>1, FS_AddElement
    <2>3. Cardinality(P \ {p}) = Cardinality(P) - 1
      BY <1>8, <2>1, FS_RemoveElement
    <2> QED
      BY <2>1, <2>2, <2>3
  <1>9. ASSUME NEW s, NEW u
        PROVE  /\ Cardinality(Holders(s)') + Cardinality(LetIn(s)')
                    = Cardinality(Holders(s)) + Cardinality(LetIn(s))
               /\ Cardinality(Held(s, u)') + Cardinality(Coming(s, u)')
                    = Cardinality(Held(s, u)) + Cardinality(Coming(s, u))
    <2>1. /\ Holders(s) \in SUBSET Appts /\ LetIn(s) \in SUBSET Procs
          /\ Held(s, u) \in SUBSET Appts /\ Coming(s, u) \in SUBSET Procs
      BY Counts
    <2>2. Cardinality(Holders(s)') + Cardinality(LetIn(s)')
            = Cardinality(Holders(s)) + Cardinality(LetIn(s))
      BY <1>6, <1>8, <2>1
    <2>3. Cardinality(Held(s, u)') + Cardinality(Coming(s, u)')
            = Cardinality(Held(s, u)) + Cardinality(Coming(s, u))
      BY <1>7, <1>8, <2>1
    <2> QED
      BY <2>2, <2>3
  <1>10. OverbookedByOverlapOnly'
    <2>1. ASSUME NEW s \in Slots
          PROVE  Cardinality(Holders(s)') + Cardinality(LetIn(s)') <= Max(Capacities) + Cardinality(Procs) - 1
      BY <1>9, Bounds DEF OverbookInv
    <2>2. ASSUME NEW s \in Slots, NEW u \in Users
          PROVE  Cardinality(Held(s, u)') + Cardinality(Coming(s, u)') <= Cardinality(Procs)
      BY <1>9, Bounds DEF OverbookInv
    <2> QED
      BY <2>1, <2>2 DEF OverbookedByOverlapOnly, Held, Coming
  <1> QED
    BY <1>5, <1>10 DEF OverbookInv

LEMMA InitOverbook == Init => OverbookInv
  <1> SUFFICES ASSUME Init PROVE OverbookInv
    OBVIOUS
  <1>1. CapacityWasSet
    BY IdleFacts DEF Init, CapacityWasSet
  <1>2. ASSUME NEW s, NEW u
        PROVE  Holders(s) = {} /\ LetIn(s) = {} /\ Held(s, u) = {} /\ Coming(s, u) = {}
    BY IdleFacts DEF Init, Holders, Existing, LetIn, Held, Coming
  <1>3. Cardinality(Procs) \in Nat /\ Max(Capacities) \in Nat /\ Max(Capacities) >= 1
    BY FS_CardinalityType, LargestCapacity DEF Init
  <1>4. OverbookedByOverlapOnly
    BY <1>2, <1>3, FS_EmptySet, Bounds
  <1> QED
    BY <1>1, <1>4 DEF OverbookInv

LEMMA NextOverbook == IInv /\ OverbookInv /\ [Next]_vars => OverbookInv'
  <1> SUFFICES ASSUME IInv, OverbookInv, [Next]_vars PROVE OverbookInv'
    OBVIOUS
  <1>0. TypeOK
    BY DEF IInv
  <1>1. UNCHANGED appt => NoNewHolder
    BY DEF NoNewHolder, Existing
  <1>2. ASSUME UNCHANGED <<appt, req>> PROVE OverbookInv'
    BY <1>2 DEF OverbookInv, CapacityWasSet, OverbookedByOverlapOnly, Holders, Existing, LetIn
  <1>3. ASSUME NEW p \in Procs, NEW u \in Users, NEW s \in Slots, Book(p, u, s) PROVE OverbookInv'
    <2> DEFINE r == [Idle EXCEPT !.pc = "book", !.user = u, !.slot = s, !.capacity = capacity]
    <2>1. r.pc = "book" /\ r.capacity \in Capacities
      BY <1>0 DEF Idle, TypeOK
    <2>2. req' = [req EXCEPT ![p] = r] /\ UNCHANGED appt
      BY <1>3 DEF Book, Begin
    <2> HIDE DEF r
    <2> QED
      BY <1>0, <1>1, <2>1, <2>2, QuietStep
  <1>4. ASSUME NEW p \in Procs, NEW u \in Users, NEW a \in Appts, Cancel(p, u, a)
        PROVE  OverbookInv'
    <2> DEFINE r == [Idle EXCEPT !.pc = "cancel", !.user = u, !.ref = a]
    <2>1. r.pc = "cancel"
      BY DEF Idle
    <2>2. req' = [req EXCEPT ![p] = r] /\ UNCHANGED appt
      BY <1>4 DEF Cancel, Begin
    <2> HIDE DEF r
    <2> QED
      BY <1>0, <1>1, <2>1, <2>2, QuietStep
  <1>5. ASSUME NEW p \in Procs, NEW u \in Users, NEW a \in Appts, NEW d \in Statuses,
               NEW lines \in SUBSET Items, Review(p, u, a, d, lines)
        PROVE  OverbookInv'
    <2> DEFINE r == [Idle EXCEPT !.pc = "review", !.user = u, !.ref = a, !.read = appt[a].status,
                                 !.decision = d, !.lines = lines]
    <2>1. r.pc = "review"
      BY DEF Idle
    <2>2. req' = [req EXCEPT ![p] = r] /\ UNCHANGED appt
      BY <1>5 DEF Review, Begin
    <2> HIDE DEF r
    <2> QED
      BY <1>0, <1>1, <2>1, <2>2, QuietStep
  <1>6. ASSUME NEW p \in Procs, NEW i \in Items, IssueLine(p, i) PROVE OverbookInv'
    <2> DEFINE r == [req[p] EXCEPT !.done = @ \cup {i}]
    <2>1. r.pc = "review"
      BY <1>0, <1>6 DEF IssueLine, TypeOK, Request
    <2>2. req' = [req EXCEPT ![p] = r] /\ UNCHANGED appt
      BY <1>6 DEF IssueLine
    <2> HIDE DEF r
    <2> QED
      BY <1>0, <1>1, <2>1, <2>2, QuietStep
  <1>7. ASSUME NEW p \in Procs, CommitCancel(p) PROVE OverbookInv'
    <2>1. /\ req[p].ref \in Existing
          /\ appt' = [appt EXCEPT ![req[p].ref].status = "CANCELLED"]
      BY <1>7 DEF CommitCancel, IInv, RequestOK
    <2>2. NoNewHolder
      BY <2>1, StatusFacts DEF NoNewHolder, Existing, Statuses, HOLDING_SLOT
    <2> QED
      BY <1>0, <1>7, <2>2, IdleFacts, QuietStep DEF CommitCancel, End
  <1>8. ASSUME NEW p \in Procs, Decide(p) PROVE OverbookInv'
    <2>1. CASE Unchanged(p)
      <3>1. /\ req[p].ref \in Existing /\ req[p].decision \in Statuses
            /\ appt[req[p].ref].status \in HOLDING_SLOT
            /\ appt' = [appt EXCEPT ![req[p].ref].status = req[p].decision]
        BY <1>8, <2>1, DecideFacts
      <3>2. NoNewHolder
        BY <3>1, StatusFacts DEF NoNewHolder, Existing
      <3> QED
        BY <1>0, <1>8, <3>2, IdleFacts, QuietStep DEF Decide, End
    <2>2. CASE ~Unchanged(p)
      BY <1>0, <1>1, <1>8, <2>2, IdleFacts, QuietStep DEF Decide, End
    <2> QED
      BY <2>1, <2>2
  <1>9. ASSUME NEW p \in Procs, Rollback(p) PROVE OverbookInv'
    BY <1>0, <1>1, <1>9, IdleFacts, QuietStep DEF Rollback, End
  <1> QED
    BY <1>2, <1>3, <1>4, <1>5, <1>6, <1>7, <1>8, <1>9, LetInStep, InsertStep
    DEF Next, UpdateSchedule, vars

\* A slot is overbooked, and held twice by one person, only by as many bookings
\* as were under way at once: the count and the insertion of book take no lock.
THEOREM OverbookingBound == Spec => []OverbookedByOverlapOnly
  <1>1. OverbookInv => OverbookedByOverlapOnly
    BY DEF OverbookInv
  <1> QED
    BY <1>1, ReviewInvariant, InitOverbook, NextOverbook, PTL DEF Spec

=============================================================================
