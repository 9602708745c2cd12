--------------------------- MODULE MaintenanceProofs ---------------------------
(***************************************************************************)
(* Proofs about Maintenance and Assets, for any number of work orders,     *)
(* schedules, assignments and requests in flight.                          *)
(***************************************************************************)
EXTENDS MaintenanceHistory, SetProofs

USE AssetsAssumption, MaintenanceAssumption

rowVars == <<registerVars, today, wo, sched>>

LEMMA IdleFacts ==
  /\ Idle \in Job
  /\ Idle.pc = "idle" /\ Idle.next = Null /\ Idle.last = Null
  BY DEF Idle, Job

LEMMA InitInv == Init => IInv
  BY IdleFacts DEF Init, RegisterInit, IInv, TypeOK, RegisterTypeOK, Days, Free, Errand, JobOK,
     Exclusive, OneClaim, Claims, InTransaction, Out

-----------------------------------------------------------------------------
(***************************************************************************)
(* Steps that only move a request on.                                      *)
(***************************************************************************)

\* A request that does not enter a transaction here claims nothing new.
LEMMA JobStep ==
  ASSUME IInv, NEW p \in Procs, NEW r \in Job, job' = [job EXCEPT ![p] = r], UNCHANGED rowVars,
         r.pc \in InTransaction =>
           job[p].pc \in InTransaction /\ r.ref = job[p].ref /\ r.to = job[p].to,
         r.pc = "write" => /\ r.ref \in WorkOrders /\ wo[r.ref] # Null
                           /\ r.to \in ACTIVE_STATUSES \cup Closing,
         r.pc = "move" => r.schedule \in Schedules,
         r.next # Null => r.schedule \in Schedules /\ sched[r.schedule] # Null
  PROVE  IInv'
  <1>1. job \in [Procs -> Job] /\ job' \in [Procs -> Job] /\ job'[p] = r
        /\ \A q \in Procs \ {p} : job'[q] = job[q]
    BY DEF IInv, TypeOK
  <1>2. TypeOK'
    BY <1>1 DEF IInv, TypeOK, RegisterTypeOK, rowVars, registerVars
  <1>3. \A q \in Procs : JobOK(q)'
    <2> SUFFICES ASSUME NEW q \in Procs PROVE JobOK(q)'
      OBVIOUS
    <2>1. UNCHANGED <<wo, sched>> /\ JobOK(q)
      BY DEF rowVars, IInv
    <2>2. CASE q # p
      BY <1>1, <2>1, <2>2 DEF JobOK
    <2>3. CASE q = p
      BY <1>1, <2>1, <2>3 DEF JobOK
    <2> QED
      BY <2>2, <2>3
  <1>4. Exclusive'
    BY <1>1 DEF IInv, Exclusive
  <1>5. ASSUME NEW w \in WorkOrders, NEW s \in Schedules, Claims(w, s)' PROVE Claims(w, s)
    BY <1>1, <1>5 DEF Claims, rowVars
  <1>6. OneClaim'
    BY <1>5 DEF IInv, OneClaim
  <1>7. (\A a, b \in Out : a = b)'
    BY DEF IInv, Out, rowVars, registerVars
  <1> QED
    BY <1>2, <1>3, <1>4, <1>6, <1>7 DEF IInv

\* A request that begins.
LEMMA BeginInv ==
  ASSUME IInv, NEW p \in Procs, NEW r \in Job, Begin(p, r),
         r.pc \notin InTransaction, r.next = Null,
         r.pc = "write" => /\ r.ref \in WorkOrders /\ wo[r.ref] # Null
                           /\ r.to \in ACTIVE_STATUSES \cup Closing
  PROVE  IInv'
  <1>1. job' = [job EXCEPT ![p] = r] /\ UNCHANGED rowVars
    BY DEF Begin, rowVars
  <1>2. r.pc # "move"
    BY DEF InTransaction
  <1> QED
    BY <1>1, <1>2, JobStep

LEMMA EndInv ==
  ASSUME IInv, NEW p \in Procs, End(p), UNCHANGED rowVars
  PROVE  IInv'
  <1>1. job' = [job EXCEPT ![p] = Idle] /\ Idle.pc \notin InTransaction
    BY IdleFacts DEF End, InTransaction
  <1> QED
    BY <1>1, IdleFacts, JobStep

LEMMA AskInv ==
  ASSUME IInv, NEW p \in Procs, OpenWorkOrder(p) \/ AddSchedule(p) \/ Generate(p)
  PROVE  IInv'
  <1>1. PICK pc \in {"insert", "plan", "generate"} : Begin(p, [Idle EXCEPT !.pc = pc])
    BY DEF OpenWorkOrder, AddSchedule, Generate
  <1> DEFINE r == [Idle EXCEPT !.pc = pc]
  <1>2. r \in Job /\ r.pc \notin InTransaction \cup {"write"} /\ r.next = Null
    BY DEF Idle, Job, InTransaction
  <1> HIDE DEF r
  <1>3. Begin(p, r)
    BY <1>1 DEF r
  <1> QED
    BY <1>2, <1>3, BeginInv

LEMMA MoveWorkOrderInv ==
  ASSUME IInv, NEW p \in Procs, NEW w \in WorkOrders, NEW to \in ACTIVE_STATUSES \cup Closing,
         MoveWorkOrder(p, w, to)
  PROVE  IInv'
  <1> DEFINE r == [Idle EXCEPT !.pc = "write", !.ref = w, !.schedule = wo[w].schedule, !.to = to]
  <1>1. wo[w] \in WorkOrder /\ wo[w] # Null
    BY DEF MoveWorkOrder, IInv, TypeOK
  <1>2. wo[w].schedule \in Schedules \cup {Null}
    BY <1>1 DEF WorkOrder
  <1>3. /\ r \in Job /\ r.pc = "write" /\ r.ref = w /\ r.to = to /\ r.next = Null
    BY <1>2 DEF Idle, Job
  <1>4. Begin(p, r)
    BY DEF MoveWorkOrder
  <1> HIDE DEF r
  <1>5. r.pc \notin InTransaction
    BY <1>3 DEF InTransaction
  <1> QED
    BY <1>1, <1>3, <1>4, <1>5, BeginInv

\* The statements of the transaction between the first and the last.
LEMMA InTransactionStep ==
  ASSUME IInv, NEW p \in Procs, job[p].pc \in InTransaction, NEW r \in Job,
         job' = [job EXCEPT ![p] = r], UNCHANGED rowVars,
         r.pc \in InTransaction, r.ref = job[p].ref, r.to = job[p].to,
         r.pc = "move" => r.schedule \in Schedules,
         r.next # Null => r.schedule \in Schedules /\ sched[r.schedule] # Null
  PROVE  IInv'
  <1>1. r.pc # "write"
    BY DEF InTransaction
  <1> QED
    BY <1>1, JobStep

LEMMA AfterAssetFacts ==
  ASSUME IInv, NEW p \in Procs
  PROVE  /\ AfterAsset(p) \in {"move", "close"}
         /\ AfterAsset(p) = "move" => job[p].schedule \in Schedules
  BY DEF AfterAsset, IInv, TypeOK, Job

\* A request that goes on with a status to put on the asset.
LEMMA MovedInv ==
  ASSUME IInv, NEW p \in Procs, job[p].pc \in InTransaction,
         NEW pc \in {"count", "touch", "move", "close"},
         NEW seen \in AssetStatuses \cup {Null}, NEW put \in AssetStatuses \cup {Null},
         job' = [job EXCEPT ![p] = [@ EXCEPT !.seen = seen, !.put = put, !.pc = pc]],
         pc = "move" => job[p].schedule \in Schedules,
         UNCHANGED rowVars
  PROVE  IInv'
  <1>1. JobOK(p)
    BY DEF IInv, TypeOK
  <1>2. PICK j \in Job : j = job[p]
    BY DEF IInv, TypeOK
  <1> DEFINE r == [j EXCEPT !.seen = seen, !.put = put, !.pc = pc]
  <1>3. /\ r \in Job /\ r.pc = pc
        /\ r.ref = j.ref /\ r.to = j.to /\ r.schedule = j.schedule
        /\ r.next = j.next
    <2>1. r \in Job
      BY DEF Job
    <2> QED
      BY <2>1 DEF Job
  <1>4. job' = [job EXCEPT ![p] = r]
    BY <1>2
  <1> HIDE DEF r
  <1>5. r.pc \in InTransaction /\ (r.pc = "move" => r.schedule \in Schedules)
    BY <1>2, <1>3 DEF InTransaction
  <1>6. r.next # Null => r.schedule \in Schedules /\ sched[r.schedule] # Null
    BY <1>1, <1>2, <1>3 DEF JobOK
  <1> QED
    BY <1>2, <1>3, <1>4, <1>5, <1>6, InTransactionStep

LEMMA SyncAssetStatusInv ==
  ASSUME IInv, NEW p \in Procs, SyncAssetStatus(p)
  PROVE  IInv'
  <1>1. job \in [Procs -> Job] /\ job[p] \in Job /\ job[p].pc \in InTransaction
        /\ asset \in AssetStatuses \cup {Null} /\ UNCHANGED rowVars
    BY DEF SyncAssetStatus, IInv, TypeOK, RegisterTypeOK, InTransaction, rowVars
  <1>2. PICK after \in {"move", "close"} :
          after = AfterAsset(p) /\ (after = "move" => job[p].schedule \in Schedules)
    BY AfterAssetFacts
  <1>3. PICK pc \in {"count", "touch", after} :
          pc = CASE asset # "DECOMMISSIONED" /\ job[p].to \in Closing -> "count"
                 [] asset = "ACTIVE" /\ job[p].to = "IN_PROGRESS" -> "touch"
                 [] OTHER -> after
    <2>1. CASE asset # "DECOMMISSIONED" /\ job[p].to \in Closing
      BY <2>1 DEF Closing
    <2>2. CASE asset = "ACTIVE" /\ job[p].to = "IN_PROGRESS"
      BY <2>2 DEF Closing
    <2> QED
      BY <2>1, <2>2
  <1>4. PICK put \in AssetStatuses \cup {Null} :
          put = IF job[p].to = "IN_PROGRESS" /\ asset = "ACTIVE" THEN "UNDER_MAINTENANCE" ELSE Null
    BY DEF AssetStatuses
  <1>5. job' = [job EXCEPT ![p] = [@ EXCEPT !.seen = asset, !.put = put, !.pc = pc]]
    BY <1>1, <1>2, <1>3, <1>4 DEF SyncAssetStatus
  <1>6. pc \in {"count", "touch", "move", "close"} /\ (pc = "move" => job[p].schedule \in Schedules)
    BY <1>2
  <1> QED
    BY <1>1, <1>5, <1>6, MovedInv

LEMMA CountActiveInv ==
  ASSUME IInv, NEW p \in Procs, CountActive(p)
  PROVE  IInv'
  <1>1. job \in [Procs -> Job] /\ job[p] \in Job /\ job[p].pc \in InTransaction
        /\ job[p].seen \in AssetStatuses \cup {Null} /\ UNCHANGED rowVars
    BY DEF CountActive, IInv, TypeOK, Job, InTransaction, rowVars
  <1>2. PICK after \in {"move", "close"} :
          after = AfterAsset(p) /\ (after = "move" => job[p].schedule \in Schedules)
    BY AfterAssetFacts
  <1>3. PICK backUp \in BOOLEAN :
          backUp <=> StillActive(job[p].ref) = {} /\ job[p].seen = "UNDER_MAINTENANCE"
    OBVIOUS
  <1>4. PICK pc \in {"touch", after} : pc = IF backUp THEN "touch" ELSE after
    OBVIOUS
  <1>5. PICK put \in AssetStatuses \cup {Null} : put = IF backUp THEN "ACTIVE" ELSE Null
    BY DEF AssetStatuses
  <1>6. job' = [job EXCEPT ![p] = [@ EXCEPT !.seen = job[p].seen, !.put = put, !.pc = pc]]
    BY <1>1, <1>2, <1>3, <1>4, <1>5 DEF CountActive, Job
  <1>7. pc \in {"count", "touch", "move", "close"} /\ (pc = "move" => job[p].schedule \in Schedules)
    BY <1>2
  <1> QED
    BY <1>1, <1>6, <1>7, MovedInv

LEMMA TouchAssetInv ==
  ASSUME IInv, NEW p \in Procs, TouchAsset(p)
  PROVE  IInv'
  <1>1. job \in [Procs -> Job] /\ job[p] \in Job /\ job[p].pc \in InTransaction
        /\ job[p].seen \in AssetStatuses \cup {Null} /\ job[p].put \in AssetStatuses \cup {Null}
        /\ UNCHANGED rowVars
    BY DEF TouchAsset, Goes, IInv, TypeOK, Job, InTransaction, rowVars
  <1>2. PICK pc \in {"move", "close"} :
          pc = AfterAsset(p) /\ (pc = "move" => job[p].schedule \in Schedules)
    BY AfterAssetFacts
  <1>3. job' = [job EXCEPT ![p] = [@ EXCEPT !.seen = job[p].seen, !.put = job[p].put, !.pc = pc]]
    BY <1>1, <1>2 DEF TouchAsset, Goes, Job
  <1> QED
    BY <1>1, <1>2, <1>3, MovedInv

-----------------------------------------------------------------------------
(***************************************************************************)
(* The next due date.                                                      *)
(***************************************************************************)

LEMMA CatchUp ==
  ASSUME NEW late \in Nat, NEW every \in Nat \ {0}
  PROVE  /\ late \div every \in Nat
         /\ late \div every <= late
         /\ late < every * (late \div every + 1)
  OBVIOUS

LEMMA Multiple ==
  ASSUME NEW m \in Nat, NEW n \in Nat
  PROVE  m * n \in Nat
  OBVIOUS

\* It is a date, and one after the service if the steps of the catch-up span
\* the calendar.
LEMMA NextDueFacts ==
  ASSUME IInv, NEW s \in Schedules, sched[s] # Null, NEW done \in Days, NEW to
  PROVE  /\ NextDue(s, to, done) \in Nat
         /\ LastDay < MAX_CATCH_UP_STEPS /\ to = "COMPLETED" => NextDue(s, to, done) > done
  <1>1. sched[s] \in Schedule /\ done \in Nat /\ done <= LastDay
    BY DEF IInv, TypeOK, Days
  <1>2. PICK next \in Nat, every \in Nat \ {0} : next = sched[s].next /\ every = sched[s].every
    BY <1>1 DEF Schedule
  <1>3. /\ FixedNext(s, done) \in Nat
        /\ LastDay < MAX_CATCH_UP_STEPS => FixedNext(s, done) > done
    <2> DEFINE first == next + every
               missed == IF first > done THEN 0 ELSE (done - first) \div every + 1
               steps == IF missed < MAX_CATCH_UP_STEPS THEN missed ELSE MAX_CATCH_UP_STEPS
    <2>1. FixedNext(s, done) = first + every * steps
      BY <1>2 DEF FixedNext
    <2>2. first \in Nat /\ first >= 1
      OBVIOUS
    <2>3. CASE first > done
      <3>1. missed = 0 /\ steps = 0
        BY <2>3
      <3> HIDE DEF first, missed, steps
      <3> QED
        BY <2>1, <2>2, <2>3, <3>1, <1>1
    <2>4. CASE ~(first > done)
      <3>1. PICK late \in Nat : late = done - first
        BY <1>1, <2>2, <2>4
      <3>2. missed = late \div every + 1
        BY <2>4, <3>1
      <3>3. missed \in Nat /\ missed <= late + 1 /\ late < every * missed
        <4> HIDE DEF missed
        <4> QED
          BY <3>2, CatchUp
      <3>4. steps \in Nat /\ (LastDay < MAX_CATCH_UP_STEPS => steps = missed)
        <4> HIDE DEF missed, first
        <4> QED
          BY <1>1, <2>2, <3>1, <3>3
      <3> HIDE DEF first, missed, steps
      <3>5. every * steps \in Nat
        BY <3>4, Multiple
      <3> QED
        BY <1>1, <2>1, <2>2, <3>1, <3>3, <3>4, <3>5
    <2> QED
      BY <2>3, <2>4
  <1>4. PICK fixed \in Nat : fixed = FixedNext(s, done)
    BY <1>3
  <1>5. CASE to = "CANCELLED"
    BY <1>2, <1>5 DEF NextDue
  <1>6. CASE to = "COMPLETED" /\ sched[s].basis = "FLOATING"
    BY <1>1, <1>2, <1>6 DEF NextDue
  <1>7. CASE to # "CANCELLED" /\ ~(to = "COMPLETED" /\ sched[s].basis = "FLOATING")
    <2>1. NextDue(s, to, done) = fixed
      BY <1>4, <1>7 DEF NextDue
    <2> QED
      BY <1>3, <1>4, <2>1
  <1> QED
    BY <1>5, <1>6, <1>7

LEMMA OnWorkOrderClosedInv ==
  ASSUME IInv, NEW p \in Procs, OnWorkOrderClosed(p)
  PROVE  IInv'
  <1>1. PICK j \in Job : j = job[p]
    BY DEF IInv, TypeOK
  <1>2. JobOK(p) /\ today \in Days /\ j.pc = "move" /\ j.schedule \in Schedules /\ UNCHANGED rowVars
    BY <1>1 DEF IInv, TypeOK, JobOK, OnWorkOrderClosed, rowVars
  <1>3. PICK next \in Nat \cup {Null} :
          /\ next = IF Exists(j.schedule) THEN NextDue(j.schedule, j.to, today) ELSE Null
          /\ next # Null => sched[j.schedule] # Null
    BY <1>2, NextDueFacts DEF Exists
  <1>4. PICK last \in Nat \cup {Null} :
          last = IF Exists(j.schedule) /\ j.to = "COMPLETED" THEN today ELSE Null
    <2>1. PICK day \in Nat : day = today
      BY <1>2 DEF Days
    <2>2. PICK done \in BOOLEAN : done <=> Exists(j.schedule) /\ j.to = "COMPLETED"
      OBVIOUS
    <2> QED
      BY <2>1, <2>2
  <1> DEFINE r == [j EXCEPT !.pc = "close", !.next = next, !.last = last]
  <1>5. /\ r \in Job /\ r.pc = "close"
        /\ r.ref = j.ref /\ r.to = j.to /\ r.schedule = j.schedule /\ r.next = next
    <2>1. r \in Job
      BY DEF Job
    <2> QED
      BY <2>1 DEF Job
  <1>6. job' = [job EXCEPT ![p] = r]
    BY <1>1, <1>3, <1>4 DEF OnWorkOrderClosed
  <1> HIDE DEF r
  <1>7. j.pc \in InTransaction /\ r.pc \in InTransaction
    BY <1>2, <1>5 DEF InTransaction
  <1> QED
    BY <1>1, <1>2, <1>3, <1>5, <1>6, <1>7, InTransactionStep

-----------------------------------------------------------------------------
(***************************************************************************)
(* Steps that write the rows.                                              *)
(***************************************************************************)

\* The statement that opens the transaction: nobody else has updated the work
\* order, and the index lets it be active.
LEMMA WriteWorkOrderInv ==
  ASSUME IInv, NEW p \in Procs, WriteWorkOrder(p)
  PROVE  IInv'
  <1>1. PICK j \in Job : j = job[p]
    BY DEF IInv, TypeOK
  <1>2. PICK w \in WorkOrders : w = j.ref
    BY <1>1 DEF WriteWorkOrder, IInv, JobOK
  <1>3. /\ j.pc = "write" /\ ~Held(p, w) /\ UNCHANGED rowVars
        /\ j.to \in ACTIVE_STATUSES => ~MustWait(p, w, wo[w].schedule)
    BY <1>1, <1>2 DEF WriteWorkOrder, rowVars
  <1>4. CASE Refused(w, wo[w].schedule, j.to)
    <2>1. End(p)
      BY <1>1, <1>2, <1>4 DEF WriteWorkOrder, End
    <2> QED
      BY <1>3, <2>1, EndInv
  <1>5. CASE ~Refused(w, wo[w].schedule, j.to)
    <2> DEFINE r == [j EXCEPT !.pc = "sync"]
    <2>1. job' = [job EXCEPT ![p] = r]
      BY <1>1, <1>2, <1>5 DEF WriteWorkOrder
    <2>2. /\ r \in Job /\ r.pc = "sync"
          /\ r.ref = j.ref /\ r.to = j.to /\ r.schedule = j.schedule /\ r.next = j.next
      <3>1. r \in Job
        BY DEF Job
      <3> QED
        BY <3>1 DEF Job
    <2> HIDE DEF r
    <2>3. job \in [Procs -> Job] /\ job' \in [Procs -> Job] /\ job'[p] = r
          /\ (\A q \in Procs \ {p} : job'[q] = job[q]) /\ UNCHANGED <<wo, sched>>
      BY <1>3, <2>1, <2>2 DEF IInv, TypeOK, rowVars
    <2>4. TypeOK'
      BY <1>3, <2>3 DEF IInv, TypeOK, RegisterTypeOK, rowVars, registerVars
    <2>5. ASSUME NEW q \in Procs PROVE JobOK(q)'
      <3>1. JobOK(q) /\ JobOK(p)
        BY DEF IInv
      <3>2. CASE q # p
        BY <2>3, <3>1, <3>2 DEF JobOK
      <3>3. CASE q = p
        BY <1>1, <1>3, <2>2, <2>3, <3>1, <3>3 DEF JobOK, InTransaction
      <3> QED
        BY <3>2, <3>3
    <2>6. Exclusive'
      BY <1>2, <1>3, <2>2, <2>3 DEF IInv, Exclusive, Held
    <2>7. ASSUME NEW s \in Schedules, NEW v \in WorkOrders, Claims(v, s)', v # w
          PROVE  Claims(v, s)
      BY <1>2, <2>2, <2>3, <2>7 DEF Claims
    <2>8. ASSUME NEW s \in Schedules, NEW v \in WorkOrders, Claims(v, s)', Claims(w, s)', v # w
          PROVE  FALSE
      <3>1. Claims(v, s) /\ wo[w].schedule = s /\ s # Null
        BY <2>3, <2>7, <2>8 DEF Claims
      <3>2. CASE Claims(w, s)
        BY <2>8, <3>1, <3>2 DEF IInv, OneClaim
      <3>3. CASE ~Claims(w, s)
        <4>1. j.to \in ACTIVE_STATUSES
          BY <2>2, <2>3, <2>8, <3>3 DEF Claims
        <4>2. ~Active(v)
          BY <1>5, <2>8, <3>1, <4>1 DEF Claims, Refused, OpenOf, Active
        <4>3. PICK q \in Procs : job[q].pc \in InTransaction /\ job[q].ref = v
                                 /\ job[q].to \in ACTIVE_STATUSES
          BY <3>1, <4>2 DEF Claims, Active
        <4>4. q # p
          BY <1>1, <1>3, <4>3 DEF InTransaction
        <4>5. MustWait(p, w, wo[w].schedule)
          BY <2>8, <3>1, <4>3, <4>4 DEF MustWait, Held, Claims
        <4> QED
          BY <1>3, <4>1, <4>5
      <3> QED
        BY <3>2, <3>3
    <2>9. OneClaim'
      <3> SUFFICES ASSUME NEW s \in Schedules, NEW u \in WorkOrders, NEW v \in WorkOrders,
                          Claims(u, s)', Claims(v, s)', u # v
                   PROVE  FALSE
        BY DEF OneClaim
      <3>1. u = w \/ v = w
        BY <2>7 DEF IInv, OneClaim
      <3> QED
        BY <2>8, <3>1
    <2>10. (\A a, b \in Out : a = b)'
      BY <1>3 DEF IInv, Out, rowVars, registerVars
    <2> QED
      BY <2>4, <2>5, <2>6, <2>9, <2>10 DEF IInv
  <1> QED
    BY <1>4, <1>5

\* A request outside its transaction, after the step, with rows that are only
\* added to and changed.
LEMMA RowsStep ==
  ASSUME IInv, NEW p \in Procs, NEW r \in Job, job' = [job EXCEPT ![p] = r],
         r.pc \notin {"write"} \cup InTransaction,
         r.next # Null => r.schedule \in Schedules /\ sched'[r.schedule] # Null,
         wo' \in [WorkOrders -> WorkOrder \cup {Null}],
         sched' \in [Schedules -> Schedule \cup {Null}],
         asset' \in AssetStatuses \cup {Null},
         UNCHANGED <<custody, desk, today>>,
         \A w \in WorkOrders : wo[w] # Null => wo'[w] # Null,
         \A s \in Schedules : sched[s] # Null => sched'[s] # Null,
         OneClaim'
  PROVE  IInv'
  <1>1. job \in [Procs -> Job] /\ job' \in [Procs -> Job] /\ job'[p] = r
        /\ \A q \in Procs \ {p} : job'[q] = job[q]
    BY DEF IInv, TypeOK
  <1>2. TypeOK'
    BY <1>1 DEF IInv, TypeOK, RegisterTypeOK
  <1>3. ASSUME NEW q \in Procs PROVE JobOK(q)'
    <2>1. JobOK(q)
      BY DEF IInv
    <2>2. CASE q # p
      BY <1>1, <2>1, <2>2 DEF JobOK
    <2>3. CASE q = p
      BY <1>1, <2>3 DEF JobOK, InTransaction
    <2> QED
      BY <2>2, <2>3
  <1>4. Exclusive'
    BY <1>1 DEF IInv, Exclusive
  <1>5. (\A a, b \in Out : a = b)'
    BY DEF IInv, Out
  <1> QED
    BY <1>2, <1>3, <1>4, <1>5 DEF IInv

\* What is claimed after such a step had been claimed before, but for one row.
LEMMA ClaimsKept ==
  ASSUME IInv, NEW p \in Procs, NEW r \in Job, job' = [job EXCEPT ![p] = r],
         r.pc \notin InTransaction,
         NEW s \in Schedules, NEW w \in WorkOrders, Claims(w, s)', wo'[w] = wo[w]
  PROVE  Claims(w, s)
  <1>1. job \in [Procs -> Job] /\ job'[p] = r /\ \A q \in Procs \ {p} : job'[q] = job[q]
    BY DEF IInv, TypeOK
  <1> QED
    BY <1>1 DEF Claims

LEMMA InsertWorkOrderInv ==
  ASSUME IInv, NEW p \in Procs, NEW w \in WorkOrders, InsertWorkOrder(p, w)
  PROVE  IInv'
  <1> DEFINE new == [status |-> "OPEN", schedule |-> Null, due |-> Null]
  <1>1. new \in WorkOrder /\ new.schedule = Null
    BY DEF WorkOrder, ACTIVE_STATUSES
  <1>2. /\ wo[w] = Null /\ wo' = [wo EXCEPT ![w] = new]
        /\ job' = [job EXCEPT ![p] = Idle] /\ UNCHANGED <<registerVars, today, sched>>
    BY DEF InsertWorkOrder, End
  <1>3. Idle.pc \notin {"write"} \cup InTransaction
    BY IdleFacts DEF InTransaction
  <1> HIDE DEF new
  <1>4. wo' \in [WorkOrders -> WorkOrder \cup {Null}]
        /\ wo'[w] = new /\ \A v \in WorkOrders \ {w} : wo'[v] = wo[v]
    BY <1>1, <1>2 DEF IInv, TypeOK
  <1>5. ASSUME NEW s \in Schedules, NEW v \in WorkOrders, Claims(v, s)' PROVE Claims(v, s)
    <2>1. v # w
      BY <1>1, <1>4, <1>5 DEF Claims
    <2> QED
      BY <1>2, <1>3, <1>4, <1>5, <2>1, IdleFacts, ClaimsKept
  <1>6. OneClaim'
    BY <1>5 DEF IInv, OneClaim
  <1>7. /\ sched' \in [Schedules -> Schedule \cup {Null}]
        /\ asset' \in AssetStatuses \cup {Null}
        /\ UNCHANGED <<custody, desk, today>>
    BY <1>2 DEF IInv, TypeOK, RegisterTypeOK, registerVars
  <1> QED
    BY <1>2, <1>3, <1>4, <1>6, <1>7, IdleFacts, RowsStep

\* The commit: the work order that p has updated becomes what p claimed it to be.
LEMMA CloseTransactionInv ==
  ASSUME IInv, NEW p \in Procs, CloseTransaction(p)
  PROVE  IInv'
  <1>1. PICK j \in Job : j = job[p]
    BY DEF IInv, TypeOK
  <1>2. /\ j.pc = "close" /\ j.pc \in InTransaction
        /\ wo' = [wo EXCEPT ![j.ref].status = j.to]
        /\ asset' = IF j.put = Null THEN asset ELSE j.put
        /\ sched' = IF j.next = Null THEN sched
                    ELSE [sched EXCEPT ![j.schedule].next = j.next,
                                       ![j.schedule].last = IF j.last = Null THEN @ ELSE j.last]
        /\ job' = [job EXCEPT ![p] = Idle] /\ UNCHANGED <<custody, desk, today>>
    BY <1>1 DEF CloseTransaction, End, InTransaction
  <1>3. Idle.pc \notin {"write"} \cup InTransaction
    BY IdleFacts DEF InTransaction
  <1>4. PICK w \in WorkOrders, to \in ACTIVE_STATUSES \cup Closing :
          w = j.ref /\ to = j.to /\ wo[w] # Null
    BY <1>1, <1>2 DEF IInv, JobOK
  <1>5. /\ wo' \in [WorkOrders -> WorkOrder \cup {Null}]
        /\ wo'[w] # Null /\ wo'[w].status = to /\ wo'[w].schedule = wo[w].schedule
        /\ \A v \in WorkOrders \ {w} : wo'[v] = wo[v]
    <2>1. PICK row \in WorkOrder : row = wo[w]
      BY <1>4 DEF IInv, TypeOK
    <2>2. PICK new \in WorkOrder : new = [row EXCEPT !.status = to]
      BY DEF WorkOrder
    <2>3. new.status = to /\ new.schedule = row.schedule /\ new # Null
      BY <2>2 DEF WorkOrder
    <2>4. wo' = [wo EXCEPT ![w] = new]
      BY <1>2, <1>4, <2>1, <2>2
    <2> QED
      BY <2>1, <2>3, <2>4 DEF IInv, TypeOK
  <1>6. /\ sched' \in [Schedules -> Schedule \cup {Null}]
        /\ \A s \in Schedules : sched[s] # Null => sched'[s] # Null
    <2>1. sched \in [Schedules -> Schedule \cup {Null}]
      BY DEF IInv, TypeOK
    <2>2. CASE j.next = Null
      BY <1>2, <2>1, <2>2
    <2>3. CASE j.next # Null
      <3>1. PICK s \in Schedules, next \in Nat, row \in Schedule :
              s = j.schedule /\ next = j.next /\ row = sched[s]
        BY <1>1, <2>1, <2>3 DEF IInv, JobOK, Job
      <3>2. PICK last \in Nat \cup {Null} : last = IF j.last = Null THEN row.last ELSE j.last
        <4>1. row.last \in Nat \cup {Null} /\ j.last \in Nat \cup {Null}
          BY DEF Schedule, Job
        <4> QED
          BY <4>1
      <3>3. [row EXCEPT !.next = next, !.last = last] \in Schedule
        BY DEF Schedule
      <3>4. sched' = [sched EXCEPT ![s] = [row EXCEPT !.next = next, !.last = last]]
        BY <1>2, <2>1, <2>3, <3>1, <3>2 DEF Schedule
      <3> QED
        BY <2>1, <3>3, <3>4
    <2> QED
      BY <2>2, <2>3
  <1>7. asset' \in AssetStatuses \cup {Null}
    BY <1>2 DEF IInv, TypeOK, RegisterTypeOK, Job
  <1>8. ASSUME NEW s \in Schedules, NEW v \in WorkOrders, Claims(v, s)' PROVE Claims(v, s)
    <2>1. CASE v # w
      BY <1>2, <1>3, <1>5, <1>8, <2>1, IdleFacts, ClaimsKept
    <2>2. CASE v = w
      <3>1. wo[w].schedule = s
        BY <1>5, <1>8, <2>2 DEF Claims
      <3>2. CASE to \in ACTIVE_STATUSES
        BY <1>1, <1>2, <1>4, <2>2, <3>1, <3>2 DEF Claims
      <3>3. CASE to \notin ACTIVE_STATUSES
        <4>1. PICK q \in Procs : job'[q].pc \in InTransaction /\ job'[q].ref = w
                                 /\ job'[q].to \in ACTIVE_STATUSES
          BY <1>5, <1>8, <2>2, <3>3 DEF Claims
        <4>2. q # p /\ job'[q] = job[q]
          BY <1>2, <1>3, <4>1 DEF IInv, TypeOK
        <4> QED
          BY <1>4, <2>2, <3>1, <4>1, <4>2 DEF Claims
      <3> QED
        BY <3>2, <3>3
    <2> QED
      BY <2>1, <2>2
  <1>9. OneClaim'
    BY <1>8 DEF IInv, OneClaim
  <1>10. \A v \in WorkOrders : wo[v] # Null => wo'[v] # Null
    BY <1>5
  <1> QED
    BY <1>2, <1>3, <1>5, <1>6, <1>7, <1>9, <1>10, IdleFacts, RowsStep

\* A work order that a run opens: the index knows no other one of the schedule,
\* and no transaction is about to make one active.
LEMMA OpenDueInv ==
  ASSUME IInv, NEW p \in Procs, NEW w \in WorkOrders, OpenDue(p, w)
  PROVE  IInv'
  <1>1. PICK j \in Job : j = job[p]
    BY DEF IInv, TypeOK
  <1>2. j.pc = "open" /\ wo[w] = Null /\ UNCHANGED <<registerVars, today, sched>>
    BY <1>1 DEF OpenDue
  <1>3. PICK d \in j.due :
          /\ ~MustWait(p, w, d[1])
          /\ job' = [job EXCEPT ![p] = IF Exists(d[1]) THEN [j EXCEPT !.due = j.due \ {d}] ELSE Idle]
          /\ wo' = IF Exists(d[1]) /\ ~Refused(w, d[1], "OPEN")
                   THEN [wo EXCEPT ![w] = [status |-> "OPEN", schedule |-> d[1], due |-> d[2]]]
                   ELSE wo
    BY <1>1 DEF OpenDue
  <1>4. j.due \in SUBSET (Schedules \X Nat)
    BY DEF Job
  <1>5. PICK s \in Schedules, day \in Nat : s = d[1] /\ day = d[2]
    BY <1>3, <1>4
  <1>6. PICK r \in Job :
          /\ r = IF Exists(s) THEN [j EXCEPT !.due = j.due \ {d}] ELSE Idle
          /\ r.pc \in {"open", "idle"}
          /\ r.next # Null => r.next = j.next /\ r.schedule = j.schedule
    <2>1. CASE Exists(s)
      <3>1. [j EXCEPT !.due = j.due \ {d}] \in Job
        BY <1>4 DEF Job
      <3> QED
        BY <1>2, <2>1, <3>1 DEF Job
    <2>2. CASE ~Exists(s)
      BY <2>2, IdleFacts
    <2> QED
      BY <2>1, <2>2
  <1>7. job' = [job EXCEPT ![p] = r]
    <2>1. Exists(d[1]) <=> Exists(s)
      BY <1>5
    <2> QED
      BY <1>3, <1>6, <2>1
  <1>8. r.pc \notin {"write"} \cup InTransaction
    BY <1>6 DEF InTransaction
  <1>9. r.next # Null => r.schedule \in Schedules /\ sched'[r.schedule] # Null
    BY <1>1, <1>2, <1>6 DEF IInv, JobOK
  <1>10. PICK row \in WorkOrder : row = [status |-> "OPEN", schedule |-> s, due |-> day]
    BY DEF WorkOrder, ACTIVE_STATUSES
  <1>11. row.schedule = s
    BY <1>10
  <1>12. /\ wo' \in [WorkOrders -> WorkOrder \cup {Null}]
         /\ wo'[w] \in {wo[w], row} /\ (\A v \in WorkOrders \ {w} : wo'[v] = wo[v])
         /\ wo'[w] = row => ~Refused(w, s, "OPEN")
    <2>1. wo \in [WorkOrders -> WorkOrder \cup {Null}]
      BY DEF IInv, TypeOK
    <2>2. wo' = wo \/ (wo' = [wo EXCEPT ![w] = row] /\ ~Refused(w, s, "OPEN"))
      BY <1>3, <1>5, <1>10
    <2> QED
      BY <1>2, <2>1, <2>2
  <1>13. ASSUME NEW t \in Schedules, NEW v \in WorkOrders, Claims(v, t)', v # w
         PROVE  Claims(v, t)
    BY <1>7, <1>8, <1>12, <1>13, ClaimsKept
  <1>14. ASSUME NEW t \in Schedules, NEW v \in WorkOrders, Claims(v, t)', Claims(w, t)', v # w
         PROVE  FALSE
    <2>1. wo'[w] = row /\ t = s /\ s # Null
      BY <1>2, <1>11, <1>12, <1>14 DEF Claims
    <2>2. Claims(v, s) /\ wo[v].schedule = s
      BY <1>13, <1>14, <2>1 DEF Claims
    <2>3. ~Active(v)
      BY <1>12, <1>14, <2>1, <2>2 DEF Refused, OpenOf, Active, ACTIVE_STATUSES
    <2>4. PICK q \in Procs : job[q].pc \in InTransaction /\ job[q].ref = v
                             /\ job[q].to \in ACTIVE_STATUSES
      BY <2>2, <2>3 DEF Claims, Active
    <2>5. q # p
      BY <1>1, <1>2, <2>4 DEF InTransaction
    <2>6. MustWait(p, w, s)
      BY <1>14, <2>1, <2>2, <2>4, <2>5 DEF MustWait, Held
    <2> QED
      BY <1>3, <1>5, <2>6
  <1>15. OneClaim'
    <2> SUFFICES ASSUME NEW t \in Schedules, NEW u \in WorkOrders, NEW v \in WorkOrders,
                        Claims(u, t)', Claims(v, t)', u # v
                 PROVE  FALSE
      BY DEF OneClaim
    <2>1. u = w \/ v = w
      BY <1>13 DEF IInv, OneClaim
    <2> QED
      BY <1>14, <2>1
  <1>16. \A v \in WorkOrders : wo[v] # Null => wo'[v] # Null
    BY <1>2, <1>12
  <1>17. /\ sched' \in [Schedules -> Schedule \cup {Null}]
         /\ asset' \in AssetStatuses \cup {Null}
         /\ UNCHANGED <<custody, desk, today>>
         /\ \A t \in Schedules : sched[t] # Null => sched'[t] # Null
    BY <1>2 DEF IInv, TypeOK, RegisterTypeOK, registerVars
  <1> QED
    BY <1>7, <1>8, <1>9, <1>12, <1>15, <1>16, <1>17, RowsStep

LEMMA FindDueInv ==
  ASSUME IInv, NEW p \in Procs, FindDue(p)
  PROVE  IInv'
  <1>1. PICK j \in Job : j = job[p]
    BY DEF IInv, TypeOK
  <1>2. j.pc = "generate" /\ UNCHANGED rowVars
    BY <1>1 DEF FindDue, rowVars
  <1> DEFINE found == {s \in Schedules : IsDue(s) /\ j.ref \in {s, Null}}
  <1>3. PICK due \in SUBSET (Schedules \X Nat) : due = {<<s, sched[s].next>> : s \in found}
    <2>1. \A s \in found : sched[s].next \in Nat
      BY DEF IsDue, Exists, IInv, TypeOK, Schedule
    <2>2. \A s \in found : <<s, sched[s].next>> \in Schedules \X Nat
      BY <2>1
    <2> HIDE DEF found
    <2>3. {<<s, sched[s].next>> : s \in found} \in SUBSET (Schedules \X Nat)
      BY <2>2
    <2> QED
      BY <2>3
  <1> DEFINE r == [j EXCEPT !.pc = "open", !.due = due]
  <1>4. job' = [job EXCEPT ![p] = r]
    BY <1>1, <1>3 DEF FindDue
  <1>5. /\ r \in Job /\ r.pc = "open" /\ r.schedule = j.schedule /\ r.next = j.next
    <2>1. [j EXCEPT !.pc = "open"] \in Job
      BY DEF Job
    <2>2. PICK opening \in Job : opening = [j EXCEPT !.pc = "open"]
      BY <2>1
    <2>3. [opening EXCEPT !.due = due] \in Job
      BY DEF Job
    <2>4. r = [opening EXCEPT !.due = due]
      BY <2>2 DEF Job
    <2> QED
      BY <2>3, <2>4 DEF Job
  <1> HIDE DEF r
  <1>6. r.pc \notin {"write", "move"} \cup InTransaction
    BY <1>5 DEF InTransaction
  <1>7. r.next # Null => r.schedule \in Schedules /\ sched[r.schedule] # Null
    BY <1>1, <1>5 DEF IInv, JobOK
  <1> QED
    BY <1>2, <1>4, <1>5, <1>6, <1>7, JobStep

LEMMA EndRunInv ==
  ASSUME IInv, NEW p \in Procs, EndRun(p) \/ Rollback(p)
  PROVE  IInv'
  BY EndInv DEF EndRun, Rollback, rowVars

\* A request that writes a schedule and goes on to see whether it is due.
LEMMA ScheduleStep ==
  ASSUME IInv, NEW p \in Procs, NEW s \in Schedules, NEW new \in Schedule,
         sched' = [sched EXCEPT ![s] = new],
         job' = [job EXCEPT ![p] = [Idle EXCEPT !.pc = "generate", !.ref = s]],
         UNCHANGED <<registerVars, today, wo>>
  PROVE  IInv'
  <1> DEFINE r == [Idle EXCEPT !.pc = "generate", !.ref = s]
  <1>1. r \in Job /\ r.pc = "generate" /\ r.next = Null
    BY DEF Idle, Job
  <1>2. job' = [job EXCEPT ![p] = r]
    OBVIOUS
  <1> HIDE DEF r
  <1>3. r.pc \notin {"write"} \cup InTransaction
    BY <1>1 DEF InTransaction
  <1>4. /\ wo' = wo /\ wo' \in [WorkOrders -> WorkOrder \cup {Null}]
        /\ sched' \in [Schedules -> Schedule \cup {Null}]
        /\ \A t \in Schedules : sched[t] # Null => sched'[t] # Null
        /\ asset' \in AssetStatuses \cup {Null} /\ UNCHANGED <<custody, desk, today>>
    BY DEF IInv, TypeOK, RegisterTypeOK, registerVars
  <1>5. ASSUME NEW t \in Schedules, NEW w \in WorkOrders, Claims(w, t)' PROVE Claims(w, t)
    BY <1>1, <1>2, <1>3, <1>4, <1>5, ClaimsKept
  <1>6. OneClaim'
    BY <1>5 DEF IInv, OneClaim
  <1> QED
    BY <1>1, <1>2, <1>3, <1>4, <1>6, RowsStep

LEMMA InsertScheduleInv ==
  ASSUME IInv, NEW p \in Procs, NEW s \in Schedules, NEW first \in Days, NEW every \in Intervals,
         NEW basis \in {"FIXED", "FLOATING"}, InsertSchedule(p, s, first, every, basis)
  PROVE  IInv'
  <1> DEFINE new == [next |-> first, last |-> Null, every |-> every,
                     basis |-> basis, state |-> "active"]
  <1>1. new \in Schedule
    BY DEF Schedule, Days
  <1>2. /\ sched' = [sched EXCEPT ![s] = new]
        /\ job' = [job EXCEPT ![p] = [Idle EXCEPT !.pc = "generate", !.ref = s]]
        /\ UNCHANGED <<registerVars, today, wo>>
    BY DEF InsertSchedule
  <1> HIDE DEF new
  <1> QED
    BY <1>1, <1>2, ScheduleStep

LEMMA EditScheduleInv ==
  ASSUME IInv, NEW p \in Procs, NEW s \in Schedules, NEW next \in Days,
         NEW state \in {"active", "paused"}, EditSchedule(p, s, next, state)
  PROVE  IInv'
  <1>1. PICK old \in Schedule : old = sched[s]
    BY DEF EditSchedule, Exists, IInv, TypeOK
  <1> DEFINE new == [old EXCEPT !.next = next, !.state = state]
  <1>2. new \in Schedule
    <2>1. PICK day \in Nat : day = next
      BY DEF Days
    <2>2. [old EXCEPT !.next = day, !.state = state] \in Schedule
      BY DEF Schedule
    <2> QED
      BY <2>1, <2>2
  <1>3. /\ sched' = [sched EXCEPT ![s] = new]
        /\ job' = [job EXCEPT ![p] = [Idle EXCEPT !.pc = "generate", !.ref = s]]
        /\ UNCHANGED <<registerVars, today, wo>>
    BY <1>1 DEF EditSchedule, Schedule, IInv, TypeOK
  <1> HIDE DEF new
  <1> QED
    BY <1>2, <1>3, ScheduleStep

\* Work orders that lose their schedule claim nothing any more.
LEMMA RemoveScheduleInv ==
  ASSUME IInv, NEW s \in Schedules, RemoveSchedule(s)
  PROVE  IInv'
  <1>1. /\ wo \in [WorkOrders -> WorkOrder \cup {Null}]
        /\ sched \in [Schedules -> Schedule \cup {Null}]
    BY DEF IInv, TypeOK
  <1>2. PICK old \in Schedule : old = sched[s]
    BY <1>1 DEF RemoveSchedule, Exists
  <1>3. PICK new \in Schedule : new = [old EXCEPT !.state = "deleted"]
    BY DEF Schedule
  <1>4. sched' = [sched EXCEPT ![s] = new]
    BY <1>1, <1>2, <1>3 DEF RemoveSchedule
  <1>5. /\ sched' \in [Schedules -> Schedule \cup {Null}]
        /\ \A t \in Schedules : sched[t] # Null => sched'[t] # Null
    BY <1>1, <1>4
  <1>6. ASSUME NEW w \in WorkOrders
        PROVE  /\ wo'[w] \in WorkOrder \cup {Null}
               /\ wo[w] # Null => wo'[w] # Null
               /\ wo'[w] = wo[w] \/ (wo'[w] \in WorkOrder /\ wo'[w].schedule = Null)
    <2>1. CASE wo[w] # Null /\ wo[w].schedule = s
      <3>1. PICK row \in WorkOrder : row = wo[w]
        BY <1>1, <2>1
      <3>2. [row EXCEPT !.schedule = Null] \in WorkOrder
        BY DEF WorkOrder
      <3>3. wo'[w] = [row EXCEPT !.schedule = Null]
        BY <2>1, <3>1 DEF RemoveSchedule
      <3>4. [row EXCEPT !.schedule = Null].schedule = Null
        BY DEF WorkOrder
      <3> QED
        BY <3>2, <3>3, <3>4
    <2>2. CASE ~(wo[w] # Null /\ wo[w].schedule = s)
      BY <1>1, <2>2 DEF RemoveSchedule
    <2> QED
      BY <2>1, <2>2
  <1>7. wo' \in [WorkOrders -> WorkOrder \cup {Null}]
    <2>1. wo' = [w \in WorkOrders |-> wo'[w]]
      BY DEF RemoveSchedule
    <2> QED
      BY <1>6, <2>1
  <1>8. UNCHANGED <<asset, custody, desk, today, job>>
    BY DEF RemoveSchedule, registerVars
  <1>9. TypeOK'
    BY <1>5, <1>7, <1>8 DEF IInv, TypeOK, RegisterTypeOK
  <1>10. ASSUME NEW q \in Procs PROVE JobOK(q)'
    BY <1>5, <1>6, <1>8 DEF IInv, JobOK
  <1>11. Exclusive'
    BY <1>8 DEF IInv, Exclusive
  <1>12. ASSUME NEW t \in Schedules, NEW w \in WorkOrders, Claims(w, t)' PROVE Claims(w, t)
    <2>1. wo'[w] = wo[w]
      BY <1>6, <1>12 DEF Claims
    <2> QED
      BY <1>8, <1>12, <2>1 DEF Claims
  <1>13. OneClaim'
    BY <1>12 DEF IInv, OneClaim
  <1>14. (\A a, b \in Out : a = b)'
    BY <1>8 DEF IInv, Out
  <1> QED
    BY <1>9, <1>10, <1>11, <1>13, <1>14 DEF IInv

-----------------------------------------------------------------------------
(***************************************************************************)
(* Steps of the register and the calendar.                                 *)
(***************************************************************************)

LEMMA DeskStep ==
  ASSUME IInv, UNCHANGED <<wo, sched, job>>, RegisterTypeOK', today' \in Days,
         (\A a, b \in Out : a = b)'
  PROVE  IInv'
  <1>1. TypeOK'
    BY DEF IInv, TypeOK
  <1>2. \A q \in Procs : JobOK(q)'
    BY DEF IInv, JobOK
  <1>3. Exclusive' /\ OneClaim'
    BY DEF IInv, Exclusive, OneClaim, Claims
  <1> QED
    BY <1>1, <1>2, <1>3 DEF IInv

LEMMA AtTheDeskInv ==
  ASSUME IInv, NEW c \in Clerks, AtTheDesk(c)
  PROVE  IInv'
  <1>1. /\ asset \in AssetStatuses \cup {Null}
        /\ custody \in [Assignments -> {"none", "out", "returned"}]
        /\ desk \in [Clerks -> Errand] /\ Free \in Errand
    BY DEF IInv, TypeOK, RegisterTypeOK, Errand, Free
  <1>2. UNCHANGED <<today, wo, sched, job>> /\ today' \in Days
    BY DEF AtTheDesk, IInv, TypeOK
  <1>3. \A a, b \in Out : a = b
    BY DEF IInv
  <1>4. ASSUME NEW errand \in Errand, Take(c, errand)
        PROVE  RegisterTypeOK' /\ (\A a, b \in Out : a = b)'
    BY <1>1, <1>3, <1>4 DEF Take, RegisterTypeOK, Out
  <1>5. CASE \E s \in MANUAL_STATUSES : SetStatus(c, s)
    <2>1. PICK s \in MANUAL_STATUSES : SetStatus(c, s)
      BY <1>5
    <2>2. [Free EXCEPT !.pc = "status", !.status = s] \in Errand
      BY DEF Free, Errand
    <2> QED
      BY <1>2, <1>4, <2>1, <2>2, DeskStep DEF SetStatus
  <1>6. CASE WriteStatus(c)
    <2>1. desk[c].status \in AssetStatuses \cup {Null}
      BY <1>1 DEF Errand, MANUAL_STATUSES, AssetStatuses
    <2>2. RegisterTypeOK' /\ (\A a, b \in Out : a = b)'
      BY <1>1, <1>3, <1>6, <2>1 DEF WriteStatus, Done, RegisterTypeOK, Out
    <2> QED
      BY <1>2, <2>2, DeskStep
  <1>7. CASE CheckOut(c)
    <2>1. [Free EXCEPT !.pc = "out"] \in Errand
      BY DEF Free, Errand
    <2> QED
      BY <1>2, <1>4, <1>7, <2>1, DeskStep DEF CheckOut
  <1>8. CASE \E a \in Assignments : HandOut(c, a)
    <2>1. PICK a \in Assignments : HandOut(c, a)
      BY <1>8
    <2>2. RegisterTypeOK'
      BY <1>1, <2>1 DEF HandOut, Done, RegisterTypeOK
    <2>3. Out' = Out \/ Out' = {a}
      BY <1>1, <2>1 DEF HandOut, Out
    <2> QED
      BY <1>2, <1>3, <2>2, <2>3, DeskStep
  <1>9. CASE \E a \in Assignments : CheckIn(c, a)
    <2>1. PICK a \in Assignments : CheckIn(c, a)
      BY <1>9
    <2>2. [Free EXCEPT !.pc = "in", !.ref = a] \in Errand
      BY DEF Free, Errand
    <2> QED
      BY <1>2, <1>4, <2>1, <2>2, DeskStep DEF CheckIn
  <1>10. CASE TakeIn(c)
    <2>1. RegisterTypeOK'
      BY <1>1, <1>10 DEF TakeIn, Done, RegisterTypeOK
    <2>2. Out' \subseteq Out
      BY <1>1, <1>10 DEF TakeIn, Out
    <2> QED
      BY <1>2, <1>3, <2>1, <2>2, DeskStep
  <1>11. CASE Drop(c)
    <2>1. RegisterTypeOK' /\ (\A a, b \in Out : a = b)'
      BY <1>1, <1>3, <1>11 DEF Drop, Done, RegisterTypeOK, Out
    <2> QED
      BY <1>2, <2>1, DeskStep
  <1> QED
    BY <1>5, <1>6, <1>7, <1>8, <1>9, <1>10, <1>11 DEF AtTheDesk

LEMMA RegisterOrMidnightInv ==
  ASSUME IInv, (Register /\ UNCHANGED <<today, wo, sched, job>>) \/ Midnight
  PROVE  IInv'
  <1>1. UNCHANGED <<custody, desk, wo, sched, job>> /\ asset' \in {asset, "ACTIVE"}
        /\ (today' = today \/ (today < LastDay /\ today' = today + 1))
    <2>1. CASE Register /\ UNCHANGED <<today, wo, sched, job>>
      BY <2>1 DEF Register
    <2>2. CASE Midnight
      BY <2>2 DEF Midnight, registerVars
    <2> QED
      BY <2>1, <2>2
  <1>2. RegisterTypeOK'
    BY <1>1 DEF IInv, TypeOK, RegisterTypeOK, AssetStatuses
  <1>3. today' \in Days
    <2>1. today \in Nat /\ today <= LastDay
      BY DEF IInv, TypeOK, Days
    <2> QED
      BY <1>1, <2>1 DEF Days
  <1>4. (\A a, b \in Out : a = b)'
    BY <1>1 DEF IInv, Out
  <1> QED
    BY <1>1, <1>2, <1>3, <1>4, DeskStep

LEMMA StepInv ==
  ASSUME IInv, [Next]_vars
  PROVE  IInv'
  <1>1. CASE UNCHANGED vars
    <2>1. UNCHANGED <<wo, sched, job, today, asset, custody, desk>>
      BY <1>1 DEF vars, registerVars
    <2>2. RegisterTypeOK' /\ today' \in Days /\ (\A a, b \in Out : a = b)'
      BY <2>1 DEF IInv, TypeOK, RegisterTypeOK, Out
    <2> QED
      BY <2>1, <2>2, DeskStep
  <1>2. CASE Register /\ UNCHANGED <<today, wo, sched, job>>
    BY <1>2, RegisterOrMidnightInv
  <1>3. ASSUME NEW c \in Clerks, AtTheDesk(c) PROVE IInv'
    BY <1>3, AtTheDeskInv
  <1>4. ASSUME NEW p \in Workers, Ask(p) PROVE IInv'
    <2>1. p \in Procs
      BY DEF Procs
    <2>2. CASE OpenWorkOrder(p) \/ AddSchedule(p)
      BY <2>1, <2>2, AskInv
    <2>3. CASE \E w \in WorkOrders, to \in ACTIVE_STATUSES \cup Closing : MoveWorkOrder(p, w, to)
      BY <2>1, <2>3, MoveWorkOrderInv
    <2>4. CASE \E s \in Schedules, next \in Days, state \in {"active", "paused"} :
                 EditSchedule(p, s, next, state)
      BY <2>1, <2>4, EditScheduleInv
    <2> QED
      BY <1>4, <2>2, <2>3, <2>4 DEF Ask
  <1>5. ASSUME NEW p \in Procs, Generate(p) \/ Rollback(p) PROVE IInv'
    BY <1>5, AskInv, EndRunInv
  <1>6. ASSUME NEW p \in Procs, Serve(p) PROVE IInv'
    <2>1. CASE \E w \in WorkOrders : InsertWorkOrder(p, w)
      BY <2>1, InsertWorkOrderInv
    <2>2. CASE WriteWorkOrder(p)
      BY <2>2, WriteWorkOrderInv
    <2>3. CASE SyncAssetStatus(p)
      BY <2>3, SyncAssetStatusInv
    <2>4. CASE CountActive(p)
      BY <2>4, CountActiveInv
    <2>5. CASE TouchAsset(p)
      BY <2>5, TouchAssetInv
    <2>6. CASE OnWorkOrderClosed(p)
      BY <2>6, OnWorkOrderClosedInv
    <2>7. CASE CloseTransaction(p)
      BY <2>7, CloseTransactionInv
    <2>8. CASE \E s \in Schedules, first \in Days, every \in Intervals, basis \in {"FIXED", "FLOATING"} :
                 InsertSchedule(p, s, first, every, basis)
      BY <2>8, InsertScheduleInv
    <2>9. CASE FindDue(p)
      BY <2>9, FindDueInv
    <2>10. CASE \E w \in WorkOrders : OpenDue(p, w)
      BY <2>10, OpenDueInv
    <2>11. CASE EndRun(p)
      BY <2>11, EndRunInv
    <2> QED
      BY <1>6, <2>1, <2>2, <2>3, <2>4, <2>5, <2>6, <2>7, <2>8, <2>9, <2>10, <2>11 DEF Serve
  <1>7. ASSUME NEW s \in Schedules, RemoveSchedule(s) PROVE IInv'
    BY <1>7, RemoveScheduleInv
  <1>8. CASE Midnight
    BY <1>8, RegisterOrMidnightInv
  <1> QED
    BY <1>1, <1>2, <1>3, <1>4, <1>5, <1>6, <1>7, <1>8 DEF Next

-----------------------------------------------------------------------------
(***************************************************************************)
(* The results.                                                            *)
(***************************************************************************)

\* What every request relies on while others run: the rows it has read are
\* there, one transaction has updated a work order, one work order is open or
\* about to be for each schedule, one assignment is open.
THEOREM MaintenanceInvariant == Spec => []IInv
  <1>1. Init => IInv
    BY InitInv
  <1>2. IInv /\ [Next]_vars => IInv'
    BY StepInv
  <1> QED
    BY <1>1, <1>2, PTL DEF Spec

\* Rows and requests keep their shapes.
THEOREM TypeCorrect == Spec => []TypeOK
  <1>1. IInv => TypeOK
    BY DEF IInv
  <1> QED
    BY <1>1, MaintenanceInvariant, PTL

\* "There is only ever one open work order per schedule" (README.md:286),
\* however many requests and runs open and reopen them at once.
THEOREM OneOpen == Spec => []OneOpenPerSchedule
  <1>1. ASSUME IInv PROVE OneOpenPerSchedule
    <2> SUFFICES ASSUME NEW s \in Schedules PROVE Cardinality(OpenOf(s)) <= 1
      BY DEF OneOpenPerSchedule
    <2>1. \A w \in OpenOf(s) : w \in WorkOrders /\ Claims(w, s)
      BY DEF OpenOf, Active, Claims
    <2>2. \A v, w \in OpenOf(s) : v = w
      BY <1>1, <2>1 DEF IInv, OneClaim
    <2> HIDE DEF OpenOf
    <2> QED
      BY <2>2, AtMostOne
  <1> QED
    BY <1>1, MaintenanceInvariant, PTL

\* One open assignment of an asset, "even if two people click at once"
\* (README.md:220-221).
THEOREM OneHolderAlways == Spec => []OneHolder
  <1>1. ASSUME IInv PROVE OneHolder
    <2>1. \A a, b \in Out : a = b
      BY <1>1 DEF IInv
    <2> QED
      BY <2>1, AtMostOne DEF OneHolder
  <1> QED
    BY <1>1, MaintenanceInvariant, PTL

-----------------------------------------------------------------------------
(***************************************************************************)
(* The date after the service.                                             *)
(***************************************************************************)

\* A request whose dates are none, or those it had.
LEMMA DatesKept ==
  ASSUME IInv, ServiceThenDue, NEW p \in Procs, NEW r, job' = [job EXCEPT ![p] = r],
         r.last = Null \/ (r.last = job[p].last /\ r.next = job[p].next)
  PROVE  ServiceThenDue'
  BY DEF IInv, TypeOK, ServiceThenDue

LEMMA DatesOfIdle ==
  ASSUME IInv, ServiceThenDue, NEW p \in Procs, NEW r, r.last = Null, job' = [job EXCEPT ![p] = r]
  PROVE  ServiceThenDue'
  BY DatesKept

LEMMA AskDates ==
  ASSUME IInv, ServiceThenDue, NEW p \in Procs, Ask(p) \/ Generate(p) \/ Rollback(p)
  PROVE  ServiceThenDue'
  <1>1. PICK r : r.last = Null /\ job' = [job EXCEPT ![p] = r]
    <2>1. CASE OpenWorkOrder(p)
      BY <2>1 DEF OpenWorkOrder, Begin, Idle
    <2>2. CASE \E w \in WorkOrders, to \in ACTIVE_STATUSES \cup Closing : MoveWorkOrder(p, w, to)
      BY <2>2 DEF MoveWorkOrder, Begin, Idle
    <2>3. CASE AddSchedule(p)
      BY <2>3 DEF AddSchedule, Begin, Idle
    <2>4. CASE \E s \in Schedules, next \in Days, state \in {"active", "paused"} :
                 EditSchedule(p, s, next, state)
      BY <2>4 DEF EditSchedule, Idle
    <2>5. CASE Generate(p)
      BY <2>5 DEF Generate, Begin, Idle
    <2>6. CASE Rollback(p)
      BY <2>6, IdleFacts DEF Rollback, End
    <2> QED
      BY <2>1, <2>2, <2>3, <2>4, <2>5, <2>6 DEF Ask
  <1> QED
    BY <1>1, DatesOfIdle

LEMMA ServeDates ==
  ASSUME IInv, ServiceThenDue, LastDay < MAX_CATCH_UP_STEPS, NEW p \in Procs, Serve(p)
  PROVE  ServiceThenDue'
  <1>1. PICK j \in Job : j = job[p]
    BY DEF IInv, TypeOK
  <1>2. CASE OnWorkOrderClosed(p)
    <2>1. /\ j.schedule \in Schedules /\ today \in Days
          /\ job' = [job EXCEPT ![p] = job'[p]]
          /\ job'[p].next = IF Exists(j.schedule) THEN NextDue(j.schedule, j.to, today) ELSE Null
          /\ job'[p].last = IF Exists(j.schedule) /\ j.to = "COMPLETED" THEN today ELSE Null
      BY <1>1, <1>2 DEF OnWorkOrderClosed, IInv, TypeOK, JobOK, Job
    <2>2. CASE Exists(j.schedule) /\ j.to = "COMPLETED"
      <3>1. NextDue(j.schedule, j.to, today) \in Nat /\ NextDue(j.schedule, j.to, today) > today
        BY <2>1, <2>2, NextDueFacts DEF Exists
      <3>2. job'[p].next # Null /\ job'[p].next > job'[p].last
        BY <2>1, <2>2, <3>1
      <3> QED
        BY <2>1, <3>2 DEF IInv, TypeOK, ServiceThenDue
    <2>3. CASE ~(Exists(j.schedule) /\ j.to = "COMPLETED")
      BY <2>1, <2>3, DatesOfIdle
    <2> QED
      BY <2>2, <2>3
  <1>3. CASE ~OnWorkOrderClosed(p)
    <2> DEFINE kept == /\ job' = [job EXCEPT ![p] = job'[p]]
                       /\ \/ job'[p].last = Null
                          \/ job'[p].last = j.last /\ job'[p].next = j.next
    <2>1. job \in [Procs -> Job] /\ j = job[p]
      BY <1>1 DEF IInv, TypeOK
    <2>2. ASSUME job' = [job EXCEPT ![p] = Idle] PROVE kept
      BY <2>1, <2>2, IdleFacts
    <2>3. ASSUME (\E w \in WorkOrders : InsertWorkOrder(p, w)) \/ CloseTransaction(p) \/ EndRun(p) PROVE kept
      BY <2>2, <2>3 DEF InsertWorkOrder, CloseTransaction, EndRun, End
    <2>4. ASSUME WriteWorkOrder(p) PROVE kept
      <3>1. CASE job' = [job EXCEPT ![p] = [j EXCEPT !.pc = "sync"]]
        BY <2>1, <3>1 DEF Job
      <3> QED
        BY <2>1, <2>2, <2>4, <3>1 DEF WriteWorkOrder
    <2>5. ASSUME SyncAssetStatus(p) PROVE kept
      <3>1. PICK put, pc : job' = [job EXCEPT ![p].seen = asset, ![p].put = put, ![p].pc = pc]
        BY <2>5 DEF SyncAssetStatus
      <3> QED
        BY <2>1, <3>1 DEF Job
    <2>6. ASSUME CountActive(p) PROVE kept
      BY <2>1, <2>6 DEF CountActive, Job
    <2>7. ASSUME TouchAsset(p) PROVE kept
      BY <2>1, <2>7 DEF TouchAsset, Goes, Job
    <2>8. ASSUME \E s \in Schedules, first \in Days, every \in Intervals, basis \in {"FIXED", "FLOATING"} :
                 InsertSchedule(p, s, first, every, basis) PROVE kept
      <3>1. PICK s \in Schedules : job' = [job EXCEPT ![p] = [Idle EXCEPT !.pc = "generate", !.ref = s]]
        BY <2>8 DEF InsertSchedule
      <3> QED
        BY <2>1, <3>1 DEF Idle
    <2>9. ASSUME FindDue(p) PROVE kept
      BY <2>1, <2>9 DEF FindDue, Job
    <2>10. ASSUME \E w \in WorkOrders : OpenDue(p, w) PROVE kept
      <3>1. PICK d : job' = [job EXCEPT ![p] = IF Exists(d[1]) THEN [j EXCEPT !.due = j.due \ {d}]
                                               ELSE Idle]
        BY <2>1, <2>10 DEF OpenDue
      <3>2. CASE Exists(d[1])
        BY <2>1, <3>1, <3>2 DEF Job
      <3>3. CASE ~Exists(d[1])
        BY <2>2, <3>1, <3>3
      <3> QED
        BY <3>2, <3>3
    <2>11. kept
      BY <1>3, <2>3, <2>4, <2>5, <2>6, <2>7, <2>8, <2>9, <2>10 DEF Serve
    <2> QED
      BY <2>1, <2>11, DatesKept
  <1> QED
    BY <1>2, <1>3

LEMMA DatesInv ==
  ASSUME IInv, ServiceThenDue, LastDay < MAX_CATCH_UP_STEPS, [Next]_vars
  PROVE  ServiceThenDue'
  <1>1. CASE job' = job
    BY <1>1 DEF ServiceThenDue
  <1>2. ASSUME NEW p \in Workers, Ask(p) PROVE ServiceThenDue'
    BY <1>2, AskDates DEF Procs
  <1>3. ASSUME NEW p \in Procs, Generate(p) \/ Serve(p) \/ Rollback(p) PROVE ServiceThenDue'
    BY <1>3, AskDates, ServeDates
  <1>4. CASE UNCHANGED vars
    BY <1>1, <1>4 DEF vars
  <1>5. CASE \/ Register /\ UNCHANGED <<today, wo, sched, job>>
             \/ \E c \in Clerks : AtTheDesk(c)
             \/ \E s \in Schedules : RemoveSchedule(s)
             \/ Midnight
    BY <1>1, <1>5 DEF AtTheDesk, RemoveSchedule, Midnight
  <1> QED
    BY <1>2, <1>3, <1>4, <1>5 DEF Next

\* The service that is recorded last is followed by a due date after it, where
\* the catch-up may take a step for every day of the calendar.
THEOREM DueAfterService ==
  ASSUME LastDay < MAX_CATCH_UP_STEPS
  PROVE  Spec => NextDueAfterService
  <1> DEFINE After == \A s \in Schedules : Exists(s) /\ sched'[s].last # sched[s].last =>
                        sched'[s].next > sched'[s].last
  <1>1. Init => ServiceThenDue
    BY IdleFacts DEF Init, ServiceThenDue
  <1>2. IInv /\ ServiceThenDue /\ [Next]_vars => ServiceThenDue'
    BY DatesInv
  <1>3. ASSUME IInv, ServiceThenDue, [Next]_vars PROVE [After]_vars
    <2>1. sched \in [Schedules -> Schedule \cup {Null}]
      BY <1>3 DEF IInv, TypeOK
    <2>2. CASE sched' = sched
      BY <2>2
    <2>3. ASSUME NEW p \in Procs, CloseTransaction(p) PROVE After
      <3>1. PICK j \in Job : j = job[p] /\ JobOK(p)
        BY <1>3 DEF IInv, TypeOK
      <3>2. CASE j.next = Null
        BY <2>2, <2>3, <3>1, <3>2 DEF CloseTransaction
      <3>3. CASE j.next # Null
        <4>1. PICK s \in Schedules, row \in Schedule, next \in Nat, last \in Nat \cup {Null} :
                s = j.schedule /\ row = sched[s] /\ next = j.next /\ last = j.last
          BY <1>3, <2>1, <3>1, <3>3 DEF JobOK, Job
        <4>2. sched' = [sched EXCEPT ![s].next = next,
                                     ![s].last = IF last = Null THEN @ ELSE last]
          BY <2>3, <3>1, <3>3, <4>1 DEF CloseTransaction
        <4>3. last # Null => next > last
          BY <1>3, <3>1, <4>1 DEF ServiceThenDue
        <4>4. \A t \in Schedules \ {s} : sched'[t] = sched[t]
          BY <2>1, <4>2
        <4>5. /\ sched'[s].next = next
              /\ last = Null => sched'[s].last = row.last
              /\ last # Null => sched'[s].last = last
          BY <2>1, <4>1, <4>2 DEF Schedule
        <4> QED
          BY <4>1, <4>3, <4>4, <4>5
      <3> QED
        BY <3>2, <3>3
    <2>4. ASSUME NEW s \in Schedules, RemoveSchedule(s) PROVE After
      BY <2>1, <2>4 DEF RemoveSchedule, Exists, Schedule
    <2>5. ASSUME NEW p \in Procs, NEW s \in Schedules, NEW next, NEW state,
                 EditSchedule(p, s, next, state)
          PROVE  After
      BY <2>1, <2>5 DEF EditSchedule, Exists, Schedule
    <2>6. ASSUME NEW p \in Procs, NEW s \in Schedules, NEW first, NEW every, NEW basis,
                 InsertSchedule(p, s, first, every, basis)
          PROVE  After
      BY <2>1, <2>6 DEF InsertSchedule, Exists
    <2>7. CASE UNCHANGED vars
      BY <2>7
    <2>8. CASE \/ Register /\ UNCHANGED <<today, wo, sched, job>>
               \/ \E c \in Clerks : AtTheDesk(c)
               \/ Midnight
      BY <2>2, <2>8 DEF AtTheDesk, Midnight
    <2>9. ASSUME NEW p \in Workers, Ask(p) PROVE After
      <3>1. CASE \/ OpenWorkOrder(p) \/ AddSchedule(p)
                 \/ \E w \in WorkOrders, to \in ACTIVE_STATUSES \cup Closing : MoveWorkOrder(p, w, to)
        BY <2>2, <3>1 DEF OpenWorkOrder, AddSchedule, MoveWorkOrder, Begin
      <3> QED
        BY <2>5, <2>9, <3>1 DEF Ask, Procs
    <2>10. ASSUME NEW p \in Procs, Generate(p) \/ Rollback(p) PROVE After
      BY <2>2, <2>10 DEF Generate, Begin, Rollback
    <2>11. ASSUME NEW p \in Procs, Serve(p) PROVE After
      <3>1. CASE \/ \E w \in WorkOrders : InsertWorkOrder(p, w)
                 \/ WriteWorkOrder(p) \/ SyncAssetStatus(p) \/ CountActive(p) \/ TouchAsset(p)
                 \/ OnWorkOrderClosed(p) \/ FindDue(p)
                 \/ \E w \in WorkOrders : OpenDue(p, w)
                 \/ EndRun(p)
        BY <2>2, <3>1 DEF InsertWorkOrder, WriteWorkOrder, SyncAssetStatus, CountActive, TouchAsset,
           Goes, OnWorkOrderClosed, FindDue, OpenDue, EndRun
      <3> QED
        BY <2>3, <2>6, <2>11, <3>1 DEF Serve
    <2> HIDE DEF After
    <2> QED
      BY <1>3, <2>4, <2>7, <2>8, <2>9, <2>10, <2>11 DEF Next
  <1>4. IInv /\ ServiceThenDue /\ [Next]_vars => [After]_vars
    BY <1>3
  <1> QED
    BY <1>1, <1>2, <1>4, MaintenanceInvariant, PTL DEF Spec, NextDueAfterService

-----------------------------------------------------------------------------
(***************************************************************************)
(* Requests that do not overlap.                                           *)
(***************************************************************************)

\* Nobody but p, or nobody but c, is served.
AloneAtWork(p) == (\A q \in Procs \ {p} : job[q] = Idle) /\ (\A c \in Clerks : desk[c] = Free)
AloneAtDesk(c) == (\A d \in Clerks \ {c} : desk[d] = Free) /\ (\A q \in Procs : job[q] = Idle)

LEMMA NullNoStatus == Null # "DECOMMISSIONED" /\ Null # "UNDER_MAINTENANCE" /\ Null # "ACTIVE"
  <1>1. Null \notin AssetStatuses
    BY MaintenanceAssumption
  <1> QED
    BY <1>1 DEF AssetStatuses

LEMMA InitSerial == Init => OneInFlight /\ SerialInv
  <1> SUFFICES ASSUME Init PROVE OneInFlight /\ SerialInv
    OBVIOUS
  <1>1. \A p \in Procs : Undisturbed(p)
    BY NullNoStatus DEF Init, Undisturbed, Idle
  <1>2. \A c \in Clerks : Attended(c)
    BY DEF Init, RegisterInit, Attended, Free
  <1>3. UnderMaintenanceHasWork /\ DecommissionedIsHome
    BY NullNoStatus DEF Init, RegisterInit, UnderMaintenanceHasWork, DecommissionedIsHome
  <1>4. OneInFlight
    BY DEF Init, RegisterInit, OneInFlight, InFlight
  <1> QED
    BY <1>1, <1>2, <1>3, <1>4 DEF SerialInv

\* A request that has put nothing on the asset and is at none of the points that
\* rely on what it has read is not disturbed by anything.
LEMMA NothingAtStake ==
  ASSUME NEW p \in Procs, job'[p].put = Null,
         job'[p].pc \in {"idle", "insert", "write", "sync", "plan", "generate"}
  PROVE  Undisturbed(p)'
  BY NullNoStatus DEF Undisturbed

\* A step of a request that is served alone, and one at the desk.
LEMMA WorkSerial ==
  ASSUME NEW p \in Procs, AloneAtWork(p)', Undisturbed(p)', UnderMaintenanceHasWork',
         DecommissionedIsHome'
  PROVE  SerialInv'
  <1>1. \A q \in Procs : Undisturbed(q)'
    <2> SUFFICES ASSUME NEW q \in Procs, q # p PROVE Undisturbed(q)'
      OBVIOUS
    <2>1. job'[q] = Idle
      BY DEF AloneAtWork
    <2> QED
      BY <2>1, NothingAtStake DEF Idle
  <1>2. \A c \in Clerks : Attended(c)'
    BY DEF AloneAtWork, Attended, Free
  <1> QED
    BY <1>1, <1>2 DEF SerialInv

LEMMA DeskSerial ==
  ASSUME NEW c \in Clerks, AloneAtDesk(c)', Attended(c)', UnderMaintenanceHasWork',
         DecommissionedIsHome'
  PROVE  SerialInv'
  <1>1. \A q \in Procs : Undisturbed(q)'
    <2> SUFFICES ASSUME NEW q \in Procs PROVE Undisturbed(q)'
      OBVIOUS
    <2>1. job'[q] = Idle
      BY DEF AloneAtDesk
    <2> QED
      BY <2>1, NothingAtStake DEF Idle
  <1>2. \A d \in Clerks : Attended(d)'
    BY DEF AloneAtDesk, Attended, Free
  <1> QED
    BY <1>1, <1>2 DEF SerialInv

\* Work orders may become active, none ceases to be: the asset's status stays right.
LEMMA AssetKept ==
  ASSUME SerialInv, UNCHANGED <<asset, custody>>, \A w \in WorkOrders : Active(w) => Active(w)'
  PROVE  UnderMaintenanceHasWork' /\ DecommissionedIsHome'
  BY DEF SerialInv, UnderMaintenanceHasWork, DecommissionedIsHome, Out

LEMMA RowsKept ==
  ASSUME SerialInv, UNCHANGED rowVars
  PROVE  /\ UnderMaintenanceHasWork' /\ DecommissionedIsHome'
         /\ \A w \in WorkOrders : StillActive(w)' = StillActive(w)
  <1>1. UNCHANGED <<asset, custody, wo>>
    BY DEF rowVars, registerVars
  <1>2. \A w \in WorkOrders : Active(w)' <=> Active(w)
    BY <1>1 DEF Active
  <1> QED
    BY <1>1, <1>2, AssetKept DEF StillActive

-----------------------------------------------------------------------------
(***************************************************************************)
(* The steps of a request that is served alone.                            *)
(***************************************************************************)
LEMMA QuietSerial ==
  ASSUME IInv, SerialInv, NEW p \in Procs, AloneAtWork(p)', NEW r, job' = [job EXCEPT ![p] = r],
         UNCHANGED <<asset, custody, wo>>, r.put = Null,
         r.pc \in {"idle", "insert", "write", "sync", "plan", "generate"}
  PROVE  SerialInv'
  <1>1. job'[p] = r
    BY DEF IInv, TypeOK
  <1>2. Undisturbed(p)'
    BY <1>1, NothingAtStake
  <1>3. UnderMaintenanceHasWork' /\ DecommissionedIsHome'
    BY AssetKept DEF Active
  <1> QED
    BY <1>2, <1>3, WorkSerial

LEMMA AskSerial ==
  ASSUME IInv, SerialInv, NEW p \in Procs, AloneAtWork(p)', Ask(p) \/ Generate(p) \/ Rollback(p)
  PROVE  SerialInv'
  <1>1. CASE Rollback(p)
    <2>1. job' = [job EXCEPT ![p] = Idle] /\ UNCHANGED <<asset, custody, wo>>
      BY <1>1 DEF Rollback, End, registerVars
    <2>2. Idle.put = Null /\ Idle.pc = "idle"
      BY DEF Idle
    <2> QED
      BY <2>1, <2>2, QuietSerial
  <1>2. CASE OpenWorkOrder(p) \/ AddSchedule(p) \/ Generate(p)
    <2>1. PICK pc \in {"insert", "plan", "generate"} : Begin(p, [Idle EXCEPT !.pc = pc])
      BY <1>2 DEF OpenWorkOrder, AddSchedule, Generate
    <2> DEFINE r == [Idle EXCEPT !.pc = pc]
    <2>2. job' = [job EXCEPT ![p] = r] /\ UNCHANGED <<asset, custody, wo>>
      BY <2>1 DEF Begin, registerVars
    <2>3. r.put = Null /\ r.pc \in {"insert", "plan", "generate"}
      BY DEF Idle
    <2> HIDE DEF r
    <2> QED
      BY <2>2, <2>3, QuietSerial
  <1>3. ASSUME NEW w \in WorkOrders, NEW to, MoveWorkOrder(p, w, to) PROVE SerialInv'
    <2> DEFINE r == [Idle EXCEPT !.pc = "write", !.ref = w, !.schedule = wo[w].schedule, !.to = to]
    <2>1. job' = [job EXCEPT ![p] = r] /\ UNCHANGED <<asset, custody, wo>>
      BY <1>3 DEF MoveWorkOrder, Begin, registerVars
    <2>2. r.put = Null /\ r.pc = "write"
      BY DEF Idle
    <2> HIDE DEF r
    <2> QED
      BY <2>1, <2>2, QuietSerial
  <1>4. ASSUME NEW s \in Schedules, NEW next, NEW state, EditSchedule(p, s, next, state)
        PROVE  SerialInv'
    <2> DEFINE r == [Idle EXCEPT !.pc = "generate", !.ref = s]
    <2>1. job' = [job EXCEPT ![p] = r] /\ UNCHANGED <<asset, custody, wo>>
      BY <1>4 DEF EditSchedule, registerVars
    <2>2. r.put = Null /\ r.pc = "generate"
      BY DEF Idle
    <2> HIDE DEF r
    <2> QED
      BY <2>1, <2>2, QuietSerial
  <1> QED
    BY <1>1, <1>2, <1>3, <1>4 DEF Ask

LEMMA WriteWorkOrderSerial ==
  ASSUME IInv, SerialInv, NEW p \in Procs, AloneAtWork(p)', WriteWorkOrder(p)
  PROVE  SerialInv'
  <1>1. UNCHANGED rowVars
    BY DEF WriteWorkOrder, rowVars
  <1>2. Undisturbed(p)'
    <2>1. CASE job' = [job EXCEPT ![p] = Idle]
      BY <2>1, NothingAtStake DEF Idle, IInv, TypeOK
    <2>2. CASE job' = [job EXCEPT ![p].pc = "sync"]
      <3>1. job[p] \in Job /\ Undisturbed(p)
        BY DEF IInv, TypeOK, SerialInv
      <3>2. job'[p].pc = "sync" /\ job'[p].put = job[p].put /\ job'[p].to = job[p].to
        BY <2>2, <3>1 DEF Job, IInv, TypeOK
      <3> QED
        BY <3>1, <3>2 DEF Undisturbed
    <2> QED
      BY <2>1, <2>2 DEF WriteWorkOrder
  <1> QED
    BY <1>1, <1>2, RowsKept, WorkSerial

LEMMA SyncAssetStatusSerial ==
  ASSUME IInv, SerialInv, NEW p \in Procs, AloneAtWork(p)', SyncAssetStatus(p)
  PROVE  SerialInv'
  <1>1. UNCHANGED rowVars /\ asset' = asset /\ job[p] \in Job /\ asset \in AssetStatuses \cup {Null}
    BY DEF SyncAssetStatus, rowVars, registerVars, IInv, TypeOK, RegisterTypeOK
  <1>2. PICK after \in {"move", "close"} : after = AfterAsset(p)
    BY AfterAssetFacts
  <1>3. /\ job'[p].seen = asset /\ job'[p].to = job[p].to /\ job'[p].ref = job[p].ref
        /\ job'[p].put = IF job[p].to = "IN_PROGRESS" /\ asset = "ACTIVE"
                         THEN "UNDER_MAINTENANCE" ELSE Null
    BY <1>1 DEF SyncAssetStatus, Job, IInv, TypeOK
  <1>4. job'[p].pc = CASE asset # "DECOMMISSIONED" /\ job[p].to \in Closing -> "count"
                       [] asset = "ACTIVE" /\ job[p].to = "IN_PROGRESS" -> "touch"
                       [] OTHER -> after
    BY <1>1, <1>2 DEF SyncAssetStatus, Job, IInv, TypeOK
  <1>5. "IN_PROGRESS" \notin Closing
    BY DEF Closing
  <1>6. Undisturbed(p)'
    <2>1. CASE asset # "DECOMMISSIONED" /\ job[p].to \in Closing
      BY <1>1, <1>3, <1>4, <1>5, <2>1, NullNoStatus DEF Undisturbed
    <2>2. CASE job[p].to \notin Closing
      <3>1. job'[p].pc # "count" /\ job'[p].pc # "open"
        BY <1>4, <2>2
      <3> QED
        BY <1>1, <1>3, <2>2, <3>1, NullNoStatus DEF Undisturbed
    <2>3. CASE asset = "DECOMMISSIONED" /\ job[p].to \in Closing
      <3>1. job'[p].pc # "count" /\ job'[p].pc # "open"
        BY <1>4, <1>5, <2>3
      <3> QED
        BY <1>1, <1>3, <1>5, <2>3, <3>1, NullNoStatus DEF Undisturbed
    <2> QED
      BY <2>1, <2>2, <2>3
  <1> QED
    BY <1>1, <1>6, RowsKept, WorkSerial

LEMMA CountActiveSerial ==
  ASSUME IInv, SerialInv, NEW p \in Procs, AloneAtWork(p)', CountActive(p)
  PROVE  SerialInv'
  <1>1. UNCHANGED rowVars /\ asset' = asset /\ job[p] \in Job /\ job[p].ref \in WorkOrders
        /\ Undisturbed(p) /\ job[p].pc = "count"
    BY DEF CountActive, rowVars, registerVars, IInv, TypeOK, SerialInv, JobOK, InTransaction
  <1>2. PICK after \in {"move", "close"} : after = AfterAsset(p)
    BY AfterAssetFacts
  <1>3. PICK w \in WorkOrders : w = job[p].ref /\ StillActive(w)' = StillActive(w)
    BY <1>1, RowsKept
  <1>4. job'[p].to = job[p].to /\ job'[p].ref = w
    BY <1>1, <1>3 DEF CountActive, Job, IInv, TypeOK
  <1>5. CASE StillActive(job[p].ref) = {} /\ job[p].seen = "UNDER_MAINTENANCE"
    <2>1. job'[p].put = "ACTIVE" /\ job'[p].pc = "touch"
      BY <1>1, <1>5 DEF CountActive, Job, IInv, TypeOK
    <2>2. Undisturbed(p)'
      BY <2>1, NullNoStatus DEF Undisturbed
    <2> QED
      BY <1>1, <2>2, RowsKept, WorkSerial
  <1>6. CASE ~(StillActive(job[p].ref) = {} /\ job[p].seen = "UNDER_MAINTENANCE")
    <2>1. job'[p].put = Null /\ job'[p].pc \in {"move", "close"}
      BY <1>1, <1>2, <1>6 DEF CountActive, Job, IInv, TypeOK
    <2>2. asset = "UNDER_MAINTENANCE" => StillActive(w) # {}
      BY <1>1, <1>3, <1>6 DEF Undisturbed
    <2>3. Undisturbed(p)'
      BY <1>1, <1>3, <1>4, <2>1, <2>2, NullNoStatus DEF Undisturbed
    <2> QED
      BY <1>1, <2>3, RowsKept, WorkSerial
  <1> QED
    BY <1>5, <1>6

LEMMA OnwardSerial ==
  ASSUME IInv, SerialInv, NEW p \in Procs, AloneAtWork(p)', TouchAsset(p) \/ OnWorkOrderClosed(p)
  PROVE  SerialInv'
  <1>1. UNCHANGED rowVars /\ asset' = asset /\ job[p] \in Job /\ job[p].ref \in WorkOrders
        /\ Undisturbed(p) /\ job[p].pc \in {"touch", "move"}
    BY DEF TouchAsset, Goes, OnWorkOrderClosed, rowVars, registerVars, IInv, TypeOK, SerialInv, JobOK,
       InTransaction
  <1>2. AfterAsset(p) \in {"move", "close"}
    BY AfterAssetFacts
  <1>3. PICK w \in WorkOrders : w = job[p].ref /\ StillActive(w)' = StillActive(w)
    BY <1>1, RowsKept
  <1>4. job'[p].to = job[p].to /\ job'[p].ref = w /\ job'[p].put = job[p].put
        /\ job'[p].pc \in {"move", "close"}
    BY <1>1, <1>2, <1>3 DEF TouchAsset, Goes, OnWorkOrderClosed, Job, IInv, TypeOK
  <1>5. Undisturbed(p)'
    BY <1>1, <1>3, <1>4 DEF Undisturbed
  <1> QED
    BY <1>1, <1>5, RowsKept, WorkSerial

LEMMA InsertWorkOrderSerial ==
  ASSUME IInv, SerialInv, NEW p \in Procs, AloneAtWork(p)', NEW w \in WorkOrders,
         InsertWorkOrder(p, w)
  PROVE  SerialInv'
  <1>1. job'[p].put = Null /\ job'[p].pc = "idle"
    BY DEF InsertWorkOrder, End, Idle, IInv, TypeOK
  <1>2. UNCHANGED <<asset, custody>> /\ \A v \in WorkOrders : Active(v) => Active(v)'
    BY DEF InsertWorkOrder, registerVars, Active, IInv, TypeOK
  <1> QED
    BY <1>1, <1>2, AssetKept, NothingAtStake, WorkSerial

LEMMA CloseTransactionSerial ==
  ASSUME IInv, SerialInv, NEW p \in Procs, AloneAtWork(p)', CloseTransaction(p)
  PROVE  SerialInv'
  <1>1. PICK j \in Job : j = job[p] /\ j.pc = "close"
    BY DEF CloseTransaction, IInv, TypeOK
  <1>2. PICK w \in WorkOrders : w = j.ref /\ wo[w] # Null
    BY <1>1 DEF IInv, JobOK, InTransaction
  <1>3. /\ j.to \in ACTIVE_STATUSES \cup Closing
        /\ j.put # "DECOMMISSIONED"
        /\ j.put = "UNDER_MAINTENANCE" => j.to \notin Closing
        /\ j.put = Null /\ j.to \in Closing /\ asset = "UNDER_MAINTENANCE" => StillActive(w) # {}
    <2>1. JobOK(p) /\ Undisturbed(p)
      BY DEF IInv, SerialInv
    <2> QED
      BY <1>1, <1>2, <2>1 DEF JobOK, Undisturbed, InTransaction
  <1>4. wo' = [wo EXCEPT ![w].status = j.to] /\ custody' = custody
        /\ asset' = IF j.put = Null THEN asset ELSE j.put
    BY <1>1, <1>2 DEF CloseTransaction
  <1>5. wo \in [WorkOrders -> WorkOrder \cup {Null}] /\ wo[w] \in WorkOrder
    BY <1>2 DEF IInv, TypeOK
  <1>6. wo'[w] = [wo[w] EXCEPT !.status = j.to] /\ \A v \in WorkOrders \ {w} : wo'[v] = wo[v]
    BY <1>4, <1>5
  <1>7. wo'[w] \in WorkOrder /\ wo'[w].status = j.to
    BY <1>3, <1>5, <1>6 DEF WorkOrder
  <1>8. j.to \in ACTIVE_STATUSES => Active(w)'
    BY <1>7 DEF Active
  <1>9. \A v \in StillActive(w) : Active(v)'
    BY <1>6 DEF StillActive, Active
  <1>10. UnderMaintenanceHasWork'
    <2> SUFFICES ASSUME asset' = "UNDER_MAINTENANCE" PROVE \E v \in WorkOrders : Active(v)'
      BY DEF UnderMaintenanceHasWork
    <2>1. CASE j.to \in ACTIVE_STATUSES
      BY <1>8, <2>1
    <2>2. CASE j.to \notin ACTIVE_STATUSES
      <3>1. j.put = Null /\ asset = "UNDER_MAINTENANCE" /\ j.to \in Closing
        BY <1>3, <1>4, <2>2
      <3>2. PICK v \in StillActive(w) : TRUE
        BY <1>3, <3>1
      <3> QED
        BY <1>9, <3>2 DEF StillActive
    <2> QED
      BY <2>1, <2>2
  <1>11. DecommissionedIsHome'
    BY <1>3, <1>4 DEF DecommissionedIsHome, Out, SerialInv
  <1>12. job'[p].put = Null /\ job'[p].pc = "idle"
    BY DEF CloseTransaction, End, Idle, IInv, TypeOK
  <1> QED
    BY <1>10, <1>11, <1>12, NothingAtStake, WorkSerial

LEMMA InsertScheduleSerial ==
  ASSUME IInv, SerialInv, NEW p \in Procs, AloneAtWork(p)', NEW s \in Schedules, NEW first,
         NEW every, NEW basis, InsertSchedule(p, s, first, every, basis)
  PROVE  SerialInv'
  <1> DEFINE r == [Idle EXCEPT !.pc = "generate", !.ref = s]
  <1>1. job' = [job EXCEPT ![p] = r] /\ UNCHANGED <<asset, custody, wo>>
    BY DEF InsertSchedule, registerVars
  <1>2. r.put = Null /\ r.pc = "generate"
    BY DEF Idle
  <1> HIDE DEF r
  <1> QED
    BY <1>1, <1>2, QuietSerial

LEMMA FindDueSerial ==
  ASSUME IInv, SerialInv, NEW p \in Procs, AloneAtWork(p)', FindDue(p)
  PROVE  SerialInv'
  <1>1. UNCHANGED rowVars /\ job[p] \in Job /\ Undisturbed(p) /\ UNCHANGED sched
    BY DEF FindDue, rowVars, IInv, TypeOK, SerialInv
  <1>2. /\ job'[p].pc = "open" /\ job'[p].put = job[p].put /\ job'[p].to = job[p].to
        /\ \A d \in job'[p].due : d[2] = sched[d[1]].next
    BY <1>1 DEF FindDue, IInv, TypeOK, Job
  <1>3. Undisturbed(p)'
    BY <1>1, <1>2 DEF Undisturbed
  <1> QED
    BY <1>1, <1>3, RowsKept, WorkSerial

LEMMA OpenDueSerial ==
  ASSUME IInv, SerialInv, NEW p \in Procs, AloneAtWork(p)', NEW w \in WorkOrders, OpenDue(p, w)
  PROVE  SerialInv'
  <1>1. UNCHANGED <<asset, custody, sched>> /\ job[p] \in Job /\ Undisturbed(p)
        /\ job[p].pc = "open"
    BY DEF OpenDue, registerVars, IInv, TypeOK, SerialInv
  <1>2. PICK d \in job[p].due :
          /\ job' = [job EXCEPT ![p] = IF Exists(d[1]) THEN [@ EXCEPT !.due = job[p].due \ {d}] ELSE Idle]
          /\ wo' = IF Exists(d[1]) /\ ~Refused(w, d[1], "OPEN")
                   THEN [wo EXCEPT ![w] = [status |-> "OPEN", schedule |-> d[1], due |-> d[2]]]
                   ELSE wo
    BY DEF OpenDue
  <1>3. \A v \in WorkOrders : Active(v) => Active(v)'
    BY <1>2 DEF OpenDue, Active, IInv, TypeOK
  <1>4. Undisturbed(p)'
    <2>1. CASE Exists(d[1])
      <3>1. /\ job'[p].pc = "open" /\ job'[p].put = job[p].put /\ job'[p].to = job[p].to
            /\ job'[p].due \subseteq job[p].due
        BY <1>1, <1>2, <2>1 DEF IInv, TypeOK, Job
      <3> QED
        BY <1>1, <3>1 DEF Undisturbed
    <2>2. CASE ~Exists(d[1])
      <3>1. job'[p].put = Null /\ job'[p].pc = "idle"
        BY <1>2, <2>2 DEF Idle, IInv, TypeOK
      <3> QED
        BY <3>1, NothingAtStake
    <2> QED
      BY <2>1, <2>2
  <1> QED
    BY <1>1, <1>3, <1>4, AssetKept, WorkSerial

LEMMA EndRunSerial ==
  ASSUME IInv, SerialInv, NEW p \in Procs, AloneAtWork(p)', EndRun(p)
  PROVE  SerialInv'
  <1>1. job' = [job EXCEPT ![p] = Idle] /\ UNCHANGED <<asset, custody, wo>>
    BY DEF EndRun, End, registerVars
  <1>2. Idle.put = Null /\ Idle.pc = "idle"
    BY DEF Idle
  <1> QED
    BY <1>1, <1>2, QuietSerial

LEMMA ServeSerial ==
  ASSUME IInv, SerialInv, NEW p \in Procs, AloneAtWork(p)', Serve(p)
  PROVE  SerialInv'
  BY InsertWorkOrderSerial, WriteWorkOrderSerial, SyncAssetStatusSerial, CountActiveSerial,
     OnwardSerial, CloseTransactionSerial, InsertScheduleSerial, FindDueSerial, OpenDueSerial,
     EndRunSerial DEF Serve

-----------------------------------------------------------------------------
(***************************************************************************)
(* The steps at the desk, and those of nobody's request.                   *)
(***************************************************************************)
LEMMA AtTheDeskSerial ==
  ASSUME IInv, SerialInv, NEW c \in Clerks, AloneAtDesk(c)', AtTheDesk(c)
  PROVE  SerialInv'
  <1>1. /\ desk \in [Clerks -> Errand] /\ custody \in [Assignments -> {"none", "out", "returned"}]
        /\ Attended(c) /\ UnderMaintenanceHasWork /\ DecommissionedIsHome
        /\ UNCHANGED <<today, wo, sched, job>>
    BY DEF AtTheDesk, IInv, TypeOK, RegisterTypeOK, SerialInv
  <1>2. \A w \in WorkOrders : Active(w)' <=> Active(w)
    BY <1>1 DEF Active
  <1>3. ASSUME UNCHANGED <<asset, custody>> PROVE UnderMaintenanceHasWork' /\ DecommissionedIsHome'
    BY <1>2, <1>3, AssetKept
  <1>4. ASSUME Done(c) PROVE Attended(c)'
    BY <1>1, <1>4 DEF Done, Free, Attended
  <1>5. ASSUME NEW s \in MANUAL_STATUSES, SetStatus(c, s) PROVE SerialInv'
    <2>1. desk'[c].pc = "status" /\ desk'[c].status = s /\ UNCHANGED <<asset, custody>>
      BY <1>1, <1>5 DEF SetStatus, Take, Free
    <2>2. Attended(c)'
      BY <1>5, <2>1 DEF SetStatus, Attended, Out
    <2> QED
      BY <1>3, <2>1, <2>2, DeskSerial
  <1>6. CASE WriteStatus(c)
    <2>1. asset' \in MANUAL_STATUSES /\ UNCHANGED custody /\ Done(c)
          /\ (asset' = "DECOMMISSIONED" => Out = {})
      BY <1>1, <1>6 DEF WriteStatus, Attended
    <2>2. UnderMaintenanceHasWork' /\ DecommissionedIsHome'
      BY <2>1 DEF UnderMaintenanceHasWork, DecommissionedIsHome, Out, MANUAL_STATUSES
    <2> QED
      BY <1>4, <2>1, <2>2, DeskSerial
  <1>7. CASE CheckOut(c)
    <2>1. desk'[c].pc = "out" /\ asset = "ACTIVE" /\ UNCHANGED <<asset, custody>>
      BY <1>1, <1>7 DEF CheckOut, Take, Free
    <2>2. Attended(c)'
      BY <2>1 DEF Attended
    <2> QED
      BY <1>3, <2>1, <2>2, DeskSerial
  <1>8. ASSUME NEW a \in Assignments, HandOut(c, a) PROVE SerialInv'
    <2>1. asset = "ACTIVE" /\ UNCHANGED asset /\ Done(c)
      BY <1>1, <1>8 DEF HandOut, Attended
    <2>2. UnderMaintenanceHasWork' /\ DecommissionedIsHome'
      BY <2>1 DEF UnderMaintenanceHasWork, DecommissionedIsHome
    <2> QED
      BY <1>4, <2>1, <2>2, DeskSerial
  <1>9. ASSUME NEW a \in Assignments, CheckIn(c, a) PROVE SerialInv'
    <2>1. desk'[c].pc = "in" /\ UNCHANGED <<asset, custody>>
      BY <1>1, <1>9 DEF CheckIn, Take, Free
    <2>2. Attended(c)'
      BY <2>1 DEF Attended
    <2> QED
      BY <1>3, <2>1, <2>2, DeskSerial
  <1>10. CASE TakeIn(c)
    <2>1. UNCHANGED asset /\ Done(c) /\ Out' \subseteq Out
      BY <1>1, <1>10 DEF TakeIn, Out
    <2>2. UnderMaintenanceHasWork'
      BY <1>1, <1>2, <2>1 DEF UnderMaintenanceHasWork
    <2>3. DecommissionedIsHome'
      BY <1>1, <2>1 DEF DecommissionedIsHome
    <2> QED
      BY <1>4, <2>1, <2>2, <2>3, DeskSerial
  <1>11. CASE Drop(c)
    BY <1>3, <1>4, <1>11, DeskSerial DEF Drop
  <1> QED
    BY <1>5, <1>6, <1>7, <1>8, <1>9, <1>10, <1>11 DEF AtTheDesk

\* What is in flight is not disturbed while the work orders stay as active as
\* they are and the schedules due when they are, unless the asset goes into
\* maintenance or out of service.
LEMMA OthersSerial ==
  ASSUME IInv, SerialInv, UNCHANGED <<job, desk, custody>>, asset' \in {asset, "ACTIVE"},
         \A w \in WorkOrders : Active(w)' <=> Active(w),
         \A s \in Schedules : sched'[s].next = sched[s].next
  PROVE  SerialInv'
  <1>1. UnderMaintenanceHasWork'
    BY DEF SerialInv, UnderMaintenanceHasWork
  <1>2. DecommissionedIsHome'
    BY DEF SerialInv, DecommissionedIsHome, Out
  <1>3. ASSUME NEW c \in Clerks PROVE Attended(c)'
    <2>1. Attended(c) /\ Out' = Out
      BY DEF SerialInv, Out
    <2> QED
      BY <2>1 DEF Attended
  <1>4. ASSUME NEW p \in Procs PROVE Undisturbed(p)'
    <2>1. PICK j \in Job : j = job[p] /\ Undisturbed(p)
      BY DEF IInv, TypeOK, SerialInv
    <2>2. PICK x : x = j.ref
      OBVIOUS
    <2>3. StillActive(x)' = StillActive(x)
      BY DEF StillActive
    <2>4. \A d \in j.due : sched'[d[1]].next = sched[d[1]].next
      BY DEF Job
    <2>5. job'[p] = j /\ asset' \in {asset, "ACTIVE"}
      BY <2>1
    <2> QED
      BY <2>1, <2>2, <2>3, <2>4, <2>5 DEF Undisturbed
  <1> QED
    BY <1>1, <1>2, <1>3, <1>4 DEF SerialInv

LEMMA RemoveScheduleSerial ==
  ASSUME IInv, SerialInv, NEW s \in Schedules, RemoveSchedule(s)
  PROVE  SerialInv'
  <1>1. /\ sched \in [Schedules -> Schedule \cup {Null}] /\ sched[s] \in Schedule
        /\ wo \in [WorkOrders -> WorkOrder \cup {Null}]
    BY DEF RemoveSchedule, Exists, IInv, TypeOK
  <1>2. \A t \in Schedules : sched'[t].next = sched[t].next
    BY <1>1 DEF RemoveSchedule, Schedule
  <1>3. ASSUME NEW w \in WorkOrders PROVE Active(w)' <=> Active(w)
    <2>1. CASE wo[w] # Null /\ wo[w].schedule = s
      <3>1. wo[w] \in WorkOrder /\ wo'[w] = [wo[w] EXCEPT !.schedule = Null]
        BY <1>1, <2>1 DEF RemoveSchedule
      <3>2. wo'[w] \in WorkOrder /\ wo'[w].status = wo[w].status
        BY <3>1 DEF WorkOrder
      <3> QED
        BY <2>1, <3>2 DEF Active
    <2>2. CASE ~(wo[w] # Null /\ wo[w].schedule = s)
      BY <2>2 DEF RemoveSchedule, Active
    <2> QED
      BY <2>1, <2>2
  <1>4. UNCHANGED <<asset, custody, desk, job>>
    BY DEF RemoveSchedule, registerVars
  <1> QED
    BY <1>2, <1>3, <1>4, OthersSerial

\* Where one request at most is in flight before and after a step, the one that
\* takes the step is alone.
LEMMA WorksAlone ==
  ASSUME NEW p \in Procs, OneInFlight, OneInFlight', UNCHANGED desk,
         \A q \in Procs \ {p} : job'[q] = job[q],
         job[p] # Idle \/ job'[p] # Idle
  PROVE  AloneAtWork(p)'
  <1>1. \A q \in Procs \ {p} : job'[q] = Idle
    <2>1. ASSUME NEW q \in Procs \ {p}, job[q] # Idle PROVE FALSE
      <3>1. <<"maintenance", q>> \in InFlight /\ <<"maintenance", q>> \in InFlight'
        BY <2>1 DEF InFlight
      <3>2. <<"maintenance", p>> \in InFlight \/ <<"maintenance", p>> \in InFlight'
        BY DEF InFlight
      <3> QED
        BY <3>1, <3>2 DEF OneInFlight
    <2> QED
      BY <2>1
  <1>2. \A c \in Clerks : desk'[c] = Free
    <2>1. ASSUME NEW c \in Clerks, desk[c] # Free PROVE FALSE
      <3>1. <<"register", c>> \in InFlight /\ <<"register", c>> \in InFlight'
        BY <2>1 DEF InFlight
      <3>2. <<"maintenance", p>> \in InFlight \/ <<"maintenance", p>> \in InFlight'
        BY DEF InFlight
      <3> QED
        BY <3>1, <3>2 DEF OneInFlight
    <2> QED
      BY <2>1
  <1> QED
    BY <1>1, <1>2 DEF AloneAtWork

LEMMA DesksAlone ==
  ASSUME NEW c \in Clerks, OneInFlight, OneInFlight', UNCHANGED job,
         \A d \in Clerks \ {c} : desk'[d] = desk[d],
         desk[c] # Free \/ desk'[c] # Free
  PROVE  AloneAtDesk(c)'
  <1>1. \A d \in Clerks \ {c} : desk'[d] = Free
    <2>1. ASSUME NEW d \in Clerks \ {c}, desk[d] # Free PROVE FALSE
      <3>1. <<"register", d>> \in InFlight /\ <<"register", d>> \in InFlight'
        BY <2>1 DEF InFlight
      <3>2. <<"register", c>> \in InFlight \/ <<"register", c>> \in InFlight'
        BY DEF InFlight
      <3> QED
        BY <3>1, <3>2 DEF OneInFlight
    <2> QED
      BY <2>1
  <1>2. \A q \in Procs : job'[q] = Idle
    <2>1. ASSUME NEW q \in Procs, job[q] # Idle PROVE FALSE
      <3>1. <<"maintenance", q>> \in InFlight /\ <<"maintenance", q>> \in InFlight'
        BY <2>1 DEF InFlight
      <3>2. <<"register", c>> \in InFlight \/ <<"register", c>> \in InFlight'
        BY DEF InFlight
      <3> QED
        BY <3>1, <3>2 DEF OneInFlight
    <2> QED
      BY <2>1
  <1> QED
    BY <1>1, <1>2 DEF AloneAtDesk

\* What a step of a request does not touch.
LEMMA AskFrame ==
  ASSUME IInv, NEW p \in Procs, Ask(p) \/ Generate(p)
  PROVE  UNCHANGED desk /\ (\A q \in Procs \ {p} : job'[q] = job[q]) /\ job'[p] # Idle
  <1>1. CASE OpenWorkOrder(p) \/ AddSchedule(p) \/ Generate(p)
    BY <1>1 DEF OpenWorkOrder, AddSchedule, Generate, Begin, registerVars, Idle, IInv, TypeOK
  <1>2. ASSUME NEW w \in WorkOrders, NEW to, MoveWorkOrder(p, w, to)
        PROVE  UNCHANGED desk /\ (\A q \in Procs \ {p} : job'[q] = job[q]) /\ job'[p] # Idle
    BY <1>2 DEF MoveWorkOrder, Begin, registerVars, Idle, IInv, TypeOK
  <1>3. ASSUME NEW s \in Schedules, NEW next, NEW state, EditSchedule(p, s, next, state)
        PROVE  UNCHANGED desk /\ (\A q \in Procs \ {p} : job'[q] = job[q]) /\ job'[p] # Idle
    BY <1>3 DEF EditSchedule, registerVars, Idle, IInv, TypeOK
  <1> QED
    BY <1>1, <1>2, <1>3 DEF Ask

LEMMA ServeFrame ==
  ASSUME IInv, NEW p \in Procs, Serve(p) \/ Rollback(p)
  PROVE  UNCHANGED desk /\ (\A q \in Procs \ {p} : job'[q] = job[q]) /\ job[p] # Idle
  <1> DEFINE Framed == UNCHANGED desk /\ (\A q \in Procs \ {p} : job'[q] = job[q]) /\ job[p] # Idle
  <1>1. job \in [Procs -> Job] /\ Idle.pc = "idle"
    BY IdleFacts DEF IInv, TypeOK
  <1>2. CASE \/ WriteWorkOrder(p) \/ SyncAssetStatus(p) \/ CountActive(p) \/ TouchAsset(p)
             \/ OnWorkOrderClosed(p) \/ CloseTransaction(p) \/ FindDue(p) \/ EndRun(p) \/ Rollback(p)
    BY <1>1, <1>2 DEF WriteWorkOrder, SyncAssetStatus, CountActive, TouchAsset, Goes,
       OnWorkOrderClosed, CloseTransaction, FindDue, EndRun, Rollback, End, registerVars
  <1>3. ASSUME NEW w \in WorkOrders, InsertWorkOrder(p, w) PROVE Framed
    BY <1>1, <1>3 DEF InsertWorkOrder, End, registerVars
  <1>4. ASSUME NEW w \in WorkOrders, OpenDue(p, w) PROVE Framed
    BY <1>1, <1>4 DEF OpenDue, registerVars
  <1>5. ASSUME NEW s \in Schedules, NEW first, NEW every, NEW basis,
               InsertSchedule(p, s, first, every, basis)
        PROVE  Framed
    BY <1>1, <1>5 DEF InsertSchedule, registerVars
  <1> HIDE DEF Framed
  <1>6. CASE Serve(p)
    <2>1. CASE \E w \in WorkOrders : InsertWorkOrder(p, w) \/ OpenDue(p, w)
      BY <1>3, <1>4, <2>1 DEF Framed
    <2>2. CASE \E s \in Schedules, first \in Days, every \in Intervals, basis \in {"FIXED", "FLOATING"} :
                 InsertSchedule(p, s, first, every, basis)
      BY <1>5, <2>2 DEF Framed
    <2> QED
      BY <1>2, <1>6, <2>1, <2>2 DEF Serve, Framed
  <1> QED
    BY <1>2, <1>6 DEF Framed

LEMMA DeskFrame ==
  ASSUME IInv, NEW c \in Clerks, AtTheDesk(c)
  PROVE  /\ UNCHANGED job /\ \A d \in Clerks \ {c} : desk'[d] = desk[d]
         /\ desk[c] # Free \/ desk'[c] # Free
  <1>1. desk \in [Clerks -> Errand] /\ Free.pc = "free"
    BY DEF IInv, TypeOK, RegisterTypeOK, Free
  <1>2. ASSUME NEW r, Take(c, r), r.pc # "free"
        PROVE  (\A d \in Clerks \ {c} : desk'[d] = desk[d]) /\ desk'[c] # Free
    BY <1>1, <1>2 DEF Take
  <1>3. ASSUME Done(c) PROVE \A d \in Clerks \ {c} : desk'[d] = desk[d]
    BY <1>1, <1>3 DEF Done
  <1>4. ASSUME NEW s \in MANUAL_STATUSES, SetStatus(c, s)
        PROVE  (\A d \in Clerks \ {c} : desk'[d] = desk[d]) /\ desk'[c] # Free
    <2> DEFINE r == [Free EXCEPT !.pc = "status", !.status = s]
    <2>1. Take(c, r) /\ r.pc # "free"
      BY <1>4 DEF SetStatus, Free
    <2> HIDE DEF r
    <2> QED
      BY <1>2, <2>1
  <1>5. ASSUME CheckOut(c)
        PROVE  (\A d \in Clerks \ {c} : desk'[d] = desk[d]) /\ desk'[c] # Free
    <2> DEFINE r == [Free EXCEPT !.pc = "out"]
    <2>1. Take(c, r) /\ r.pc # "free"
      BY <1>5 DEF CheckOut, Free
    <2> HIDE DEF r
    <2> QED
      BY <1>2, <2>1
  <1>6. ASSUME NEW a \in Assignments, CheckIn(c, a)
        PROVE  (\A d \in Clerks \ {c} : desk'[d] = desk[d]) /\ desk'[c] # Free
    <2> DEFINE r == [Free EXCEPT !.pc = "in", !.ref = a]
    <2>1. Take(c, r) /\ r.pc # "free"
      BY <1>6 DEF CheckIn, Free
    <2> HIDE DEF r
    <2> QED
      BY <1>2, <2>1
  <1>7. ASSUME WriteStatus(c) \/ TakeIn(c) \/ Drop(c) \/ \E a \in Assignments : HandOut(c, a)
        PROVE  (\A d \in Clerks \ {c} : desk'[d] = desk[d]) /\ desk[c] # Free
    BY <1>1, <1>3, <1>7 DEF WriteStatus, TakeIn, Drop, HandOut
  <1>8. UNCHANGED job
    BY DEF AtTheDesk
  <1> QED
    BY <1>4, <1>5, <1>6, <1>7, <1>8 DEF AtTheDesk

LEMMA NextSerial ==
  ASSUME IInv, SerialInv, OneInFlight, OneInFlight', [Next]_vars
  PROVE  SerialInv'
  <1>1. CASE UNCHANGED vars
    BY <1>1, OthersSerial DEF vars, registerVars, Active
  <1>2. CASE Register /\ UNCHANGED <<today, wo, sched, job>>
    BY <1>2, OthersSerial DEF Register, Active
  <1>3. CASE Midnight
    BY <1>3, OthersSerial DEF Midnight, registerVars, Active
  <1>4. ASSUME NEW s \in Schedules, RemoveSchedule(s) PROVE SerialInv'
    BY <1>4, RemoveScheduleSerial
  <1>5. ASSUME NEW c \in Clerks, AtTheDesk(c) PROVE SerialInv'
    <2>1. AloneAtDesk(c)'
      BY <1>5, DeskFrame, DesksAlone
    <2> QED
      BY <1>5, <2>1, AtTheDeskSerial
  <1>6. ASSUME NEW p \in Procs, Ask(p) \/ Generate(p) PROVE SerialInv'
    <2>1. AloneAtWork(p)'
      BY <1>6, AskFrame, WorksAlone
    <2> QED
      BY <1>6, <2>1, AskSerial
  <1>7. ASSUME NEW p \in Procs, Serve(p) \/ Rollback(p) PROVE SerialInv'
    <2>1. AloneAtWork(p)'
      BY <1>7, ServeFrame, WorksAlone
    <2> QED
      BY <1>7, <2>1, AskSerial, ServeSerial
  <1> QED
    BY <1>1, <1>2, <1>3, <1>4, <1>5, <1>6, <1>7 DEF Next, Procs

-----------------------------------------------------------------------------
(***************************************************************************)
(* The history: until two requests have overlapped.                        *)
(***************************************************************************)

LEMMA HistoryStep ==
  ASSUME HNext, ~overlapped'
  PROVE  Next /\ ~overlapped /\ OneInFlight'
  <1>1. Next /\ ~overlapped /\ ~(Cardinality(InFlight') > 1)
    BY DEF HNext
  <1>2. InFlight' \subseteq ({"maintenance"} \X Procs) \cup ({"register"} \X Clerks)
    BY DEF InFlight
  <1>3. IsFiniteSet(Procs)
    BY FS_AddElement DEF Procs
  <1>4. IsFiniteSet({"maintenance"} \X Procs) /\ IsFiniteSet({"register"} \X Clerks)
    BY <1>3, FS_Singleton, FS_Product
  <1>5. IsFiniteSet(InFlight')
    BY <1>2, <1>4, FS_Union, FS_Subset
  <1> QED
    BY <1>1, <1>5, NoTwo DEF OneInFlight

LEMMA HInitInv == HInit => IInv /\ AloneInv
  BY InitInv, InitSerial DEF HInit, AloneInv

LEMMA HNextInv == IInv /\ AloneInv /\ [HNext]_hvars => IInv' /\ AloneInv'
  <1> SUFFICES ASSUME IInv, AloneInv, [HNext]_hvars PROVE IInv' /\ AloneInv'
    OBVIOUS
  <1>1. [Next]_vars
    BY DEF HNext, hvars
  <1>2. IInv'
    BY <1>1, StepInv
  <1>3. ASSUME ~overlapped' PROVE OneInFlight' /\ SerialInv'
    <2>1. CASE UNCHANGED hvars
      <3>1. UNCHANGED <<job, desk>> /\ OneInFlight /\ SerialInv
        BY <1>3, <2>1 DEF hvars, vars, registerVars, AloneInv
      <3>2. OneInFlight'
        BY <3>1 DEF OneInFlight, InFlight
      <3> QED
        BY <1>1, <3>1, <3>2, NextSerial
    <2>2. CASE HNext
      <3>1. OneInFlight' /\ OneInFlight /\ SerialInv
        BY <1>3, <2>2, HistoryStep DEF AloneInv
      <3> QED
        BY <1>1, <3>1, NextSerial
    <2> QED
      BY <2>1, <2>2
  <1> QED
    BY <1>2, <1>3 DEF AloneInv

LEMMA HistoryInvariant == HSpec => [](IInv /\ AloneInv)
  BY HInitInv, HNextInv, PTL DEF HSpec

\* Until two requests have overlapped, an asset is under maintenance only while
\* some work order is active: the count that finds none takes it out again.
THEOREM AloneHasWork == HSpec => []AloneUnderMaintenanceHasWork
  <1>1. AloneInv => AloneUnderMaintenanceHasWork
    BY DEF AloneInv, SerialInv, AloneUnderMaintenanceHasWork
  <1> QED
    BY <1>1, HistoryInvariant, PTL

\* Until two requests have overlapped, what is out of service is in nobody's
\* hands: the check of update and the one of checkOut are enough for that.
THEOREM AloneIsHome == HSpec => []AloneDecommissionedIsHome
  <1>1. AloneInv => AloneDecommissionedIsHome
    BY DEF AloneInv, SerialInv, AloneDecommissionedIsHome
  <1> QED
    BY <1>1, HistoryInvariant, PTL

\* A step opens work orders for the date their schedule is due.
LEMMA DueDates ==
  ASSUME IInv, SerialInv, [Next]_vars
  PROVE  OpensForTheDueDate
  <1> SUFFICES ASSUME NEW w \in WorkOrders, NEW s \in Schedules,
                      wo[w] = Null, wo'[w] # Null, wo'[w].schedule = s
               PROVE  wo'[w].due = sched[s].next
    BY DEF OpensForTheDueDate
  <1>1. wo \in [WorkOrders -> WorkOrder \cup {Null}] /\ wo' # wo /\ s # Null
    BY DEF IInv, TypeOK
  <1>2. ASSUME NEW p \in Procs, NEW v \in WorkOrders, InsertWorkOrder(p, v) PROVE FALSE
    <2>1. wo' = [wo EXCEPT ![v] = [status |-> "OPEN", schedule |-> Null, due |-> Null]]
      BY <1>2 DEF InsertWorkOrder
    <2> QED
      BY <1>1, <2>1
  <1>3. ASSUME NEW p \in Procs, CloseTransaction(p) PROVE FALSE
    <2>1. PICK v \in WorkOrders : v = job[p].ref /\ wo[v] # Null
      BY <1>3 DEF CloseTransaction, IInv, JobOK, InTransaction
    <2>2. wo' = [wo EXCEPT ![v].status = job[p].to]
      BY <1>3, <2>1 DEF CloseTransaction
    <2> QED
      BY <1>1, <2>1, <2>2
  <1>4. ASSUME NEW t \in Schedules, RemoveSchedule(t) PROVE FALSE
    BY <1>4 DEF RemoveSchedule
  <1>5. ASSUME NEW p \in Procs, NEW v \in WorkOrders, OpenDue(p, v)
        PROVE  wo'[w].due = sched[s].next
    <2>1. PICK d \in job[p].due :
            wo' = IF Exists(d[1]) /\ ~Refused(v, d[1], "OPEN")
                  THEN [wo EXCEPT ![v] = [status |-> "OPEN", schedule |-> d[1], due |-> d[2]]]
                  ELSE wo
      BY <1>5 DEF OpenDue
    <2>2. wo' = [wo EXCEPT ![v] = [status |-> "OPEN", schedule |-> d[1], due |-> d[2]]]
      BY <1>1, <2>1
    <2>3. d[2] = sched[d[1]].next
      BY <1>5 DEF OpenDue, SerialInv, Undisturbed
    <2>4. w = v /\ wo'[w].schedule = d[1] /\ wo'[w].due = d[2]
      BY <1>1, <2>2
    <2> QED
      BY <2>3, <2>4
  <1>6. ASSUME wo' = wo PROVE FALSE
    BY <1>1, <1>6
  <1>7. CASE UNCHANGED vars
    BY <1>6, <1>7 DEF vars
  <1>8. CASE \/ Register /\ UNCHANGED <<today, wo, sched, job>>
             \/ \E c \in Clerks : AtTheDesk(c)
             \/ Midnight
    BY <1>6, <1>8 DEF AtTheDesk, Midnight
  <1>9. ASSUME NEW p \in Procs, Ask(p) \/ Generate(p) \/ Rollback(p) PROVE FALSE
    BY <1>6, <1>9 DEF Ask, OpenWorkOrder, AddSchedule, MoveWorkOrder, EditSchedule, Generate, Begin,
       Rollback
  <1>10. ASSUME NEW p \in Procs, Serve(p) PROVE wo'[w].due = sched[s].next
    <2>1. CASE \/ WriteWorkOrder(p) \/ SyncAssetStatus(p) \/ CountActive(p) \/ TouchAsset(p)
               \/ OnWorkOrderClosed(p) \/ FindDue(p) \/ EndRun(p)
               \/ \E t \in Schedules, first \in Days, every \in Intervals,
                      basis \in {"FIXED", "FLOATING"} : InsertSchedule(p, t, first, every, basis)
      BY <1>6, <2>1 DEF WriteWorkOrder, SyncAssetStatus, CountActive, TouchAsset, Goes,
         OnWorkOrderClosed, FindDue, EndRun, InsertSchedule
    <2> QED
      BY <1>2, <1>3, <1>5, <1>10, <2>1 DEF Serve
  <1> QED
    BY <1>4, <1>7, <1>8, <1>9, <1>10 DEF Next, Procs

\* Until two requests have overlapped, a work order is opened for the date its
\* schedule is due, not for one that somebody has dealt with since it was read.
THEOREM AloneOnTheDate == HSpec => AloneOpenedForTheDueDate
  <1>1. IInv /\ AloneInv /\ [HNext]_hvars => [~overlapped' => OpensForTheDueDate]_hvars
    <2> SUFFICES ASSUME IInv, AloneInv, HNext, ~overlapped' PROVE OpensForTheDueDate
      OBVIOUS
    <2>1. Next /\ SerialInv
      BY HistoryStep DEF AloneInv
    <2> QED
      BY <2>1, DueDates
  <1> QED
    BY <1>1, HistoryInvariant, PTL DEF HSpec, AloneOpenedForTheDueDate

=============================================================================
