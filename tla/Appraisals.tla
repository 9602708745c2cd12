------------------------------ MODULE Appraisals ------------------------------
(***************************************************************************)
(* An appraisal cycle, one appraisal in it and its reviewers (backend/src/ *)
(* modules/hr/appraisals.service.ts).  Requests interleave statement by    *)
(* statement: a transaction sees what others have committed and its own    *)
(* writes, and keeps the row of the reviewer it updates locked.            *)
(***************************************************************************)
EXTENDS Integers, FiniteSetsExt, Nulls

CONSTANTS
  Requests,   \* requests to AppraisalsService that may be in flight at once
  Reviewers,  \* the reviewers assigned to the appraisal
  Ratings     \* ratings they give

ASSUME AppraisalsAssumption ==
  /\ Reviewers # {} /\ IsFiniteSet(Reviewers)
  /\ Ratings \subseteq 1..5
  /\ Null \notin Reviewers \cup Ratings

VARIABLES
  cycle,      \* AppraisalCycle.status
  appraisal,  \* Appraisal.status and overallRating, in hundredths
  review,     \* AppraisalReviewer.rating of each reviewer, Null while PENDING
  form,       \* what each request has read and where it is
  formsCrossed     \* history: two requests have been in flight at once

appraisalsVars == <<cycle, appraisal, review, form, formsCrossed>>

CYCLE_TRANSITIONS == [DRAFT |-> {"ACTIVE", "CLOSED"}, ACTIVE |-> {"CLOSED"}, CLOSED |-> {}]

CycleStatuses     == DOMAIN CYCLE_TRANSITIONS
AppraisalStatuses == {"PENDING", "IN_PROGRESS", "COMPLETED"}

ASSUME StatusesAssumption == Null \notin CycleStatuses \cup AppraisalStatuses

NoAppraisal == [status |-> Null, overall |-> 0]
NoForm      == [pc |-> "idle", who |-> Null, rating |-> 0, last |-> FALSE, overall |-> 0, to |-> Null]
Form        == [pc : {"idle", "cycle", "create", "submit", "marked", "counted", "rated"},
                who : Reviewers \cup {Null}, rating : 0..5, last : BOOLEAN, overall : 0..500,
                to : CycleStatuses \cup {Null}]

AppraisalsTypeOK ==
  /\ cycle \in CycleStatuses \cup {Null}
  /\ appraisal \in [status : AppraisalStatuses \cup {Null}, overall : 0..500]
  /\ review \in [Reviewers -> Ratings \cup {Null}]
  /\ form \in [Requests -> Form]
  /\ formsCrossed \in BOOLEAN

AppraisalsInit ==
  /\ cycle = Null
  /\ appraisal = NoAppraisal
  /\ review = [r \in Reviewers |-> Null]
  /\ form = [q \in Requests |-> NoForm]
  /\ formsCrossed = FALSE

\* MUTANT of Average: the sum of all ratings over the number of the others.
Average_OverOthers(rating) ==
  (MapThenSumSet(LAMBDA r : rating[r], Reviewers) * 100) \div (Cardinality(Reviewers) - 1)

\* Decimal(3, 2) of the average of the ratings, a half rounded up.
Average(rating) ==
  (MapThenSumSet(LAMBDA r : rating[r], Reviewers) * 200 + Cardinality(Reviewers))
    \div (2 * Cardinality(Reviewers))

-----------------------------------------------------------------------------
Start(q, job) ==
  /\ form[q] = NoForm
  /\ form' = [form EXCEPT ![q] = job]
  /\ formsCrossed' = (formsCrossed \/ \E p \in Requests \ {q} : form[p] # NoForm)
  /\ UNCHANGED <<cycle, appraisal, review>>

Finish(q) == form' = [form EXCEPT ![q] = NoForm]

CreateCycle ==
  /\ cycle = Null
  /\ cycle' = "DRAFT"
  /\ UNCHANGED <<appraisal, review, form, formsCrossed>>

UpdateCycleStatus(q, to) ==
  /\ cycle # Null
  /\ to \in CYCLE_TRANSITIONS[cycle]
  /\ to = "CLOSED" => appraisal.status \in {Null, "COMPLETED"}
  /\ Start(q, [NoForm EXCEPT !.pc = "cycle", !.to = to])

WriteCycle(q) ==
  /\ form[q].pc = "cycle"
  /\ cycle' = form[q].to
  /\ Finish(q)
  /\ UNCHANGED <<appraisal, review, formsCrossed>>

CreateAppraisal(q) ==
  /\ cycle \notin {Null, "CLOSED"}
  /\ Start(q, [NoForm EXCEPT !.pc = "create"])

\* One appraisal per employee and cycle: a second insertion fails.
InsertAppraisal(q) ==
  /\ form[q].pc = "create"
  /\ appraisal' = IF appraisal = NoAppraisal THEN [status |-> "PENDING", overall |-> 0]
                  ELSE appraisal
  /\ Finish(q)
  /\ UNCHANGED <<cycle, review, formsCrossed>>

-----------------------------------------------------------------------------
\* submitReview: the reads before the transaction.
SubmitReview(q, r, rating) ==
  /\ appraisal # NoAppraisal
  /\ review[r] = Null
  /\ Start(q, [NoForm EXCEPT !.pc = "submit", !.who = r, !.rating = rating])

InTransaction(q) == form[q].pc \in {"marked", "counted", "rated"}

\* appraisalReviewer.update waits for whoever has updated the same row.
Mark(q) ==
  /\ form[q].pc = "submit"
  /\ \A p \in Requests : InTransaction(p) => form[p].who # form[q].who
  /\ form' = [form EXCEPT ![q].pc = "marked"]
  /\ UNCHANGED <<cycle, appraisal, review, formsCrossed>>

\* MUTANT of Count: the reviewer's own row is counted as it was before.
Count_WithOwn(q) ==
  /\ form[q].pc = "marked"
  /\ form' = [form EXCEPT ![q].pc = "counted",
                          ![q].last = \A r \in Reviewers : review[r] # Null]
  /\ UNCHANGED <<cycle, appraisal, review, formsCrossed>>

Count(q) ==
  /\ form[q].pc = "marked"
  /\ form' = [form EXCEPT ![q].pc = "counted",
                          ![q].last = \A r \in Reviewers \ {form[q].who} : review[r] # Null]
  /\ UNCHANGED <<cycle, appraisal, review, formsCrossed>>

\* The ratings are read again for the average.
Rate(q) ==
  /\ form[q].pc = "counted" /\ form[q].last
  /\ form' = [form EXCEPT ![q].pc = "rated",
                ![q].overall = Average([review EXCEPT ![form[q].who] = form[q].rating])]
  /\ UNCHANGED <<cycle, appraisal, review, formsCrossed>>

\* The update of the appraisal and the commit.
Save(q) ==
  /\ review' = [review EXCEPT ![form[q].who] = form[q].rating]
  /\ Finish(q)
  /\ UNCHANGED <<cycle, formsCrossed>>

Postpone(q) ==
  /\ form[q].pc = "counted" /\ ~form[q].last
  /\ appraisal' = [appraisal EXCEPT !.status = "IN_PROGRESS"]
  /\ Save(q)

Complete(q) ==
  /\ form[q].pc = "rated"
  /\ appraisal' = [status |-> "COMPLETED", overall |-> form[q].overall]
  /\ Save(q)

\* A statement fails or the server dies; a transaction leaves nothing behind.
Drop(q) ==
  /\ form[q] # NoForm
  /\ Finish(q)
  /\ UNCHANGED <<cycle, appraisal, review, formsCrossed>>

AppraisalsNext ==
  \/ CreateCycle
  \/ \E q \in Requests :
       \/ \E to \in CycleStatuses : UpdateCycleStatus(q, to)
       \/ WriteCycle(q)
       \/ CreateAppraisal(q)
       \/ InsertAppraisal(q)
       \/ \E r \in Reviewers, rating \in Ratings : SubmitReview(q, r, rating)
       \/ Mark(q)
       \/ Count(q)
       \/ Rate(q)
       \/ Postpone(q)
       \/ Complete(q)
       \/ Drop(q)

AppraisalsSpec == AppraisalsInit /\ [][AppraisalsNext]_appraisalsVars

-----------------------------------------------------------------------------
(***************************************************************************)
(* Properties.                                                             *)
(***************************************************************************)

AllSubmitted == \A r \in Reviewers : review[r] # Null

\* "Only flip to COMPLETED once every rater on this appraisal has submitted"
\* (appraisals.service.ts:175), whatever overlaps.
CompletedWasReviewed == appraisal.status = "COMPLETED" => AllSubmitted

\* As long as requests do not overlap, the last review completes the appraisal
\* with the average of all of them, ...
LastReviewCompletes ==
  ~formsCrossed /\ AllSubmitted =>
    appraisal = [status |-> "COMPLETED", overall |-> Average(review)]

\* ... and a closed cycle leaves no review to be given.
ClosedMeansReviewed ==
  ~formsCrossed /\ cycle = "CLOSED" => appraisal.status \in {Null, "COMPLETED"}

AppraisalsFinish == CompletedWasReviewed /\ LastReviewCompletes /\ ClosedMeansReviewed

=============================================================================
