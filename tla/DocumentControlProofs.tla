------------------------- MODULE DocumentControlProofs -------------------------
(***************************************************************************)
(* Proofs about DocumentControl, for any number of reviewers, versions,    *)
(* files and requests in flight.                                           *)
(***************************************************************************)
EXTENDS DocumentControlHistory, SetProofs

USE DocumentAssumption

LEMMA IdleFacts == Idle \in Request /\ Idle.pc = "idle"
  BY DEF Idle, Request

LEMMA InitInv == Init => IInv
  BY IdleFacts DEF Init, IInv, TypeOK, Versions, NoApproval, ApprovalRow,
     VersionsContiguous, RequestOK

\* A step that only moves a request on.
LEMMA RequestStep ==
  ASSUME IInv, NEW p \in Procs, NEW r \in Request, req' = [req EXCEPT ![p] = r],
         UNCHANGED dbVars,
         r.pc # "idle" => r.version \in Versions,
         r.pc \in {"put", "version"} => r.version \in 2..(current + 1) /\ r.file \in File,
         r.pc \in {"clear", "create", "decide", "count", "close"} => r.version <= current,
         r.pc \in {"decide", "count", "close"} =>
           r.reviewer \in Reviewers /\ r.decision \in {"APPROVED", "REJECTED"}
  PROVE  IInv'
  <1>1. TypeOK'
    BY DEF IInv, TypeOK, dbVars
  <1>2. \A q \in Procs : RequestOK(q)'
    BY DEF IInv, TypeOK, RequestOK, dbVars
  <1> QED
    BY <1>1, <1>2 DEF IInv, VersionsContiguous, dbVars

\* A step that ends a request and changes rows, and takes no version away.
LEMMA EndStep ==
  ASSUME IInv, NEW p \in Procs, End(p),
         status' \in {"NONE", "DRAFT", "IN_REVIEW", "APPROVED", "REJECTED"},
         current' \in 0..MaxVersions, current <= current',
         version' \in [Versions -> File \cup {Null}], UNCHANGED object,
         approval' \in [Versions -> [Reviewers -> ApprovalRow]],
         status' = "NONE" <=> current' = 0, VersionsContiguous'
  PROVE  IInv'
  <1>1. TypeOK'
    BY IdleFacts DEF End, IInv, TypeOK
  <1>2. \A q \in Procs : RequestOK(q)'
    <2> SUFFICES ASSUME NEW q \in Procs PROVE RequestOK(q)'
      OBVIOUS
    <2>1. CASE q = p
      BY <2>1, IdleFacts DEF End, IInv, TypeOK, RequestOK
    <2>2. CASE q # p
      <3>1. req'[q] = req[q] /\ req[q] \in Request /\ RequestOK(q)
        BY <2>2 DEF End, IInv, TypeOK
      <3>2. current \in Int /\ current' \in Int /\ req[q].version \in Int
        BY <3>1 DEF IInv, TypeOK, Request
      <3> QED
        BY <3>1, <3>2 DEF RequestOK
    <2> QED
      BY <2>1, <2>2
  <1> QED
    BY <1>1, <1>2 DEF IInv

-----------------------------------------------------------------------------
(***************************************************************************)
(* Uploads.                                                                *)
(***************************************************************************)
LEMMA CreateInv ==
  ASSUME IInv, NEW f \in File, Create(f)
  PROVE  IInv'
  <1>1. /\ current = 0 /\ current' = 1 /\ 1 \in Versions
        /\ \A v \in Versions : version[v] = Null
    BY DEF Create, IInv, VersionsContiguous, Versions
  <1>2. f.name \in Names /\ f.content \in Contents
    BY DEF File
  <1>3. TypeOK'
    BY <1>1, <1>2 DEF Create, IInv, TypeOK, Versions
  <1>4. VersionsContiguous'
    BY <1>1 DEF Create, VersionsContiguous, Versions, IInv, TypeOK
  <1>5. \A q \in Procs : RequestOK(q)'
    BY <1>1 DEF Create, IInv, TypeOK, RequestOK, Request
  <1> QED
    BY <1>1, <1>3, <1>4, <1>5 DEF IInv, Create

LEMMA AddVersionInv ==
  ASSUME IInv, NEW p \in Procs, NEW f \in File, AddVersion(p, f)
  PROVE  IInv'
  <1> DEFINE r == [Idle EXCEPT !.pc = "put", !.version = current + 1, !.file = f]
  <1>1. current + 1 \in Versions /\ current + 1 \in Nat
        /\ current + 1 \in 2..(current + 1)
    BY DEF AddVersion, IInv, TypeOK, Versions
  <1>2. /\ r \in Request /\ r.pc = "put" /\ r.version = current + 1 /\ r.file = f
    BY <1>1 DEF Idle, Request
  <1>3. req' = [req EXCEPT ![p] = r] /\ UNCHANGED dbVars
    BY DEF AddVersion, Begin
  <1> HIDE DEF r
  <1>4. ~(r.pc \in {"decide", "count", "close"})
    BY <1>2
  <1> QED
    BY <1>1, <1>2, <1>3, <1>4, RequestStep

LEMMA PutObjectInv ==
  ASSUME IInv, NEW p \in Procs, PutObject(p)
  PROVE  IInv'
  <1> DEFINE r == [req[p] EXCEPT !.pc = "version"]
             v == req[p].version
             f == req[p].file
  <1>1. req[p] \in Request /\ v \in Versions /\ f \in File
        /\ v \in 2..(current + 1)
    BY DEF PutObject, IInv, TypeOK, RequestOK
  <1>2. f.name \in Names /\ f.content \in Contents
    BY <1>1 DEF File
  <1>3. /\ r \in Request /\ r.pc = "version" /\ r.version = v /\ r.file = f
        /\ req' = [req EXCEPT ![p] = r]
    BY <1>1 DEF Request, PutObject
  <1>4. object' \in [Versions \X Names -> Contents \cup {Null}]
    BY <1>1, <1>2 DEF PutObject, FileKey, IInv, TypeOK
  <1> HIDE DEF r
  <1>5. TypeOK'
    BY <1>3, <1>4 DEF PutObject, IInv, TypeOK
  <1>6. \A q \in Procs : RequestOK(q)'
    BY <1>1, <1>3 DEF PutObject, IInv, TypeOK, RequestOK
  <1> QED
    BY <1>5, <1>6 DEF PutObject, IInv, VersionsContiguous

\* The number a request has read is used once: if the version exists, its row is
\* refused; if not, it is the next one.
LEMMA NextVersion ==
  ASSUME IInv, NEW p \in Procs, req[p].pc = "version", version[req[p].version] = Null
  PROVE  req[p].version = current + 1 /\ req[p].version \in Versions /\ req[p].file \in File
  BY DEF IInv, TypeOK, RequestOK, VersionsContiguous, Versions

LEMMA CommitVersionInv ==
  ASSUME IInv, NEW p \in Procs, CommitVersion(p)
  PROVE  IInv'
  <1> DEFINE v == req[p].version
  <1>1. CASE version[v] # Null
    <2>1. UNCHANGED dbVars
      BY <1>1 DEF CommitVersion, dbVars
    <2> QED
      BY <2>1, RequestStep, IdleFacts DEF CommitVersion, End
  <1>2. CASE version[v] = Null
    <2>1. /\ v = current + 1 /\ v \in Versions /\ req[p].file \in File
          /\ req[p].file # Null
      BY <1>2, NextVersion DEF CommitVersion
    <2>2. /\ current' = v /\ status' = "DRAFT" /\ End(p) /\ UNCHANGED <<object, approval>>
          /\ version' = [version EXCEPT ![v] = req[p].file]
      BY <1>2 DEF CommitVersion
    <2>3. current \in Nat /\ v \in 1..MaxVersions
      BY <2>1 DEF IInv, TypeOK, Versions
    <2>4. VersionsContiguous'
      BY <2>1, <2>2, <2>3 DEF IInv, TypeOK, VersionsContiguous, Versions
    <2>5. version' \in [Versions -> File \cup {Null}]
      BY <2>1, <2>2 DEF IInv, TypeOK
    <2>6. approval' \in [Versions -> [Reviewers -> ApprovalRow]]
      BY <2>2 DEF IInv, TypeOK
    <2> QED
      BY <2>1, <2>2, <2>3, <2>4, <2>5, <2>6, EndStep
  <1> QED
    BY <1>1, <1>2

-----------------------------------------------------------------------------
(***************************************************************************)
(* Submissions.                                                            *)
(***************************************************************************)
LEMMA SubmitInv ==
  ASSUME IInv, NEW p \in Procs, NEW rs \in SUBSET Reviewers, Submit(p, rs)
  PROVE  IInv'
  <1> DEFINE r == [Idle EXCEPT !.pc = "clear", !.version = current, !.reviewers = rs]
  <1>1. current \in Versions /\ current \in Nat /\ current <= current
    BY DEF Submit, IInv, TypeOK, Versions
  <1>2. r \in Request /\ r.pc = "clear" /\ r.version = current
    BY <1>1 DEF Idle, Request
  <1>3. req' = [req EXCEPT ![p] = r] /\ UNCHANGED dbVars
    BY DEF Submit, Begin
  <1> HIDE DEF r
  <1>4. ~(r.pc \in {"decide", "count", "close"})
    BY <1>2
  <1> QED
    BY <1>1, <1>2, <1>3, <1>4, RequestStep

LEMMA ClearApprovalsInv ==
  ASSUME IInv, NEW p \in Procs, ClearApprovals(p)
  PROVE  IInv'
  <1> DEFINE r == [req[p] EXCEPT !.pc = "create", !.cleared = Present(req[p].version)]
  <1>1. req[p] \in Request /\ req[p].version \in Versions
    BY DEF ClearApprovals, IInv, TypeOK, RequestOK
  <1>2. Present(req[p].version) \in SUBSET Reviewers
    BY DEF Present
  <1>3. r \in Request /\ r.pc = "create" /\ r.version = req[p].version
    BY <1>1, <1>2 DEF Request
  <1>4. req' = [req EXCEPT ![p] = r] /\ UNCHANGED dbVars
    BY DEF ClearApprovals
  <1> HIDE DEF r
  <1>5. req[p].version <= current
    BY DEF ClearApprovals, IInv, RequestOK
  <1> QED
    BY <1>1, <1>3, <1>4, <1>5, RequestStep

\* The approvals a submission leaves, reviewer by reviewer.
LEMMA SubmitFacts ==
  ASSUME IInv, NEW p \in Procs, CommitSubmit(p), NEW v \in Versions, v = req[p].version,
         req[p].reviewers \cap (Present(v) \ req[p].cleared) = {}
  PROVE  /\ approval' \in [Versions -> [Reviewers -> ApprovalRow]]
         /\ status' = "IN_REVIEW"
         /\ \A r \in Reviewers :
              /\ r \in req[p].reviewers => approval'[v][r].status = "PENDING"
              /\ r \in req[p].cleared \ req[p].reviewers => approval'[v][r].status = "NONE"
              /\ r \notin req[p].cleared \cup req[p].reviewers => approval'[v][r] = approval[v][r]
  <1> DEFINE new == [r \in Reviewers |->
               CASE r \in req[p].reviewers -> [id |-> approval[v][r].id + 1, status |-> "PENDING"]
                 [] r \in req[p].cleared \ req[p].reviewers -> [approval[v][r] EXCEPT !.status = "NONE"]
                 [] OTHER -> approval[v][r]]
  <1>1. approval' = [approval EXCEPT ![v] = new] /\ status' = "IN_REVIEW"
    BY DEF CommitSubmit
  <1>2. \A r \in Reviewers : approval[v][r] \in ApprovalRow
    BY DEF IInv, TypeOK
  <1>3. \A r \in Reviewers : new[r] \in ApprovalRow
    BY <1>2 DEF ApprovalRow
  <1>4. /\ \A r \in req[p].reviewers : r \in Reviewers => new[r].status = "PENDING"
        /\ \A r \in req[p].cleared \ req[p].reviewers : r \in Reviewers => new[r].status = "NONE"
        /\ \A r \in Reviewers \ (req[p].cleared \cup req[p].reviewers) : new[r] = approval[v][r]
    BY <1>2 DEF ApprovalRow
  <1>5. new \in [Reviewers -> ApprovalRow]
    BY <1>3
  <1> HIDE DEF new
  <1>6. approval'[v] = new /\ approval' \in [Versions -> [Reviewers -> ApprovalRow]]
    BY <1>1, <1>5 DEF IInv, TypeOK
  <1> QED
    BY <1>1, <1>4, <1>6

LEMMA CommitSubmitInv ==
  ASSUME IInv, NEW p \in Procs, CommitSubmit(p)
  PROVE  IInv'
  <1>1. PICK v \in Versions : v = req[p].version
    BY DEF CommitSubmit, IInv, RequestOK
  <1>2. CASE req[p].reviewers \cap (Present(v) \ req[p].cleared) = {}
    <2>1. /\ approval' \in [Versions -> [Reviewers -> ApprovalRow]] /\ status' = "IN_REVIEW"
          /\ End(p) /\ UNCHANGED <<current, version, object>>
      BY <1>1, <1>2, SubmitFacts DEF CommitSubmit
    <2>2. current # 0
      BY <1>1 DEF IInv, TypeOK, CommitSubmit, RequestOK, Versions
    <2>3. current' \in 0..MaxVersions /\ version' \in [Versions -> File \cup {Null}]
      BY <2>1 DEF IInv, TypeOK
    <2>4. current <= current'
      BY <2>1, <2>3
    <2>5. VersionsContiguous'
      BY <2>1 DEF IInv, VersionsContiguous
    <2>6. status' # "NONE" /\ current' # 0
      BY <2>1, <2>2
    <2> QED
      BY <2>1, <2>3, <2>4, <2>5, <2>6, EndStep
  <1>3. CASE ~(req[p].reviewers \cap (Present(v) \ req[p].cleared) = {})
    <2>1. End(p) /\ UNCHANGED dbVars
      BY <1>1, <1>3 DEF CommitSubmit, dbVars
    <2> QED
      BY <2>1, RequestStep, IdleFacts DEF End
  <1> QED
    BY <1>2, <1>3

-----------------------------------------------------------------------------
(***************************************************************************)
(* Decisions.                                                              *)
(***************************************************************************)
LEMMA DecideInv ==
  ASSUME IInv, NEW p \in Procs, NEW q \in Reviewers, NEW d \in {"APPROVED", "REJECTED"},
         Decide(p, q, d)
  PROVE  IInv'
  <1> DEFINE r == [Idle EXCEPT !.pc = "decide", !.version = current, !.reviewer = q,
                               !.row = approval[current][q].id, !.decision = d]
  <1>1. current \in Versions /\ current \in Nat /\ current <= current
    BY DEF Decide, IInv, TypeOK, Versions
  <1>2. approval[current][q].id \in Nat
    BY <1>1 DEF IInv, TypeOK, ApprovalRow
  <1>3. /\ r \in Request /\ r.pc = "decide" /\ r.version = current /\ r.reviewer = q
        /\ r.decision = d
    BY <1>1, <1>2 DEF Idle, Request
  <1>4. req' = [req EXCEPT ![p] = r] /\ UNCHANGED dbVars
    BY DEF Decide, Begin
  <1> HIDE DEF r
  <1> QED
    BY <1>1, <1>3, <1>4, RequestStep

\* A request in the middle of a decision that goes on to another statement.
LEMMA DecisionStep ==
  ASSUME IInv, NEW p \in Procs, req[p].pc \in {"decide", "count", "close"},
         NEW pc \in {"count", "close"}, NEW b \in BOOLEAN,
         req' = [req EXCEPT ![p] = [req[p] EXCEPT !.pc = pc, !.remaining = b]], UNCHANGED dbVars
  PROVE  IInv'
  <1> DEFINE r == [req[p] EXCEPT !.pc = pc, !.remaining = b]
  <1>1. req[p] \in Request /\ RequestOK(p)
    BY DEF IInv, TypeOK
  <1>2. /\ r \in Request /\ r.pc = pc /\ r.version = req[p].version
        /\ r.reviewer = req[p].reviewer /\ r.decision = req[p].decision
        /\ req' = [req EXCEPT ![p] = r]
    BY <1>1 DEF Request
  <1> HIDE DEF r
  <1> QED
    BY <1>1, <1>2, RequestStep DEF RequestOK

LEMMA UpdateApprovalInv ==
  ASSUME IInv, NEW p \in Procs, UpdateApproval(p)
  PROVE  IInv'
  <1>1. CASE End(p)
    BY <1>1, RequestStep, IdleFacts DEF UpdateApproval, End
  <1>2. CASE ~End(p)
    <2>1. PICK pc \in {"count", "close"} : req' = [req EXCEPT ![p].pc = pc]
      BY <1>2 DEF UpdateApproval
    <2>2. req[p] \in Request /\ req[p].remaining \in BOOLEAN /\ UNCHANGED dbVars
          /\ req[p].pc \in {"decide", "count", "close"}
      BY DEF UpdateApproval, IInv, TypeOK, Request
    <2>3. [req[p] EXCEPT !.pc = pc] = [req[p] EXCEPT !.pc = pc, !.remaining = req[p].remaining]
      BY <2>2 DEF Request
    <2>4. req' = [req EXCEPT ![p] = [req[p] EXCEPT !.pc = pc, !.remaining = req[p].remaining]]
      BY <2>1, <2>3
    <2> QED
      BY <2>2, <2>4, DecisionStep
  <1> QED
    BY <1>1, <1>2

LEMMA CountRemainingInv ==
  ASSUME IInv, NEW p \in Procs, CountRemaining(p)
  PROVE  IInv'
  <1> DEFINE b == Pending(req[p].version) \ {req[p].reviewer} # {}
  <1>1. req' = [req EXCEPT ![p] = [req[p] EXCEPT !.pc = "close", !.remaining = b]]
        /\ UNCHANGED dbVars /\ req[p].pc \in {"decide", "count", "close"}
    BY DEF CountRemaining
  <1>2. b \in BOOLEAN
    OBVIOUS
  <1> HIDE DEF b
  <1> QED
    BY <1>1, <1>2, DecisionStep

\* The approvals a decision leaves.
LEMMA DecisionFacts ==
  ASSUME IInv, NEW p \in Procs, CommitDecision(p)
  PROVE  /\ req[p].version \in Versions /\ req[p].reviewer \in Reviewers
         /\ req[p].decision \in {"APPROVED", "REJECTED"}
         /\ current # 0
         /\ approval' \in [Versions -> [Reviewers -> ApprovalRow]]
         /\ approval'[req[p].version][req[p].reviewer].status = req[p].decision
         /\ \A r \in Reviewers \ {req[p].reviewer} :
              approval'[req[p].version][r] = approval[req[p].version][r]
  <1>1. PICK v \in Versions : v = req[p].version
    BY DEF CommitDecision, IInv, RequestOK
  <1>2. PICK q \in Reviewers : q = req[p].reviewer
    BY DEF CommitDecision, IInv, RequestOK
  <1>3. PICK d \in {"APPROVED", "REJECTED"} : d = req[p].decision
    BY DEF CommitDecision, IInv, RequestOK
  <1>4. approval[v] \in [Reviewers -> ApprovalRow] /\ approval[v][q] \in ApprovalRow
    BY DEF IInv, TypeOK
  <1> DEFINE row == [approval[v][q] EXCEPT !.status = d]
             new == [approval[v] EXCEPT ![q] = row]
  <1>5. row \in ApprovalRow /\ row.status = d
    BY <1>4 DEF ApprovalRow
  <1>6. approval' = [approval EXCEPT ![v] = new]
    BY <1>1, <1>2, <1>3 DEF CommitDecision
  <1> HIDE DEF row
  <1>7. new \in [Reviewers -> ApprovalRow] /\ new[q] = row
        /\ \A r \in Reviewers \ {q} : new[r] = approval[v][r]
    BY <1>4, <1>5
  <1> HIDE DEF new
  <1>8. approval' \in [Versions -> [Reviewers -> ApprovalRow]] /\ approval'[v] = new
    BY <1>6, <1>7 DEF IInv, TypeOK
  <1>9. current # 0
    BY <1>1 DEF IInv, TypeOK, CommitDecision, RequestOK, Versions
  <1> QED
    BY <1>1, <1>2, <1>3, <1>5, <1>7, <1>8, <1>9

LEMMA CommitDecisionInv ==
  ASSUME IInv, NEW p \in Procs, CommitDecision(p)
  PROVE  IInv'
  <1>1. status' \in {"REJECTED", "IN_REVIEW", "APPROVED"}
    BY DEF CommitDecision, Outcome
  <1>2. End(p) /\ UNCHANGED <<current, version, object>>
    BY DEF CommitDecision
  <1> QED
    BY <1>1, <1>2, DecisionFacts, EndStep DEF IInv, TypeOK, VersionsContiguous

LEMMA RollbackInv ==
  ASSUME IInv, NEW p \in Procs, Rollback(p)
  PROVE  IInv'
  BY RequestStep, IdleFacts DEF Rollback, End

-----------------------------------------------------------------------------
LEMMA NextInv == IInv /\ [Next]_vars => IInv'
  <1> SUFFICES ASSUME IInv, [Next]_vars PROVE IInv'
    OBVIOUS
  <1>1. CASE UNCHANGED vars
    BY <1>1 DEF vars, dbVars, IInv, TypeOK, VersionsContiguous, RequestOK
  <1>2. CASE Next
    BY <1>2, CreateInv, AddVersionInv, PutObjectInv, CommitVersionInv, SubmitInv,
       ClearApprovalsInv, CommitSubmitInv, DecideInv, UpdateApprovalInv, CountRemainingInv,
       CommitDecisionInv, RollbackInv DEF Next
  <1> QED
    BY <1>1, <1>2

\* The inductive invariant of the document: requests remember versions the
\* document has, and uploads at most the next one.
THEOREM DocumentInvariant == Spec => []IInv
  BY InitInv, NextInv, PTL DEF Spec

\* Rows, objects and requests keep their shape.
THEOREM TypeCorrect == Spec => []TypeOK
  <1>1. IInv => TypeOK
    BY DEF IInv
  <1> QED
    BY <1>1, DocumentInvariant, PTL

\* However many people upload at once, the versions of a document are numbered
\* without a gap and the document points to the newest.
THEOREM Contiguous == Spec => []VersionsContiguous
  <1>1. IInv => VersionsContiguous
    BY DEF IInv
  <1> QED
    BY <1>1, DocumentInvariant, PTL

-----------------------------------------------------------------------------
(***************************************************************************)
(* Requests that do not overlap.                                           *)
(***************************************************************************)

\* Nobody but p is served.
Alone(p) == \A q \in Procs \ {p} : req[q].pc = "idle"

\* What SerialInv says about the rows and objects.
RowsOK ==
  /\ ApprovedMeansAllSigned
  /\ ReviewCanBeDecided
  /\ status = "IN_REVIEW" => \A r \in Reviewers : approval[current][r].status # "REJECTED"
  /\ FileKept

LEMMA InitSerial == Init => SerialInv
  BY IdleFacts DEF Init, SerialInv, ApprovedMeansAllSigned, ReviewCanBeDecided, FileKept, Undisturbed

\* A step of the request keeps SerialInv if it keeps the rows in order and what
\* the request remembers stays true.
LEMMA SerialStep ==
  ASSUME NEW p \in Procs, Alone(p)', RowsOK', Undisturbed(p)'
  PROVE  SerialInv'
  BY DEF Alone, SerialInv, RowsOK, Undisturbed

\* Nothing but the request has changed.
LEMMA SameRows ==
  ASSUME SerialInv, UNCHANGED dbVars
  PROVE  RowsOK'
  BY DEF SerialInv, RowsOK, dbVars, ApprovedMeansAllSigned, ReviewCanBeDecided, FileKept,
     Present, Pending, FileKey

LEMMA EndSerial ==
  ASSUME IInv, NEW p \in Procs, End(p)
  PROVE  Undisturbed(p)'
  <1>1. req'[p] = Idle
    BY DEF End, IInv, TypeOK
  <1> QED
    BY <1>1, IdleFacts DEF Undisturbed

LEMMA CreateSerial ==
  ASSUME IInv, SerialInv, NEW f \in File, Create(f)
  PROVE  SerialInv'
  <1>1. /\ current = 0 /\ 1 \in Versions /\ \A v \in Versions : version[v] = Null
        /\ version'[1] = f /\ \A v \in Versions \ {1} : version'[v] = Null
    <2>1. current = 0 /\ 1 \in Versions
      BY DEF Create, IInv, Versions
    <2>2. \A v \in Versions : version[v] = Null
      BY <2>1 DEF IInv, VersionsContiguous, Versions
    <2> QED
      BY <2>1, <2>2 DEF Create, IInv, TypeOK
  <1>2. f.name \in Names
    BY DEF File
  <1>3. object'[<<1, f.name>>] = f.content
    BY <1>1, <1>2 DEF Create, IInv, TypeOK
  <1>4. FileKept'
    BY <1>1, <1>3 DEF FileKept, FileKey
  <1>5. RowsOK'
    BY <1>4 DEF RowsOK, Create, ApprovedMeansAllSigned, ReviewCanBeDecided
  <1>6. ASSUME NEW p \in Procs PROVE Undisturbed(p)'
    <2>1. req'[p] = req[p] /\ RequestOK(p)
      BY DEF Create, IInv
    <2>2. req[p].pc \notin {"clear", "create", "decide", "count", "close"}
      BY <1>1, <2>1 DEF RequestOK, Versions
    <2>3. req[p].pc \notin {"put", "version"}
      BY <1>1, <2>1 DEF RequestOK
    <2> QED
      BY <2>1, <2>2, <2>3 DEF Undisturbed
  <1> QED
    BY <1>5, <1>6 DEF SerialInv, RowsOK

LEMMA AddVersionSerial ==
  ASSUME IInv, SerialInv, NEW p \in Procs, Alone(p)', NEW f \in File, AddVersion(p, f)
  PROVE  SerialInv'
  <1>1. /\ UNCHANGED dbVars
        /\ req'[p] = [Idle EXCEPT !.pc = "put", !.version = current + 1, !.file = f]
    BY DEF AddVersion, Begin, IInv, TypeOK
  <1>2. Undisturbed(p)'
    BY <1>1 DEF Undisturbed, Idle, dbVars
  <1> QED
    BY <1>1, <1>2, SameRows, SerialStep

\* The upload goes to a key of its own, that of the next version.
LEMMA PutObjectSerial ==
  ASSUME IInv, SerialInv, NEW p \in Procs, Alone(p)', PutObject(p)
  PROVE  SerialInv'
  <1>1. PICK v \in Versions : v = req[p].version
    BY DEF PutObject, IInv, RequestOK
  <1>2. PICK f \in File : f = req[p].file
    BY DEF PutObject, IInv, RequestOK
  <1>3. v = current + 1 /\ current \in Int /\ req[p] \in Request
    BY <1>1 DEF PutObject, SerialInv, Undisturbed, IInv, TypeOK
  <1>4. f.name \in Names
    BY DEF File
  <1>5. /\ object' = [object EXCEPT ![<<v, f.name>>] = f.content]
        /\ UNCHANGED <<status, current, version, approval>>
        /\ req'[p] = [req[p] EXCEPT !.pc = "version"]
    BY <1>1, <1>2 DEF PutObject, FileKey, IInv, TypeOK
  <1>6. object'[<<v, f.name>>] = f.content
    BY <1>4, <1>5 DEF IInv, TypeOK
  <1>7. ASSUME NEW w \in Versions, version[w] # Null
        PROVE  object'[<<w, version[w].name>>] = version[w].content
    <2>1. w # v
      BY <1>3, <1>7 DEF IInv, VersionsContiguous, Versions
    <2>2. version[w] \in File /\ version[w].name \in Names
      BY <1>7 DEF IInv, TypeOK, File
    <2>3. object[<<w, version[w].name>>] = version[w].content
      BY <1>7 DEF SerialInv, FileKept, FileKey
    <2> QED
      BY <1>5, <2>1, <2>2, <2>3 DEF IInv, TypeOK
  <1>8. FileKept'
    BY <1>5, <1>7 DEF FileKept, FileKey
  <1>9. RowsOK'
    BY <1>5, <1>8 DEF RowsOK, SerialInv, ApprovedMeansAllSigned, ReviewCanBeDecided, Present, Pending
  <1>10. req'[p].pc = "version" /\ req'[p].version = v /\ req'[p].file = f
    BY <1>1, <1>2, <1>3, <1>5 DEF Request
  <1>11. Undisturbed(p)'
    BY <1>3, <1>5, <1>6, <1>10 DEF Undisturbed, FileKey
  <1> QED
    BY <1>9, <1>11, SerialStep

LEMMA CommitVersionSerial ==
  ASSUME IInv, SerialInv, NEW p \in Procs, Alone(p)', CommitVersion(p)
  PROVE  SerialInv'
  <1>1. Undisturbed(p)'
    BY EndSerial DEF CommitVersion
  <1>2. CASE version[req[p].version] # Null
    <2>1. UNCHANGED dbVars
      BY <1>2 DEF CommitVersion, dbVars
    <2> QED
      BY <1>1, <2>1, SameRows, SerialStep
  <1>3. CASE version[req[p].version] = Null
    <2>1. PICK v \in Versions : v = req[p].version
      BY DEF CommitVersion, IInv, RequestOK
    <2>2. PICK f \in File : f = req[p].file
      BY DEF CommitVersion, IInv, RequestOK
    <2>3. /\ version' = [version EXCEPT ![v] = f] /\ status' = "DRAFT"
          /\ UNCHANGED <<object, approval>>
      BY <1>3, <2>1, <2>2 DEF CommitVersion
    <2>4. object[<<v, f.name>>] = f.content
      BY <2>1, <2>2 DEF CommitVersion, SerialInv, Undisturbed, FileKey
    <2>5. \A w \in Versions : version'[w] = IF w = v THEN f ELSE version[w]
      BY <2>3 DEF IInv, TypeOK
    <2>6. FileKept'
      BY <2>3, <2>4, <2>5 DEF SerialInv, FileKept, FileKey
    <2>7. RowsOK'
      BY <2>3, <2>6 DEF RowsOK, ApprovedMeansAllSigned, ReviewCanBeDecided
    <2> QED
      BY <1>1, <2>7, SerialStep
  <1> QED
    BY <1>2, <1>3

LEMMA SubmitSerial ==
  ASSUME IInv, SerialInv, NEW p \in Procs, Alone(p)', NEW rs \in SUBSET Reviewers, Submit(p, rs)
  PROVE  SerialInv'
  <1>1. /\ UNCHANGED dbVars
        /\ req'[p] = [Idle EXCEPT !.pc = "clear", !.version = current, !.reviewers = rs]
        /\ rs # {}
    BY DEF Submit, Begin, IInv, TypeOK
  <1>2. Undisturbed(p)'
    BY <1>1 DEF Undisturbed, Idle, dbVars
  <1> QED
    BY <1>1, <1>2, SameRows, SerialStep

LEMMA ClearApprovalsSerial ==
  ASSUME IInv, SerialInv, NEW p \in Procs, Alone(p)', ClearApprovals(p)
  PROVE  SerialInv'
  <1>1. req[p] \in Request /\ req[p].version = current /\ req[p].reviewers # {}
    BY DEF ClearApprovals, IInv, TypeOK, SerialInv, Undisturbed
  <1>2. /\ UNCHANGED dbVars
        /\ req'[p] = [req[p] EXCEPT !.pc = "create", !.cleared = Present(current)]
    BY <1>1 DEF ClearApprovals, IInv, TypeOK
  <1>3. /\ req'[p].pc = "create" /\ req'[p].version = current
        /\ req'[p].reviewers # {} /\ req'[p].cleared = Present(current)
    BY <1>1, <1>2 DEF Request
  <1>4. Present(current)' = Present(current) /\ current' = current
    BY <1>2 DEF Present, dbVars
  <1>5. Undisturbed(p)'
    BY <1>3, <1>4 DEF Undisturbed
  <1> QED
    BY <1>2, <1>5, SameRows, SerialStep

\* What is left of the version's approvals is a pending one for each reviewer.
LEMMA CommitSubmitSerial ==
  ASSUME IInv, SerialInv, NEW p \in Procs, Alone(p)', CommitSubmit(p)
  PROVE  SerialInv'
  <1>1. PICK v \in Versions : v = req[p].version
    BY DEF CommitSubmit, IInv, RequestOK
  <1>2. v = current /\ req[p].cleared = Present(v) /\ req[p].reviewers # {}
    BY <1>1 DEF CommitSubmit, SerialInv, Undisturbed
  <1>3. req[p].reviewers \subseteq Reviewers
    BY DEF IInv, TypeOK, Request
  <1>4. req[p].reviewers \cap (Present(v) \ req[p].cleared) = {}
    BY <1>2
  <1>5. /\ status' = "IN_REVIEW" /\ UNCHANGED <<current, version, object>>
        /\ \A r \in Reviewers :
             /\ r \in req[p].reviewers => approval'[v][r].status = "PENDING"
             /\ r \in req[p].cleared \ req[p].reviewers => approval'[v][r].status = "NONE"
             /\ r \notin req[p].cleared \cup req[p].reviewers => approval'[v][r] = approval[v][r]
    BY <1>1, <1>4, SubmitFacts DEF CommitSubmit
  <1>6. \A r \in Reviewers : approval'[v][r].status \in {"PENDING", "NONE"}
    BY <1>2, <1>5 DEF Present
  <1>7. Pending(current)' # {}
    BY <1>2, <1>3, <1>5 DEF Pending
  <1>8. RowsOK'
    BY <1>2, <1>5, <1>6, <1>7 DEF RowsOK, SerialInv, ApprovedMeansAllSigned, ReviewCanBeDecided,
       FileKept, FileKey
  <1> QED
    BY <1>8, EndSerial, SerialStep DEF CommitSubmit

LEMMA DecideSerial ==
  ASSUME IInv, SerialInv, NEW p \in Procs, Alone(p)', NEW q \in Reviewers,
         NEW d \in {"APPROVED", "REJECTED"}, Decide(p, q, d)
  PROVE  SerialInv'
  <1>1. /\ UNCHANGED dbVars
        /\ req'[p] = [Idle EXCEPT !.pc = "decide", !.version = current, !.reviewer = q,
                                  !.row = approval[current][q].id, !.decision = d]
    BY DEF Decide, Begin, IInv, TypeOK
  <1>2. Undisturbed(p)'
    BY <1>1 DEF Undisturbed, Idle, dbVars, Decide, Pending
  <1> QED
    BY <1>1, <1>2, SameRows, SerialStep

LEMMA UpdateApprovalSerial ==
  ASSUME IInv, SerialInv, NEW p \in Procs, Alone(p)', UpdateApproval(p)
  PROVE  SerialInv'
  <1>1. UNCHANGED dbVars
    BY DEF UpdateApproval
  <1>2. CASE End(p)
    BY <1>1, <1>2, EndSerial, SameRows, SerialStep
  <1>3. CASE ~End(p)
    <2>1. PICK pc \in {"count", "close"} :
            /\ req' = [req EXCEPT ![p].pc = pc]
            /\ pc = IF req[p].decision = "REJECTED" THEN "close" ELSE "count"
      BY <1>3 DEF UpdateApproval
    <2>2. req[p] \in Request /\ RequestOK(p) /\ Undisturbed(p) /\ req[p].pc = "decide"
      BY DEF UpdateApproval, IInv, TypeOK, SerialInv
    <2>3. /\ req'[p].pc = pc /\ req'[p].version = req[p].version
          /\ req'[p].reviewer = req[p].reviewer /\ req'[p].decision = req[p].decision
      BY <2>1, <2>2 DEF IInv, TypeOK, Request
    <2>4. Pending(current)' = Pending(current) /\ UNCHANGED <<status, current>>
      BY <1>1 DEF Pending, dbVars
    <2>5. Undisturbed(p)'
      BY <2>1, <2>2, <2>3, <2>4 DEF Undisturbed, RequestOK
    <2> QED
      BY <1>1, <2>5, SameRows, SerialStep
  <1> QED
    BY <1>2, <1>3

LEMMA CountRemainingSerial ==
  ASSUME IInv, SerialInv, NEW p \in Procs, Alone(p)', CountRemaining(p)
  PROVE  SerialInv'
  <1> DEFINE b == Pending(req[p].version) \ {req[p].reviewer} # {}
  <1>1. UNCHANGED dbVars /\ req' = [req EXCEPT ![p] = [req[p] EXCEPT !.pc = "close", !.remaining = b]]
    BY DEF CountRemaining
  <1>2. req[p] \in Request /\ Undisturbed(p) /\ req[p].pc = "count"
    BY DEF CountRemaining, IInv, TypeOK, SerialInv
  <1>3. b <=> Pending(current) \ {req[p].reviewer} # {}
    BY <1>2 DEF Undisturbed
  <1> HIDE DEF b
  <1>4. /\ req'[p].pc = "close" /\ req'[p].version = req[p].version /\ req'[p].remaining = b
        /\ req'[p].reviewer = req[p].reviewer /\ req'[p].decision = req[p].decision
    BY <1>1, <1>2 DEF IInv, TypeOK, Request
  <1>5. Pending(current)' = Pending(current) /\ UNCHANGED <<status, current>>
    BY <1>1 DEF Pending, dbVars
  <1>6. Undisturbed(p)'
    BY <1>2, <1>3, <1>4, <1>5 DEF Undisturbed
  <1> QED
    BY <1>1, <1>6, SameRows, SerialStep

\* The last approval is the last signature that was missing.
LEMMA CommitDecisionSerial ==
  ASSUME IInv, SerialInv, NEW p \in Procs, Alone(p)', CommitDecision(p)
  PROVE  SerialInv'
  <1>1. PICK v \in Versions : v = req[p].version
    BY DecisionFacts
  <1>2. PICK q \in Reviewers : q = req[p].reviewer
    BY DecisionFacts
  <1>3. /\ v = current /\ status = "IN_REVIEW" /\ q \in Pending(v)
        /\ req[p].decision = "APPROVED" => (req[p].remaining <=> Pending(v) \ {q} # {})
    BY <1>1, <1>2 DEF CommitDecision, SerialInv, Undisturbed
  <1>4. /\ req[p].decision \in {"APPROVED", "REJECTED"}
        /\ approval'[v][q].status = req[p].decision
        /\ \A r \in Reviewers \ {q} : approval'[v][r] = approval[v][r]
    BY <1>1, <1>2, DecisionFacts
  <1>5. status' = Outcome(p) /\ UNCHANGED <<current, version, object>>
    BY DEF CommitDecision
  <1>6. FileKept'
    BY <1>5 DEF SerialInv, FileKept, FileKey
  <1>7. \A r \in Reviewers : approval[v][r].status \in {"NONE", "PENDING", "APPROVED"}
    BY <1>3 DEF SerialInv, IInv, TypeOK, ApprovalRow
  <1>8. CASE req[p].decision = "REJECTED"
    <2>1. status' = "REJECTED"
      BY <1>5, <1>8 DEF Outcome
    <2>2. RowsOK'
      BY <1>6, <2>1 DEF RowsOK, ApprovedMeansAllSigned, ReviewCanBeDecided
    <2>3. Undisturbed(p)'
      BY EndSerial DEF CommitDecision
    <2> QED
      BY <2>2, <2>3, SerialStep
  <1>9. CASE req[p].decision = "APPROVED" /\ Pending(v) \ {q} # {}
    <2>1. status' = "IN_REVIEW"
      BY <1>3, <1>5, <1>9 DEF Outcome
    <2>2. Pending(current)' # {}
      BY <1>3, <1>4, <1>5, <1>9 DEF Pending
    <2>3. \A r \in Reviewers : approval'[current'][r].status # "REJECTED"
      BY <1>3, <1>4, <1>5, <1>7, <1>9
    <2> QED
      BY <1>6, <2>1, <2>2, <2>3, EndSerial, SerialStep DEF CommitDecision, RowsOK,
         ApprovedMeansAllSigned, ReviewCanBeDecided
  <1>10. CASE req[p].decision = "APPROVED" /\ Pending(v) \ {q} = {}
    <2>1. status' = "APPROVED"
      BY <1>3, <1>5, <1>10 DEF Outcome
    <2>2. q \in Present(current)'
      BY <1>3, <1>4, <1>5, <1>10 DEF Present
    <2>3. \A r \in Reviewers : approval'[current'][r].status \in {"NONE", "APPROVED"}
      BY <1>3, <1>4, <1>5, <1>7, <1>10 DEF Pending
    <2>4. ApprovedMeansAllSigned'
      BY <2>2, <2>3 DEF ApprovedMeansAllSigned, Present
    <2> QED
      BY <1>6, <2>1, <2>4, EndSerial, SerialStep DEF CommitDecision, RowsOK, ReviewCanBeDecided
  <1> QED
    BY <1>4, <1>8, <1>9, <1>10

LEMMA RollbackSerial ==
  ASSUME IInv, SerialInv, NEW p \in Procs, Alone(p)', Rollback(p)
  PROVE  SerialInv'
  BY EndSerial, SameRows, SerialStep DEF Rollback

\* Where one request at most is in flight before and after a step, the one that
\* takes the step is alone.
LEMMA StepsAlone ==
  ASSUME IInv, NEW p \in Procs, OneInFlight, OneInFlight',
         \A q \in Procs \ {p} : req'[q] = req[q],
         req[p].pc # "idle" \/ req'[p].pc # "idle"
  PROVE  Alone(p)'
  BY DEF Alone, OneInFlight, InFlight

LEMMA NextSerial ==
  IInv /\ SerialInv /\ OneInFlight /\ OneInFlight' /\ [Next]_vars => SerialInv'
  <1> SUFFICES ASSUME IInv, SerialInv, OneInFlight, OneInFlight', [Next]_vars PROVE SerialInv'
    OBVIOUS
  <1>1. CASE UNCHANGED vars
    <2>1. RowsOK'
      BY <1>1, SameRows DEF vars
    <2>2. \A p \in Procs : Undisturbed(p)'
      <3> SUFFICES ASSUME NEW p \in Procs PROVE Undisturbed(p)'
        OBVIOUS
      <3>1. /\ Undisturbed(p) /\ UNCHANGED <<status, current, object, req>>
            /\ Present(current)' = Present(current) /\ Pending(current)' = Pending(current)
        BY <1>1 DEF vars, dbVars, SerialInv, Present, Pending
      <3> QED
        BY <3>1 DEF Undisturbed, FileKey
    <2> QED
      BY <2>1, <2>2 DEF SerialInv, RowsOK
  <1>2. ASSUME NEW p \in Procs, NEW f \in File, AddVersion(p, f) PROVE SerialInv'
    <2>1. \A q \in Procs \ {p} : req'[q] = req[q]
      BY <1>2 DEF AddVersion, Begin, IInv, TypeOK
    <2>2. req'[p].pc # "idle"
      BY <1>2 DEF AddVersion, Begin, Idle, IInv, TypeOK
    <2>3. Alone(p)'
      BY <2>1, <2>2, StepsAlone
    <2> QED
      BY <1>2, <2>3, AddVersionSerial
  <1>3. ASSUME NEW p \in Procs, NEW rs \in SUBSET Reviewers, Submit(p, rs) PROVE SerialInv'
    <2>1. \A q \in Procs \ {p} : req'[q] = req[q]
      BY <1>3 DEF Submit, Begin, IInv, TypeOK
    <2>2. req'[p].pc # "idle"
      BY <1>3 DEF Submit, Begin, Idle, IInv, TypeOK
    <2>3. Alone(p)'
      BY <2>1, <2>2, StepsAlone
    <2> QED
      BY <1>3, <2>3, SubmitSerial
  <1>4. ASSUME NEW p \in Procs, NEW r \in Reviewers, NEW d \in {"APPROVED", "REJECTED"},
               Decide(p, r, d)
        PROVE  SerialInv'
    <2>1. \A q \in Procs \ {p} : req'[q] = req[q]
      BY <1>4 DEF Decide, Begin, IInv, TypeOK
    <2>2. req'[p].pc # "idle"
      BY <1>4 DEF Decide, Begin, Idle, IInv, TypeOK
    <2>3. Alone(p)'
      BY <2>1, <2>2, StepsAlone
    <2> QED
      BY <1>4, <2>3, DecideSerial
  <1>5. ASSUME NEW p \in Procs,
               PutObject(p) \/ CommitVersion(p) \/ ClearApprovals(p) \/ CommitSubmit(p)
                 \/ UpdateApproval(p) \/ CountRemaining(p) \/ CommitDecision(p) \/ Rollback(p)
        PROVE  SerialInv'
    <2>1. \A q \in Procs \ {p} : req'[q] = req[q]
      BY <1>5 DEF PutObject, CommitVersion, ClearApprovals, CommitSubmit,
             UpdateApproval, CountRemaining, CommitDecision, Rollback, End, IInv, TypeOK
    <2>2. req[p].pc # "idle"
      BY <1>5 DEF PutObject, CommitVersion, ClearApprovals, CommitSubmit,
             UpdateApproval, CountRemaining, CommitDecision, Rollback, End, IInv, TypeOK
    <2>3. Alone(p)'
      BY <2>1, <2>2, StepsAlone
    <2> QED
      BY <1>5, <2>3, PutObjectSerial, CommitVersionSerial, ClearApprovalsSerial,
         CommitSubmitSerial, UpdateApprovalSerial, CountRemainingSerial, CommitDecisionSerial,
         RollbackSerial
  <1> QED
    BY <1>1, <1>2, <1>3, <1>4, <1>5, CreateSerial DEF Next

LEMMA SerialInvariant ==
  ASSUME \A p, q \in Procs : p = q
  PROVE  Spec => []SerialInv
  <1>1. OneInFlight /\ OneInFlight'
    BY DEF OneInFlight, InFlight
  <1> QED
    BY <1>1, InitSerial, NextSerial, DocumentInvariant, PTL DEF Spec

\* As long as one request is served at a time, whatever fails on the way, a
\* document is approved only with the signature of everybody who was asked.
THEOREM SerialAllSigned == ASSUME \A p, q \in Procs : p = q PROVE Spec => []ApprovedMeansAllSigned
  <1>1. SerialInv => ApprovedMeansAllSigned
    BY DEF SerialInv
  <1> QED
    BY <1>1, SerialInvariant, PTL

\* A document in review has somebody who can still decide, as long as one
\* request is served at a time: no review ends in a dead end.
THEOREM SerialReviewGoesOn == ASSUME \A p, q \in Procs : p = q PROVE Spec => []ReviewCanBeDecided
  <1>1. SerialInv => ReviewCanBeDecided
    BY DEF SerialInv
  <1> QED
    BY <1>1, SerialInvariant, PTL

\* Each version keeps the file it was uploaded with, as long as one request is
\* served at a time: an upload that fails after putObject overwrites no file.
THEOREM SerialFileKept == ASSUME \A p, q \in Procs : p = q PROVE Spec => []FileKept
  <1>1. SerialInv => FileKept
    BY DEF SerialInv
  <1> QED
    BY <1>1, SerialInvariant, PTL

-----------------------------------------------------------------------------
(***************************************************************************)
(* The same with the history: until two requests have overlapped.          *)
(***************************************************************************)

\* What the history says about the state that was entered last.
LEMMA HistoryStep ==
  ASSUME HNext, ~overlapped'
  PROVE  Next /\ ~overlapped /\ OneInFlight'
  <1>1. Next /\ ~overlapped /\ ~(Cardinality(InFlight') > 1)
    BY DEF HNext
  <1>2. IsFiniteSet(InFlight') /\ InFlight' \subseteq Procs
    BY FS_Subset, DocumentAssumption DEF InFlight
  <1> QED
    BY <1>1, <1>2, NoTwo DEF OneInFlight

LEMMA HInitInv == HInit => IInv /\ AloneInv
  <1>1. Init => OneInFlight
    BY IdleFacts DEF Init, OneInFlight, InFlight
  <1> QED
    BY <1>1, InitInv, InitSerial DEF HInit, AloneInv

LEMMA HNextInv == IInv /\ AloneInv /\ [HNext]_hvars => IInv' /\ AloneInv'
  <1> SUFFICES ASSUME IInv, AloneInv, [HNext]_hvars PROVE IInv' /\ AloneInv'
    OBVIOUS
  <1>1. IInv'
    BY NextInv DEF HNext, hvars
  <1>2. ASSUME ~overlapped' PROVE OneInFlight' /\ SerialInv'
    <2>1. CASE UNCHANGED hvars
      <3>1. UNCHANGED vars /\ OneInFlight /\ SerialInv /\ UNCHANGED req
        BY <1>2, <2>1 DEF hvars, vars, AloneInv
      <3>2. OneInFlight'
        BY <3>1 DEF OneInFlight, InFlight
      <3> QED
        BY <3>1, <3>2, NextSerial
    <2>2. CASE HNext
      <3>1. Next /\ OneInFlight' /\ OneInFlight /\ SerialInv
        BY <1>2, <2>2, HistoryStep DEF AloneInv
      <3> QED
        BY <3>1, NextSerial
    <2> QED
      BY <2>1, <2>2
  <1> QED
    BY <1>1, <1>2 DEF AloneInv

LEMMA HistoryInvariant == HSpec => [](IInv /\ AloneInv)
  BY HInitInv, HNextInv, PTL DEF HSpec

\* Until two requests have overlapped, and whatever fails on the way, a document
\* is approved only with the signature of everybody who was asked about it.
THEOREM AloneAllSigned == HSpec => []AloneApprovedMeansAllSigned
  <1>1. AloneInv => AloneApprovedMeansAllSigned
    BY DEF AloneInv, SerialInv, AloneApprovedMeansAllSigned
  <1> QED
    BY <1>1, HistoryInvariant, PTL

\* Until two requests have overlapped, no review ends in a dead end.
THEOREM AloneReviewGoesOn == HSpec => []AloneReviewCanBeDecided
  <1>1. AloneInv => AloneReviewCanBeDecided
    BY DEF AloneInv, SerialInv, AloneReviewCanBeDecided
  <1> QED
    BY <1>1, HistoryInvariant, PTL

\* Until two requests have overlapped, no upload, not even one whose rows were
\* never committed, replaces the file of a version.
THEOREM AloneFilesKept == HSpec => []AloneFileKept
  <1>1. AloneInv => AloneFileKept
    BY DEF AloneInv, SerialInv, AloneFileKept
  <1> QED
    BY <1>1, HistoryInvariant, PTL

=============================================================================
