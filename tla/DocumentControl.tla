---------------------------- MODULE DocumentControl ----------------------------
(***************************************************************************)
(* One controlled document: its versions, the files stored for them, and   *)
(* the reviewers' decisions on each version                                *)
(* (backend/src/modules/document-control/document-control.service.ts).     *)
(* Documents share nothing, so one of them shows what can happen to any.   *)
(*                                                                         *)
(* Every request reads the document with findOne, outside its transaction, *)
(* and then acts on what it read.  Transactions run at READ COMMITTED: a   *)
(* count does not see uncommitted decisions, and a write waits for the     *)
(* transaction that wrote the row before.  The document row is written     *)
(* last in every transaction, so that write and the commit are one step.   *)
(***************************************************************************)
EXTENDS Integers, FiniteSets

CONSTANTS
  Reviewers,    \* users with a role of REVIEWER_ROLES
  Names,        \* names of uploaded files
  Contents,     \* contents of uploaded files
  Procs,        \* requests that may be in flight at once
  MaxVersions,  \* no request adds a version after this one
  MaxSubmits,   \* no version is submitted again once a reviewer was asked
                \* this often about it
  Null          \* absence of a row, of an object

File == [name : Names, content : Contents]

ASSUME DocumentAssumption ==
  /\ MaxVersions \in Nat \ {0}
  /\ MaxSubmits \in Nat
  /\ IsFiniteSet(Procs)
  /\ Null \notin File
  /\ Null \notin Contents

Versions == 1..MaxVersions

VARIABLES
  status,    \* Document.status; NONE before the document is created
  current,   \* Document.currentVersion
  version,   \* DocumentVersion rows: the name and content that were uploaded
  object,    \* the documents bucket: what is stored under v{n}/{fileName}
  approval,  \* DocumentApproval rows of each version and reviewer
  req        \* the request each process is serving

dbVars == <<status, current, version, object, approval>>
vars == <<dbVars, req>>

(***************************************************************************)
(* An approval row.  NONE: there is no row.  The id tells a row from one   *)
(* that replaced it.                                                       *)
(***************************************************************************)
ApprovalRow == [id : Nat, status : {"NONE", "PENDING", "APPROVED", "REJECTED"}]

NoApproval == [id |-> 0, status |-> "NONE"]

(***************************************************************************)
(* A request and what it remembers of the document it has read: version,   *)
(* the version it is about; row, the id of the reviewer's approval.  In    *)
(* its transaction: the approvals it has cleared, whether other reviewers  *)
(* are still to decide.                                                    *)
(***************************************************************************)
Request ==
  [pc : {"idle", "put", "version", "clear", "create", "decide", "count", "close"},
   version : Nat, file : File \cup {Null}, reviewers : SUBSET Reviewers,
   cleared : SUBSET Reviewers, reviewer : Reviewers \cup {Null}, row : Nat,
   decision : {"APPROVED", "REJECTED", "NONE"}, remaining : BOOLEAN]

Idle == [pc |-> "idle", version |-> 0, file |-> Null, reviewers |-> {}, cleared |-> {},
         reviewer |-> Null, row |-> 0, decision |-> "NONE", remaining |-> FALSE]

TypeOK ==
  /\ status \in {"NONE", "DRAFT", "IN_REVIEW", "APPROVED", "REJECTED"}
  /\ current \in 0..MaxVersions
  /\ version \in [Versions -> File \cup {Null}]
  /\ object \in [Versions \X Names -> Contents \cup {Null}]
  /\ approval \in [Versions -> [Reviewers -> ApprovalRow]]
  /\ req \in [Procs -> Request]

Init ==
  /\ status = "NONE"
  /\ current = 0
  /\ version = [v \in Versions |-> Null]
  /\ object = [k \in Versions \X Names |-> Null]
  /\ approval = [v \in Versions |-> [r \in Reviewers |-> NoApproval]]
  /\ req = [p \in Procs |-> Idle]

-----------------------------------------------------------------------------
Begin(p, request) ==
  /\ req[p].pc = "idle"
  /\ req' = [req EXCEPT ![p] = request]
  /\ UNCHANGED dbVars

End(p) == req' = [req EXCEPT ![p] = Idle]

\* create: the document is invisible to everybody else until its transaction,
\* upload included, commits.
Create(f) ==
  /\ status = "NONE"
  /\ status' = "DRAFT"
  /\ current' = 1
  /\ version' = [version EXCEPT ![1] = f]
  /\ object' = [object EXCEPT ![<<1, f.name>>] = f.content]
  /\ UNCHANGED <<approval, req>>

(***************************************************************************)
(* addVersion: number, upload, and then the rows.                          *)
(***************************************************************************)
AddVersion(p, f) ==
  /\ status # "NONE"
  /\ current < MaxVersions
  /\ Begin(p, [Idle EXCEPT !.pc = "put", !.version = current + 1, !.file = f])

\* MUTANT of FileKey: the version is missing from the key.
FileKey_NameOnly(v, f) == <<1, f.name>>

\* buildFileKey
FileKey(v, f) == <<v, f.name>>

\* The upload takes effect at once, whatever becomes of the rows.
PutObject(p) ==
  /\ req[p].pc = "put"
  /\ object' = [object EXCEPT ![FileKey(req[p].version, req[p].file)] = req[p].file.content]
  /\ req' = [req EXCEPT ![p].pc = "version"]
  /\ UNCHANGED <<status, current, version, approval>>

\* MUTANT of CommitVersion: the document goes back to the version it had.
CommitVersion_KeepsCurrent(p) ==
  /\ req[p].pc = "version"
  /\ IF version[req[p].version] = Null
     THEN /\ version' = [version EXCEPT ![req[p].version] = req[p].file]
          /\ current' = req[p].version - 1
          /\ status' = "DRAFT"
     ELSE UNCHANGED <<status, current, version>>
  /\ End(p)
  /\ UNCHANGED <<object, approval>>

\* MUTANT of CommitVersion: the document keeps the status it had.
CommitVersion_KeepsStatus(p) ==
  /\ req[p].pc = "version"
  /\ IF version[req[p].version] = Null
     THEN /\ version' = [version EXCEPT ![req[p].version] = req[p].file]
          /\ current' = req[p].version
     ELSE UNCHANGED <<current, version>>
  /\ End(p)
  /\ UNCHANGED <<status, object, approval>>

\* The unique (documentId, versionNumber) lets one of two such rows in.
CommitVersion(p) ==
  /\ req[p].pc = "version"
  /\ IF version[req[p].version] = Null
     THEN /\ version' = [version EXCEPT ![req[p].version] = req[p].file]
          /\ current' = req[p].version
          /\ status' = "DRAFT"
     ELSE UNCHANGED <<status, current, version>>
  /\ End(p)
  /\ UNCHANGED <<object, approval>>

-----------------------------------------------------------------------------
(***************************************************************************)
(* submitForReview: old decisions out, a clean row for every reviewer in.  *)
(***************************************************************************)
Present(v) == {r \in Reviewers : approval[v][r].status # "NONE"}
Pending(v) == {r \in Reviewers : approval[v][r].status = "PENDING"}

Submit(p, rs) ==
  /\ status \in {"DRAFT", "REJECTED"}
  /\ rs # {}
  /\ \A r \in Reviewers : approval[current][r].id < MaxSubmits
  /\ Begin(p, [Idle EXCEPT !.pc = "clear", !.version = current, !.reviewers = rs])

\* Another transaction has deleted or updated the row and not committed yet.
Locked(p, v, r) ==
  \E q \in Procs \ {p} :
    /\ req[q].version = v
    /\ \/ req[q].pc \in {"count", "close"} /\ req[q].reviewer = r
       \/ req[q].pc = "create" /\ r \in req[q].cleared

ClearApprovals(p) ==
  LET v == req[p].version IN
  /\ req[p].pc = "clear"
  /\ \A r \in Present(v) : ~Locked(p, v, r)
  /\ req' = [req EXCEPT ![p].pc = "create", ![p].cleared = Present(v)]
  /\ UNCHANGED dbVars

\* A row of (version, reviewer) that somebody else created meanwhile is refused
\* by the unique index, and with it the submission.
CommitSubmit(p) ==
  LET v == req[p].version IN
  /\ req[p].pc = "create"
  /\ IF req[p].reviewers \cap (Present(v) \ req[p].cleared) = {}
     THEN /\ approval' = [approval EXCEPT ![v] = [r \in Reviewers |->
               CASE r \in req[p].reviewers -> [id |-> @[r].id + 1, status |-> "PENDING"]
                 [] r \in req[p].cleared \ req[p].reviewers -> [@[r] EXCEPT !.status = "NONE"]
                 [] OTHER -> @[r]]]
          /\ status' = "IN_REVIEW"
     ELSE UNCHANGED <<approval, status>>
  /\ End(p)
  /\ UNCHANGED <<current, version, object>>

-----------------------------------------------------------------------------
(***************************************************************************)
(* recordDecision, by a reviewer of the current version who has not yet    *)
(* decided, as far as the document read tells.                             *)
(***************************************************************************)
Decide(p, r, d) ==
  /\ status = "IN_REVIEW"
  /\ r \in Pending(current)
  /\ Begin(p, [Idle EXCEPT !.pc = "decide", !.version = current, !.reviewer = r,
                           !.row = approval[current][r].id, !.decision = d])

\* The update by id fails if the row is gone.
UpdateApproval(p) ==
  LET v == req[p].version
      r == req[p].reviewer IN
  /\ req[p].pc = "decide"
  /\ ~Locked(p, v, r)
  /\ IF r \in Present(v) /\ approval[v][r].id = req[p].row
     THEN req' = [req EXCEPT ![p].pc = IF req[p].decision = "REJECTED" THEN "close" ELSE "count"]
     ELSE End(p)
  /\ UNCHANGED dbVars

\* MUTANT of CountRemaining: the reviewer's own row is not left out, and nobody
\* is ever the last one.
CountRemaining_WithOwn(p) ==
  LET v == req[p].version IN
  /\ req[p].pc = "count"
  /\ req' = [req EXCEPT ![p].pc = "close", ![p].remaining = Pending(v) # {}]
  /\ UNCHANGED dbVars

\* Who else is still to decide, as far as it is committed.
CountRemaining(p) ==
  LET v == req[p].version IN
  /\ req[p].pc = "count"
  /\ req' = [req EXCEPT ![p].pc = "close",
                        ![p].remaining = Pending(v) \ {req[p].reviewer} # {}]
  /\ UNCHANGED dbVars

\* MUTANT of Outcome: writes the count where the status belongs.
Outcome_Remaining(p) == IF req[p].remaining THEN "NONE" ELSE "REMAINING"

\* What a decision makes of the document.
Outcome(p) ==
  CASE req[p].decision = "REJECTED" -> "REJECTED"
    [] req[p].decision = "APPROVED" /\ req[p].remaining -> "IN_REVIEW"
    [] OTHER -> "APPROVED"

CommitDecision(p) ==
  /\ req[p].pc = "close"
  /\ approval' = [approval EXCEPT ![req[p].version][req[p].reviewer].status = req[p].decision]
  /\ status' = Outcome(p)
  /\ End(p)
  /\ UNCHANGED <<current, version, object>>

\* A statement fails, the transaction times out or the server dies.
Rollback(p) ==
  /\ req[p].pc # "idle"
  /\ End(p)
  /\ UNCHANGED dbVars

-----------------------------------------------------------------------------
Next ==
  \/ \E f \in File : Create(f)
  \/ \E p \in Procs :
       \/ \E f \in File : AddVersion(p, f)
       \/ PutObject(p)
       \/ CommitVersion(p)
       \/ \E rs \in SUBSET Reviewers : Submit(p, rs)
       \/ ClearApprovals(p)
       \/ CommitSubmit(p)
       \/ \E r \in Reviewers, d \in {"APPROVED", "REJECTED"} : Decide(p, r, d)
       \/ UpdateApproval(p)
       \/ CountRemaining(p)
       \/ CommitDecision(p)
       \/ Rollback(p)

Spec == Init /\ [][Next]_vars

-----------------------------------------------------------------------------
(***************************************************************************)
(* Properties.                                                             *)
(***************************************************************************)

\* Versions are numbered without a gap and the document points to the newest,
\* whoever uploads at the same time: a number read before is used only once.
VersionsContiguous == \A v \in Versions : version[v] # Null <=> v <= current

\* "the document only moves to APPROVED once every approval row for its current
\* version is APPROVED" (schema.prisma:423-424).
ApprovedMeansAllSigned ==
  status = "APPROVED" =>
    /\ Present(current) # {}
    /\ \A r \in Present(current) : approval[current][r].status = "APPROVED"

\* A document in review has a reviewer who can still decide; otherwise nobody
\* can, and nobody can submit it again.
ReviewCanBeDecided == status = "IN_REVIEW" => Pending(current) # {}

\* The file of a version is the one that was uploaded with it: "a version's file
\* must stay retrievable" (schema.prisma:400-401).
FileKept ==
  \A v \in Versions : version[v] # Null => object[FileKey(v, version[v])] = version[v].content

-----------------------------------------------------------------------------
(***************************************************************************)
(* The inductive invariants behind them (DocumentControlProofs).           *)
(***************************************************************************)

\* What a request remembers names things that exist; an upload is about the
\* version that follows one the document had, anything else about one it had.
RequestOK(p) ==
  LET r == req[p] IN
  /\ r.pc # "idle" => r.version \in Versions
  /\ r.pc \in {"put", "version"} => r.version \in 2..(current + 1) /\ r.file \in File
  /\ r.pc \in {"clear", "create", "decide", "count", "close"} => r.version <= current
  /\ r.pc \in {"decide", "count", "close"} =>
       r.reviewer \in Reviewers /\ r.decision \in {"APPROVED", "REJECTED"}

IInv ==
  /\ TypeOK
  /\ status = "NONE" <=> current = 0
  /\ VersionsContiguous
  /\ \A p \in Procs : RequestOK(p)

\* With one request at a time: a document in review has been rejected by nobody,
\* a rejected or approved one has no request deciding on it, and what the
\* request has read is still true.
Undisturbed(p) ==
  LET r == req[p] IN
  /\ r.pc \in {"put", "version"} => r.version = current + 1
  /\ r.pc = "version" => object[FileKey(r.version, r.file)] = r.file.content
  /\ r.pc \in {"clear", "create"} => r.version = current /\ r.reviewers # {}
  /\ r.pc = "create" => r.cleared = Present(current)
  /\ r.pc \in {"decide", "count", "close"} =>
       /\ status = "IN_REVIEW" /\ r.version = current
       /\ r.reviewer \in Pending(current)
  /\ r.pc = "count" => r.decision = "APPROVED"
  /\ r.pc = "close" /\ r.decision = "APPROVED" =>
       (r.remaining <=> Pending(current) \ {r.reviewer} # {})

SerialInv ==
  /\ ApprovedMeansAllSigned
  /\ ReviewCanBeDecided
  /\ status = "IN_REVIEW" => \A r \in Reviewers : approval[current][r].status # "REJECTED"
  /\ FileKept
  /\ \A p \in Procs : Undisturbed(p)

=============================================================================
