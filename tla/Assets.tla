-------------------------------- MODULE Assets --------------------------------
(***************************************************************************)
(* One asset of the register: the status an admin sets by hand and who     *)
(* holds it (backend/src/modules/assets/assets.service.ts).  Assets share  *)
(* nothing.  Work orders set the status too: that is module Maintenance.   *)
(*                                                                         *)
(* Each request reads the asset and its open assignment, and writes later; *)
(* only checkIn has a transaction.                                         *)
(***************************************************************************)
EXTENDS Naturals, FiniteSets

CONSTANTS
  Assignments,  \* ids of AssetAssignment rows
  Clerks,       \* requests to AssetsService that may be in flight at once
  Null          \* absence of an asset, of a row

ASSUME AssetsAssumption == Null \notin Assignments

VARIABLES
  asset,    \* Asset.status, Null before the asset is registered
  custody,  \* AssetAssignment rows: none yet, out (returnedAt is null) or returned
  desk      \* the request each clerk is serving

registerVars == <<asset, custody, desk>>

AssetStatuses == {"ACTIVE", "UNDER_MAINTENANCE", "DECOMMISSIONED"}

\* Those an admin may set; work orders set the rest.
MANUAL_STATUSES == {"ACTIVE", "DECOMMISSIONED"}

\* What a clerk is doing: the status to write, the assignment to close.
Errand == [pc : {"free", "status", "out", "in"}, status : MANUAL_STATUSES \cup {Null},
           ref : Assignments \cup {Null}]

Free == [pc |-> "free", status |-> Null, ref |-> Null]

RegisterTypeOK ==
  /\ asset \in AssetStatuses \cup {Null}
  /\ custody \in [Assignments -> {"none", "out", "returned"}]
  /\ desk \in [Clerks -> Errand]

RegisterInit ==
  /\ asset = Null
  /\ custody = [a \in Assignments |-> "none"]
  /\ desk = [c \in Clerks |-> Free]

\* The open assignments; findFirst and HOLDER take one of them.
Out == {a \in Assignments : custody[a] = "out"}

-----------------------------------------------------------------------------
Take(c, errand) ==
  /\ desk[c] = Free
  /\ desk' = [desk EXCEPT ![c] = errand]
  /\ UNCHANGED <<asset, custody>>

Done(c) == desk' = [desk EXCEPT ![c] = Free]

\* create
Register ==
  /\ asset = Null
  /\ asset' = "ACTIVE"
  /\ UNCHANGED <<custody, desk>>

\* MUTANT of SetStatus: nobody asks whether somebody holds the asset.
SetStatus_Unchecked(c, s) ==
  /\ asset \in MANUAL_STATUSES
  /\ Take(c, [Free EXCEPT !.pc = "status", !.status = s])

\* update with a status; its other fields are not modelled.
SetStatus(c, s) ==
  /\ asset \in MANUAL_STATUSES
  /\ s = "DECOMMISSIONED" => Out = {}
  /\ Take(c, [Free EXCEPT !.pc = "status", !.status = s])

WriteStatus(c) ==
  /\ desk[c].pc = "status"
  /\ asset' = desk[c].status
  /\ Done(c)
  /\ UNCHANGED custody

CheckOut(c) ==
  /\ asset = "ACTIVE"
  /\ Out = {}
  /\ Take(c, [Free EXCEPT !.pc = "out"])

\* MUTANT of HandOut: there is no partial unique index.
HandOut_NoIndex(c, a) ==
  /\ desk[c].pc = "out"
  /\ custody[a] = "none"
  /\ custody' = [custody EXCEPT ![a] = "out"]
  /\ Done(c)
  /\ UNCHANGED asset

\* The partial unique index lets one open assignment in.
HandOut(c, a) ==
  /\ desk[c].pc = "out"
  /\ custody[a] = "none"
  /\ custody' = IF Out = {} THEN [custody EXCEPT ![a] = "out"] ELSE custody
  /\ Done(c)
  /\ UNCHANGED asset

CheckIn(c, a) ==
  /\ a \in Out
  /\ Take(c, [Free EXCEPT !.pc = "in", !.ref = a])

\* updateMany where returnedAt is still null; a conflict changes nothing.
TakeIn(c) ==
  /\ desk[c].pc = "in"
  /\ custody' = [custody EXCEPT ![desk[c].ref] = "returned"]
  /\ Done(c)
  /\ UNCHANGED asset

\* A statement fails or the server dies.
Drop(c) ==
  /\ desk[c] # Free
  /\ Done(c)
  /\ UNCHANGED <<asset, custody>>

-----------------------------------------------------------------------------
(***************************************************************************)
(* Properties.                                                             *)
(***************************************************************************)

\* "guarantees one open assignment per asset even if two people click at once"
\* (README.md:220-221).
OneHolder == Cardinality(Out) <= 1

\* What is out of service is in nobody's hands: "Check the asset back in before
\* decommissioning it" (assets.service.ts:137).
DecommissionedIsHome == asset = "DECOMMISSIONED" => Out = {}

=============================================================================
