------------------------- MODULE DocumentControlHistory -------------------------
(***************************************************************************)
(* DocumentControl with a history variable that tells the behaviours in    *)
(* which requests have overlapped from the others: findOne and what acts   *)
(* on it are not one transaction, and what the code's comments promise     *)
(* holds for as long as no two requests have been in flight at once.       *)
(***************************************************************************)
EXTENDS DocumentControl

VARIABLE overlapped  \* two requests have been in flight at once

hvars == <<vars, overlapped>>

InFlight == {p \in Procs : req[p].pc # "idle"}

HInit == Init /\ overlapped = FALSE
HNext == Next /\ overlapped' = (overlapped \/ Cardinality(InFlight') > 1)
HSpec == HInit /\ [][HNext]_hvars

\* As long as requests do not overlap, whatever fails on the way, an approved
\* document has the approval of every reviewer of its current version ...
AloneApprovedMeansAllSigned == ~overlapped => ApprovedMeansAllSigned

\* ... a document in review can still be decided ...
AloneReviewCanBeDecided == ~overlapped => ReviewCanBeDecided

\* ... and every version keeps the file it was uploaded with.
AloneFileKept == ~overlapped => FileKept

\* The inductive invariant behind them: until two requests have overlapped, at
\* most one is in flight, and nothing has disturbed it.
OneInFlight == \A p, q \in InFlight : p = q

AloneInv == ~overlapped => OneInFlight /\ SerialInv

=============================================================================
