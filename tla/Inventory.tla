------------------------------ MODULE Inventory ------------------------------
(***************************************************************************)
(* The stock engine of backend/src/modules/inventory/inventory.service.ts: *)
(* requests that move stock between warehouses, the running balance        *)
(* StockLevel.quantityOnHand they keep, the ledger StockTransaction they   *)
(* append to, and the Purchase and Consumption rows they own.              *)
(*                                                                         *)
(* Every request runs in a Prisma interactive transaction.  No isolation   *)
(* level is set anywhere, so PostgreSQL runs it at READ COMMITTED: a read  *)
(* sees what is committed plus the transaction's own writes, a write waits *)
(* for the transaction that wrote the row before, and a transaction that   *)
(* fails, times out or loses its server leaves nothing behind.             *)
(*                                                                         *)
(* Quantities are integers in thousandths (round3), costs in cents.        *)
(***************************************************************************)
EXTENDS Integers, Sequences, FiniteSetsExt

CONSTANTS
  Items,        \* stock keeping units
  Warehouses,   \* warehouses of the organisation the items belong to
  Docs,         \* ids of Purchase and Consumption rows
  Procs,        \* requests that may be in flight at once
  Quantities,   \* quantities a request may name
  Counts,       \* results of a physical count
  Prices,       \* unit costs a request may name; 0 if it may name none
  MaxRows,      \* no request begins once the ledger has this many rows
  Null          \* absence of a row

Keys == Items \X Warehouses

DocRow == [kind : {"purchase", "consumption"}, key : Keys, qty : Nat,
           deleted : BOOLEAN, reversals : Nat]

ASSUME ConstantsAssumption ==
  /\ Quantities \subseteq Nat \ {0}
  /\ Counts \subseteq Nat
  /\ Prices \subseteq Nat
  /\ IsFiniteSet(Warehouses) /\ IsFiniteSet(Procs)
  /\ IsFiniteSet(Prices)   \* unitCost is a Decimal(18, 2)
  /\ MaxRows \in Nat
  /\ Null \notin Docs
  /\ Null \notin DocRow

VARIABLES
  item,      \* InventoryItem: absent, live, or soft-deleted (deletedAt)
  unitCost,  \* InventoryItem.unitCost, the weighted-average cost
  level,     \* StockLevel.quantityOnHand of every (item, warehouse)
  ledger,    \* StockTransaction: per key the sum of the quantities and the
             \* balanceAfter of the newest row
  posted,    \* number of StockTransaction rows
  doc,       \* Purchase and Consumption rows, with their REVERSAL rows counted
  req,       \* the request each process is serving
  newCost    \* of a purchase in flight: the unitCost it read, from ReadStock
             \* on the average cost it has computed

dbVars == <<item, unitCost, level, ledger, posted, doc>>
vars == <<dbVars, req, newCost>>

Line == [key : Keys, delta : Int]
Row  == [delta : Int, balance : Int]

\* No row was written to the key; balances that are written are never negative.
NoRow  == [delta |-> 0, balance |-> -1]
NoRows == [k \in Keys |-> NoRow]

Ops == {"none", "move", "adjust", "transfer", "purchase", "issue", "undo", "delete"}

(***************************************************************************)
(* A request: where it is (pc), the lines it passes to applyStockDelta,    *)
(* which of them is next (at), the balance computed for that line, the     *)
(* rows its transaction has written and not yet committed, and the         *)
(* Purchase, Consumption or InventoryItem it is about.                     *)
(***************************************************************************)
Request == [pc : {"idle", "cost", "read", "write", "post", "mark"}, op : Ops, lines : Seq(Line),
            at : Nat, balance : Int, rows : [Keys -> Row], ref : Docs \cup Items \cup {Null}]

Idle == [pc |-> "idle", op |-> "none", lines |-> <<>>, at |-> 1, balance |-> 0,
         rows |-> NoRows, ref |-> Null]

TypeOK ==
  /\ item \in [Items -> {"absent", "live", "deleted"}]
  /\ DOMAIN unitCost = Items
  /\ level \in [Keys -> Int]
  /\ ledger \in [Keys -> [sum : Int, last : Int]]
  /\ posted \in Nat
  /\ doc \in [Docs -> DocRow \cup {Null}]
  /\ req \in [Procs -> Request]
  /\ DOMAIN newCost = Procs

Init ==
  /\ item = [i \in Items |-> "absent"]
  /\ unitCost = [i \in Items |-> 0]
  /\ level = [k \in Keys |-> 0]
  /\ ledger = [k \in Keys |-> [sum |-> 0, last |-> 0]]
  /\ posted = 0
  /\ doc = [d \in Docs |-> Null]
  /\ req = [p \in Procs |-> Idle]
  /\ newCost = [p \in Procs |-> 0]

-----------------------------------------------------------------------------
(***************************************************************************)
(* The database as a transaction sees it.                                  *)
(***************************************************************************)
Wrote(p, k) == req[p].rows[k] # NoRow

\* The balance a read inside p's transaction returns.
Seen(p, k) == IF Wrote(p, k) THEN req[p].rows[k].balance ELSE level[k]

\* Another transaction holds the row lock of the key.
Locked(p, k) == \E q \in Procs \ {p} : Wrote(q, k)

\* What is on hand of an item across all warehouses.
OnHand(i) == MapThenSumSet(LAMBDA w : level[<<i, w>>], Warehouses)

\* n / d rounded half up, as Decimal.toDecimalPlaces(2) does on cents.
RoundDiv(n, d) == (2 * n + d) \div (2 * d)

\* MUTANT of WeightedCost: the stock on hand is left out of the divisor.
WeightedCost_DividedByNewOnly(old, i, q, price) ==
  RoundDiv(old * OnHand(i) + price * q, q)

\* (oldStock * oldCost + qty * cost) / (oldStock + qty)
WeightedCost(old, i, q, price) ==
  RoundDiv(old * OnHand(i) + price * q, OnHand(i) + q)

-----------------------------------------------------------------------------
(***************************************************************************)
(* Items.  The new item of createItem is invisible to everybody else until *)
(* its transaction commits, so the whole transaction is one step.          *)
(***************************************************************************)
\* MUTANT of CreateItem: the opening stock has no OPENING row.
CreateItem_NoOpeningRow(i, w, opening, price) ==
  /\ item[i] = "absent"
  /\ posted < MaxRows
  /\ item' = [item EXCEPT ![i] = "live"]
  /\ unitCost' = [unitCost EXCEPT ![i] = price]
  /\ level' = [level EXCEPT ![<<i, w>>] = opening]
  /\ ledger' = [ledger EXCEPT ![<<i, w>>].last = opening]
  /\ UNCHANGED <<posted, doc, req, newCost>>

CreateItem(i, w, opening, price) ==
  /\ item[i] = "absent"
  /\ posted < MaxRows
  /\ item' = [item EXCEPT ![i] = "live"]
  /\ unitCost' = [unitCost EXCEPT ![i] = price]
  /\ IF opening > 0
     THEN /\ level' = [level EXCEPT ![<<i, w>>] = opening]
          /\ ledger' = [ledger EXCEPT ![<<i, w>>] = [sum |-> opening, last |-> opening]]
          /\ posted' = posted + 1
     ELSE UNCHANGED <<level, ledger, posted>>
  /\ UNCHANGED <<doc, req, newCost>>

\* The request is answered, or fails.
End(p) ==
  /\ req' = [req EXCEPT ![p] = Idle]
  /\ newCost' = [newCost EXCEPT ![p] = 0]

Begin(p, op, pc, lines, ref) ==
  /\ req[p].pc = "idle"
  /\ posted < MaxRows
  /\ req' = [req EXCEPT ![p] = [Idle EXCEPT !.pc = pc, !.op = op, !.lines = lines, !.ref = ref]]

\* deleteItem checks that nothing is on hand, outside any transaction, ...
DeleteItem(p, i) ==
  /\ item[i] = "live"
  /\ OnHand(i) = 0
  /\ Begin(p, "delete", "mark", <<>>, i)
  /\ UNCHANGED <<dbVars, newCost>>

\* ... and then marks the item, whatever has happened since.
MarkDeleted(p) ==
  /\ req[p].pc = "mark"
  /\ item' = [item EXCEPT ![req[p].ref] = "deleted"]
  /\ End(p)
  /\ UNCHANGED <<unitCost, level, ledger, posted, doc>>

-----------------------------------------------------------------------------
(***************************************************************************)
(* The requests that move stock, up to their first applyStockDelta.        *)
(***************************************************************************)

\* RECEIPT and ISSUE name a positive quantity and ADJUSTMENT a non-zero one,
\* checked before round3 may turn it into 0.  Deleted items are not refused.
RecordTransaction(p, k, delta) ==
  /\ item[k[1]] # "absent"
  /\ Begin(p, "move", "read", <<[key |-> k, delta |-> delta]>>, Null)
  /\ UNCHANGED <<dbVars, newCost>>

\* MUTANT of AdjustStock: posts what was counted instead of the difference.
AdjustStock_PostsCount(p, k, counted) ==
  /\ item[k[1]] # "absent"
  /\ counted # level[k]
  /\ Begin(p, "adjust", "read", <<[key |-> k, delta |-> counted]>>, Null)
  /\ UNCHANGED <<dbVars, newCost>>

\* A stock take posts the difference to the balance it reads here.
AdjustStock(p, k, counted) ==
  /\ item[k[1]] # "absent"
  /\ counted # level[k]
  /\ Begin(p, "adjust", "read", <<[key |-> k, delta |-> counted - level[k]]>>, Null)
  /\ UNCHANGED <<dbVars, newCost>>

Transfer(p, i, from, to, q) ==
  /\ item[i] # "absent"
  /\ from # to
  /\ Begin(p, "transfer", "read", <<[key |-> <<i, from>>, delta |-> -q],
                                    [key |-> <<i, to>>, delta |-> q]>>, Null)
  /\ UNCHANGED <<dbVars, newCost>>

\* The id a new Purchase or Consumption row will get.
Fresh(d) == doc[d] = Null /\ \A q \in Procs : req[q].ref # d

\* Reads the item with its unitCost; the levels are a query of their own.
RecordPurchase(p, k, q, d) ==
  /\ item[k[1]] = "live"
  /\ Fresh(d)
  /\ Begin(p, "purchase", "cost", <<[key |-> k, delta |-> q]>>, d)
  /\ newCost' = [newCost EXCEPT ![p] = unitCost[k[1]]]
  /\ UNCHANGED dbVars

\* Reads what is on hand by now and averages; the price, which the request has
\* named all along, matters from here on.
ReadStock(p, price) ==
  /\ req[p].pc = "cost"
  /\ LET line == req[p].lines[1] IN
       newCost' = [newCost EXCEPT ![p] = WeightedCost(@, line.key[1], line.delta, price)]
  /\ req' = [req EXCEPT ![p].pc = "read"]
  /\ UNCHANGED dbVars

\* recordConsumption; issueStock refuses items deleted by now.
IssueStock(p, k, q, d) ==
  /\ item[k[1]] = "live"
  /\ Fresh(d)
  /\ Begin(p, "issue", "read", <<[key |-> k, delta |-> -q]>>, d)
  /\ UNCHANGED <<dbVars, newCost>>

\* The signed quantity that undoes a Purchase or a Consumption.
Reversal(row) == IF row.kind = "purchase" THEN -row.qty ELSE row.qty

\* MUTANT of DeleteDoc: a row that is marked deleted is undone again.
DeleteDoc_Again(p, d) ==
  /\ doc[d] # Null
  /\ Begin(p, "undo", "read", <<[key |-> doc[d].key, delta |-> Reversal(doc[d])]>>, d)
  /\ UNCHANGED <<dbVars, newCost>>

\* deletePurchase and deleteConsumption read the row outside the transaction.
DeleteDoc(p, d) ==
  /\ doc[d] # Null
  /\ ~doc[d].deleted
  /\ Begin(p, "undo", "read", <<[key |-> doc[d].key, delta |-> Reversal(doc[d])]>>, d)
  /\ UNCHANGED <<dbVars, newCost>>

-----------------------------------------------------------------------------
(***************************************************************************)
(* applyStockDelta, for the first line that is left.                       *)
(***************************************************************************)
Line1(p) == req[p].lines[req[p].at]

Balance(p) == Seen(p, Line1(p).key) + Line1(p).delta

\* MUTANT of ReadLevel: the balance is not checked.
ReadLevel_Unchecked(p) ==
  /\ req[p].pc = "read"
  /\ req' = [req EXCEPT ![p] = [@ EXCEPT !.pc = "write", !.balance = Balance(p)]]
  /\ UNCHANGED <<dbVars, newCost>>

\* MUTANT of ReadLevel: waits until there is enough instead of refusing.
ReadLevel_WaitsForStock(p) ==
  /\ req[p].pc = "read" /\ Balance(p) >= 0
  /\ ReadLevel_Unchecked(p)

\* Reads the balance and refuses what would take it below zero.
ReadLevel(p) ==
  /\ req[p].pc = "read"
  /\ \/ /\ Balance(p) < 0
        /\ End(p)
     \/ /\ Balance(p) >= 0
        /\ req' = [req EXCEPT ![p] = [@ EXCEPT !.pc = "write", !.balance = Balance(p)]]
        /\ UNCHANGED newCost
  /\ UNCHANGED dbVars

\* The rows the transaction will have written after the upsert, which writes
\* the balance computed from that earlier read.
RowsAfter(p) ==
  [req[p].rows EXCEPT ![Line1(p).key] =
     [delta |-> Line1(p).delta, balance |-> req[p].balance]]

\* The upsert waits for a transaction that wrote the same row before.
WriteLevel(p) ==
  /\ req[p].pc = "write"
  /\ ~Locked(p, Line1(p).key)
  /\ req' = [req EXCEPT ![p] =
       [@ EXCEPT !.rows = RowsAfter(p),
                 !.at = req[p].at + 1,
                 !.pc = IF req[p].at = Len(req[p].lines) THEN "post" ELSE "read"]]
  /\ UNCHANGED <<dbVars, newCost>>

-----------------------------------------------------------------------------
(***************************************************************************)
(* The end of the transaction: ledger rows, documents and commit.          *)
(***************************************************************************)
\* MUTANT of LedgerAfter: balanceAfter is computed again when the row is posted.
LedgerAfter_RecomputedBalance(p, k) ==
  IF Wrote(p, k)
  THEN [sum |-> ledger[k].sum + req[p].rows[k].delta, last |-> level[k] + req[p].rows[k].delta]
  ELSE ledger[k]

\* MUTANT of LedgerAfter: the row is posted with the balance as its quantity.
LedgerAfter_PostsBalance(p, k) ==
  IF Wrote(p, k)
  THEN [sum |-> ledger[k].sum + req[p].rows[k].balance, last |-> req[p].rows[k].balance]
  ELSE ledger[k]

LedgerAfter(p, k) ==
  IF Wrote(p, k)
  THEN [sum |-> ledger[k].sum + req[p].rows[k].delta, last |-> req[p].rows[k].balance]
  ELSE ledger[k]

CommitRows(p) ==
  /\ req[p].pc = "post"
  /\ level' = [k \in Keys |-> Seen(p, k)]
  /\ ledger' = [k \in Keys |-> LedgerAfter(p, k)]
  /\ posted' = posted + Len(req[p].lines)
  /\ End(p)
  /\ UNCHANGED item

\* recordTransaction, adjustStock and transfer only append to the ledger.
PostMovement(p) ==
  /\ req[p].op \in {"move", "adjust", "transfer"}
  /\ CommitRows(p)
  /\ UNCHANGED <<unitCost, doc>>

NewDoc(p, kind, qty) ==
  doc' = [doc EXCEPT ![req[p].ref] =
            [kind |-> kind, key |-> req[p].lines[1].key, qty |-> qty,
             deleted |-> FALSE, reversals |-> 0]]

\* The Purchase row, the item's new average cost and the RECEIPT row.
PostPurchase(p) ==
  /\ req[p].op = "purchase"
  /\ CommitRows(p)
  /\ NewDoc(p, "purchase", req[p].lines[1].delta)
  /\ unitCost' = [unitCost EXCEPT ![req[p].lines[1].key[1]] = newCost[p]]

\* MUTANT of PostIssue: the document gets the ledger's signed quantity.
PostIssue_SignedQuantity(p) ==
  /\ req[p].op = "issue"
  /\ CommitRows(p)
  /\ NewDoc(p, "consumption", req[p].lines[1].delta)
  /\ UNCHANGED unitCost

\* The Consumption row and the ISSUE row.
PostIssue(p) ==
  /\ req[p].op = "issue"
  /\ CommitRows(p)
  /\ NewDoc(p, "consumption", -req[p].lines[1].delta)
  /\ UNCHANGED unitCost

\* The REVERSAL row and the deletedAt mark; the average cost stays as it is.
Reversed(row) == [row EXCEPT !.deleted = TRUE, !.reversals = row.reversals + 1]

PostReversal(p) ==
  /\ req[p].op = "undo"
  /\ CommitRows(p)
  /\ doc' = [doc EXCEPT ![req[p].ref] = Reversed(doc[req[p].ref])]
  /\ UNCHANGED unitCost

\* A statement fails, the transaction times out, PostgreSQL picks it to break
\* a deadlock, or its server dies.
Rollback(p) ==
  /\ req[p].pc # "idle"
  /\ End(p)
  /\ UNCHANGED dbVars

-----------------------------------------------------------------------------
\* A client asks for something.
Arrive(p) ==
  \/ \E i \in Items : DeleteItem(p, i)
  \/ \E k \in Keys, q \in Quantities, s \in {-1, 0, 1} : RecordTransaction(p, k, s * q)
  \/ \E k \in Keys, c \in Counts : AdjustStock(p, k, c)
  \/ \E i \in Items, from, to \in Warehouses, q \in Quantities \cup {0} :
       Transfer(p, i, from, to, q)
  \/ \E k \in Keys, q \in Quantities, d \in Docs : RecordPurchase(p, k, q, d)
  \/ \E k \in Keys, q \in Quantities, d \in Docs : IssueStock(p, k, q, d)
  \/ \E d \in Docs : DeleteDoc(p, d)

\* The backend carries the request on.
Serve(p) ==
  \/ \E c \in Prices : ReadStock(p, c)
  \/ ReadLevel(p)
  \/ WriteLevel(p)
  \/ PostMovement(p)
  \/ PostPurchase(p)
  \/ PostIssue(p)
  \/ PostReversal(p)
  \/ MarkDeleted(p)

Next ==
  \/ \E i \in Items, w \in Warehouses, q \in Quantities \cup {0}, c \in Prices :
       CreateItem(i, w, q, c)
  \/ \E p \in Procs : Arrive(p) \/ Serve(p) \/ Rollback(p)

Spec == Init /\ [][Next]_vars

(***************************************************************************)
(* Fairness.  The server goes on with what it can do; PostgreSQL queues    *)
(* the transactions that wait for a row lock, so none is overtaken for     *)
(* ever; and it ends a transaction of a set that waits in a circle.        *)
(***************************************************************************)
Waits(p, S) == req[p].pc = "write" /\ \E q \in S \ {p} : Wrote(q, Line1(p).key)

InDeadlock(p) == \E S \in SUBSET Procs : p \in S /\ \A q \in S : Waits(q, S)

BreakDeadlock(p) == InDeadlock(p) /\ Rollback(p)

FairSpec ==
  /\ Spec
  /\ \A p \in Procs : /\ WF_vars(Serve(p))
                      /\ SF_vars(WriteLevel(p))
                      /\ WF_vars(BreakDeadlock(p))

-----------------------------------------------------------------------------
(***************************************************************************)
(* Properties that hold however the requests interleave.                   *)
(***************************************************************************)

\* Stock never goes negative, on the shelf or in an uncommitted write
\* (the check of applyStockDelta, which reads before it locks).
StockNeverNegative ==
  /\ \A k \in Keys : level[k] >= 0
  /\ \A p \in Procs, k \in Keys : Wrote(p, k) => req[p].rows[k].balance >= 0

\* At most one transaction at a time has written a given StockLevel row, and
\* the row always shows the balanceAfter of the newest ledger row of its key.
BalanceAfterIsCurrent ==
  /\ \A p, q \in Procs, k \in Keys : Wrote(p, k) /\ Wrote(q, k) => p = q
  /\ \A k \in Keys : level[k] = ledger[k].last

\* The requests that are undoing a Purchase or Consumption.
Undoing(d) == {p \in Procs : req[p].op = "undo" /\ req[p].ref = d}

\* A Purchase or Consumption is put back by as many REVERSAL rows as there were
\* undos of it in flight together, and by none that comes later: the code reads
\* the row outside the transaction and marks it whatever has become of it, so
\* the mark keeps out only those who read it after the first commit.
ReversedByOverlapOnly ==
  \A d \in Docs : doc[d] # Null =>
    doc[d].reversals + Cardinality(Undoing(d)) <= Cardinality(Procs)

\* The difference between the running balance and the ledger.
Drift(k) == level[k] - ledger[k].sum

\* p is about to overwrite a balance that is no longer the one it read.
Stale(p, k) == Wrote(p, k) /\ req[p].rows[k].balance - req[p].rows[k].delta # level[k]

\* The running balance and the ledger can only be driven apart by the commit
\* of a transaction whose read of that row was overtaken by another commit;
\* nothing else in the engine (rollbacks, transfers, reversals) does it.
DriftOnlyFromStaleWrite ==
  [][\A k \in Keys : Drift(k)' # Drift(k) => \E p \in Procs : Stale(p, k) /\ req[p].pc = "post"]_vars

\* The weighted-average cost of an item stays between the lowest and the
\* highest price anybody ever named, whatever balances it was computed from.
CostWithinPrices ==
  \A i \in Items : item[i] # "absent" => unitCost[i] \in Min(Prices)..Max(Prices)

\* Every request is answered: nobody waits for ever for a row lock.
EveryRequestEnds ==
  \A p \in Procs : req[p].pc # "idle" ~> req[p].pc = "idle"

-----------------------------------------------------------------------------
(***************************************************************************)
(* Properties the code's comments state.  They hold as long as one request *)
(* is in flight at a time (Procs a singleton) and not in general.          *)
(***************************************************************************)

\* "so the ledger (StockTransaction) and the running balance never drift
\* apart" (inventory.service.ts:597-598).
LedgerNeverDrifts == \A k \in Keys : Drift(k) = 0

\* A deleted Purchase or Consumption has one reversing row.
ReversedOnce == \A d \in Docs : doc[d] # Null => doc[d].reversals <= 1

-----------------------------------------------------------------------------
(***************************************************************************)
(* The inductive invariants behind these properties (InventoryProofs).     *)
(***************************************************************************)

\* A Purchase or Consumption is marked deleted exactly when a REVERSAL row for
\* it has been committed.
DeletedIffReversed ==
  \A d \in Docs : doc[d] # Null => (doc[d].deleted <=> doc[d].reversals > 0)

\* What a request remembers at each point of its way through the engine.
RequestOK(p) ==
  LET r == req[p] IN
  /\ r.pc \in {"cost", "read", "write"} => r.at \in DOMAIN r.lines
  /\ r.pc = "cost" => r.op = "purchase"
  /\ r.pc = "write" => r.balance >= 0
  /\ r.pc = "mark" => r.ref \in Items
  /\ r.op \in {"purchase", "issue", "undo"} => r.ref \in Docs /\ 1 \in DOMAIN r.lines
  /\ r.op = "purchase" => r.lines[1].delta > 0
  /\ r.op = "issue" => r.lines[1].delta <= 0
  /\ r.op = "undo" => doc[r.ref] # Null

\* An item that does not exist yet has no stock, no ledger and no request.
AbsentUntouched ==
  \A k \in Keys : item[k[1]] = "absent" =>
    /\ level[k] = 0
    /\ ledger[k].sum = 0
    /\ \A p \in Procs : /\ ~Wrote(p, k)
                        /\ \A n \in DOMAIN req[p].lines : req[p].lines[n].key # k
    /\ \A d \in Docs : doc[d] # Null => doc[d].key # k

IInv ==
  /\ TypeOK
  /\ \A p \in Procs : RequestOK(p)
  /\ StockNeverNegative
  /\ BalanceAfterIsCurrent
  /\ DeletedIffReversed
  /\ AbsentUntouched

\* The average cost of an item, and the one a purchase in flight will give it,
\* are within the prices; an item is only deleted after it was created.
CostInv ==
  /\ CostWithinPrices
  /\ \A p \in Procs : /\ req[p].op = "purchase" => newCost[p] \in Min(Prices)..Max(Prices)
                      /\ req[p].pc = "mark" => item[req[p].ref] # "absent"

\* With one request in flight: its lines concern different keys, the rows it
\* has written are among the lines behind it, and what it has read is current.
Undisturbed(p) ==
  LET r == req[p] IN
  /\ \A m, n \in DOMAIN r.lines : r.lines[m].key = r.lines[n].key => m = n
  /\ \A k \in Keys : Wrote(p, k) =>
       /\ \E n \in DOMAIN r.lines : n < r.at /\ r.lines[n].key = k
       /\ ~Stale(p, k)
  /\ r.pc = "write" => r.balance = Balance(p)
  /\ r.op = "undo" => ~doc[r.ref].deleted

SerialInv ==
  /\ LedgerNeverDrifts
  /\ ReversedOnce
  /\ \A p \in Procs : Undisturbed(p)

\* With one request in flight: its lines are what the client asked for, of the
\* stock and of the document as they still are, ...
Asked(op, lines, ref) ==
  LET line == lines[1] IN
  /\ op \in {"move", "adjust", "purchase", "issue", "undo"} => DOMAIN lines = {1}
  /\ op = "transfer" => DOMAIN lines = {1, 2}
  /\ op = "move" => \E q \in Quantities, s \in {-1, 0, 1} : line.delta = s * q
  /\ op = "adjust" => \E c \in Counts : line.delta = c - level[line.key]
  /\ op = "transfer" => \E q \in Quantities \cup {0} : line.delta = -q /\ lines[2].delta = q
  /\ op = "purchase" => line.delta \in Quantities /\ doc[ref] = Null
  /\ op = "issue" => -line.delta \in Quantities /\ doc[ref] = Null
  /\ op = "undo" => line.key = doc[ref].key /\ line.delta = Reversal(doc[ref])

\* ... and the lines it has come past are written, in the end all of them.
Written(p) ==
  LET r == req[p] IN
  /\ \A n \in DOMAIN r.lines : n < r.at =>
       Wrote(p, r.lines[n].key) /\ r.rows[r.lines[n].key].delta = r.lines[n].delta
  /\ r.pc = "post" => \A n \in DOMAIN r.lines : n < r.at

AskedInv == \A p \in Procs : Asked(req[p].op, req[p].lines, req[p].ref) /\ Written(p)

-----------------------------------------------------------------------------
(***************************************************************************)
(* What the ledger says is on hand behaves as StockLedger promises.        *)
(***************************************************************************)
Ledger == INSTANCE StockLedger WITH onHand <- [k \in Keys |-> ledger[k].sum]

\* With one request in flight at a time the engine implements StockLedger:
\* reading, locking, writing and committing amount to one indivisible movement.
ImplementsStockLedger == Ledger!Spec

=============================================================================
