--------------------------- MODULE InventoryProofs ---------------------------
(***************************************************************************)
(* Proofs about Inventory, for any number of items, warehouses, documents  *)
(* and requests in flight.                                                 *)
(***************************************************************************)
EXTENDS Inventory, SetProofs

USE ConstantsAssumption

-----------------------------------------------------------------------------
(***************************************************************************)
(* Facts about the records a request is made of.                           *)
(***************************************************************************)

\* The idle request, what begins from it and what it leaves behind.
LEMMA IdleFacts ==
  /\ Idle \in Request
  /\ \A k \in Keys : Idle.rows[k] = NoRow
  /\ NoRow \in Row
  BY DEF Idle, Request, NoRows, NoRow, Row, Ops

LEMMA InitInv == Init => IInv
  <1> SUFFICES ASSUME Init PROVE IInv
    OBVIOUS
  <1> USE IdleFacts
  <1>1. TypeOK
    BY DEF Init, TypeOK
  <1>2. \A p \in Procs : RequestOK(p)
    BY DEF Init, RequestOK, Idle
  <1>3. \A p \in Procs, k \in Keys : ~Wrote(p, k)
    BY DEF Init, Wrote
  <1>4. StockNeverNegative /\ BalanceAfterIsCurrent
    BY <1>3 DEF Init, StockNeverNegative, BalanceAfterIsCurrent
  <1>5. DeletedIffReversed
    BY DEF Init, DeletedIffReversed
  <1>6. AbsentUntouched
    BY <1>3 DEF Init, AbsentUntouched, Idle
  <1> QED
    BY <1>1, <1>2, <1>4, <1>5, <1>6 DEF IInv

-----------------------------------------------------------------------------
(***************************************************************************)
(* A step that only begins a request.                                      *)
(***************************************************************************)
LEMMA BeginInv ==
  ASSUME IInv, NEW p \in Procs, NEW op \in Ops, NEW pc \in {"cost", "read", "mark"},
         NEW lines \in Seq(Line), NEW ref \in Docs \cup Items \cup {Null},
         Begin(p, op, pc, lines, ref), UNCHANGED dbVars, DOMAIN newCost' = Procs,
         pc \in {"cost", "read"} => 1 \in DOMAIN lines,
         pc = "cost" => op = "purchase",
         pc = "mark" => ref \in Items,
         op \in {"purchase", "issue", "undo"} => ref \in Docs /\ 1 \in DOMAIN lines,
         op = "purchase" => lines[1].delta > 0,
         op = "issue" => lines[1].delta <= 0,
         op = "undo" => doc[ref] # Null,
         \A n \in DOMAIN lines : item[lines[n].key[1]] # "absent"
  PROVE  IInv'
  <1> DEFINE new == [Idle EXCEPT !.pc = pc, !.op = op, !.lines = lines, !.ref = ref]
  <1>1. req' = [req EXCEPT ![p] = new] /\ new \in Request /\ new.rows = NoRows
    BY IdleFacts DEF Begin, Idle, Request
  <1>1a. new.pc = pc /\ new.op = op /\ new.lines = lines /\ new.ref = ref /\ new.at = 1
    BY DEF Idle
  <1> HIDE DEF new
  <1>2. TypeOK'
    BY <1>1 DEF IInv, TypeOK, dbVars
  <1>3. /\ req'[p] = new
        /\ \A q \in Procs \ {p} : req'[q] = req[q]
    BY <1>1 DEF IInv, TypeOK
  <1>4. \A q \in Procs : RequestOK(q)'
    <2> SUFFICES ASSUME NEW q \in Procs PROVE RequestOK(q)'
      OBVIOUS
    <2>1. CASE q = p
      BY <2>1, <1>1a, <1>3 DEF RequestOK, dbVars
    <2>2. CASE q # p
      BY <2>2, <1>3 DEF IInv, RequestOK, dbVars
    <2> QED
      BY <2>1, <2>2
  <1>5. \A q \in Procs, k \in Keys : Wrote(q, k)' => q # p /\ Wrote(q, k)
    BY <1>1, <1>3 DEF Wrote, NoRows
  <1>6. StockNeverNegative' /\ BalanceAfterIsCurrent' /\ DeletedIffReversed'
    BY <1>3, <1>5 DEF IInv, StockNeverNegative, BalanceAfterIsCurrent, DeletedIffReversed, dbVars
  <1>7. AbsentUntouched'
    BY <1>1a, <1>3, <1>5 DEF IInv, AbsentUntouched, dbVars
  <1> QED
    BY <1>2, <1>4, <1>6, <1>7 DEF IInv
-----------------------------------------------------------------------------
(***************************************************************************)
(* Every way a request can arrive is such a step.                          *)
(***************************************************************************)
LEMMA OneLineInv ==
  ASSUME IInv, NEW p \in Procs, NEW op \in Ops, NEW k \in Keys, NEW delta \in Int,
         NEW pc \in {"cost", "read"}, pc = "cost" => op = "purchase",
         NEW ref \in Docs \cup Items \cup {Null},
         Begin(p, op, pc, <<[key |-> k, delta |-> delta]>>, ref),
         UNCHANGED dbVars, DOMAIN newCost' = Procs,
         op \in {"purchase", "issue", "undo"} => ref \in Docs,
         op = "purchase" => delta > 0,
         op = "issue" => delta <= 0,
         op = "undo" => doc[ref] # Null,
         item[k[1]] # "absent"
  PROVE  IInv'
  <1> DEFINE lines == <<[key |-> k, delta |-> delta]>>
  <1>1. lines \in Seq(Line) /\ DOMAIN lines = {1} /\ lines[1].key = k /\ lines[1].delta = delta
    BY DEF Line
  <1>2. Begin(p, op, pc, lines, ref)
    OBVIOUS
  <1> HIDE DEF lines
  <1> QED
    BY <1>1, <1>2, BeginInv

LEMMA ArriveInv ==
  ASSUME IInv, NEW p \in Procs, Arrive(p)
  PROVE  IInv'
  <1>0. DOMAIN newCost = Procs /\ TypeOK
    BY DEF IInv, TypeOK
  <1>1. ASSUME NEW i \in Items, DeleteItem(p, i) PROVE IInv'
    <2>1. <<>> \in Seq(Line) /\ DOMAIN <<>> = {}
      OBVIOUS
    <2>2. Begin(p, "delete", "mark", <<>>, i) /\ UNCHANGED <<dbVars, newCost>>
      BY <1>1 DEF DeleteItem
    <2> QED
      BY <1>0, <2>1, <2>2, BeginInv DEF Ops
  <1>2. ASSUME NEW k \in Keys, NEW q \in Quantities, NEW s \in {-1, 0, 1},
               RecordTransaction(p, k, s * q)
        PROVE  IInv'
    <2>1. s * q \in Int
      OBVIOUS
    <2> QED
      BY <1>0, <1>2, <2>1, OneLineInv DEF RecordTransaction, Ops
  <1>3. ASSUME NEW k \in Keys, NEW c \in Counts, AdjustStock(p, k, c) PROVE IInv'
    <2>1. c - level[k] \in Int
      BY <1>0 DEF TypeOK
    <2> QED
      BY <1>0, <1>3, <2>1, OneLineInv DEF AdjustStock, Ops
  <1>4. ASSUME NEW i \in Items, NEW from \in Warehouses, NEW to \in Warehouses,
               NEW q \in Quantities \cup {0}, Transfer(p, i, from, to, q)
        PROVE  IInv'
    <2> DEFINE lines == <<[key |-> <<i, from>>, delta |-> -q], [key |-> <<i, to>>, delta |-> q]>>
    <2>1. lines \in Seq(Line) /\ DOMAIN lines = 1..2
      BY DEF Line, Keys
    <2>2. \A n \in DOMAIN lines : item[lines[n].key[1]] # "absent"
      BY <1>4 DEF Transfer
    <2>3. Begin(p, "transfer", "read", lines, Null) /\ UNCHANGED <<dbVars, newCost>>
      BY <1>4 DEF Transfer
    <2> HIDE DEF lines
    <2> QED
      BY <1>0, <2>1, <2>2, <2>3, BeginInv DEF Ops
  <1>5. ASSUME NEW k \in Keys, NEW q \in Quantities, NEW d \in Docs, RecordPurchase(p, k, q, d)
        PROVE  IInv'
    <2>1. DOMAIN newCost' = Procs
      BY <1>0, <1>5 DEF RecordPurchase
    <2>2. /\ item[k[1]] = "live"
          /\ Begin(p, "purchase", "cost", <<[key |-> k, delta |-> q]>>, d)
          /\ UNCHANGED dbVars
      BY <1>5 DEF RecordPurchase
    <2>3. PICK n \in Int : n = q /\ n > 0
      OBVIOUS
    <2>4. Begin(p, "purchase", "cost", <<[key |-> k, delta |-> n]>>, d)
      BY <2>2, <2>3
    <2> QED
      BY <2>1, <2>2, <2>3, <2>4, OneLineInv DEF Ops
  <1>6. ASSUME NEW k \in Keys, NEW q \in Quantities, NEW d \in Docs, IssueStock(p, k, q, d)
        PROVE  IInv'
    BY <1>0, <1>6, OneLineInv DEF IssueStock, Ops
  <1>7. ASSUME NEW d \in Docs, DeleteDoc(p, d) PROVE IInv'
    <2>1. doc[d] \in DocRow
      BY <1>0, <1>7 DEF DeleteDoc, TypeOK
    <2>2. Reversal(doc[d]) \in Int /\ doc[d].key \in Keys
      BY <2>1 DEF DocRow, Reversal
    <2>3. item[doc[d].key[1]] # "absent"
      BY <1>7, <2>2 DEF DeleteDoc, IInv, AbsentUntouched
    <2> QED
      BY <1>0, <1>7, <2>2, <2>3, OneLineInv DEF DeleteDoc, Ops
  <1> QED
    BY <1>1, <1>2, <1>3, <1>4, <1>5, <1>6, <1>7 DEF Arrive

-----------------------------------------------------------------------------
(***************************************************************************)
(* A request ends without having changed the database.                     *)
(***************************************************************************)

\* What End does to the requests, whatever else the step does.
LEMMA EndFacts ==
  ASSUME TypeOK, NEW p \in Procs, End(p)
  PROVE  /\ req' \in [Procs -> Request]
         /\ DOMAIN newCost' = Procs
         /\ req'[p] = Idle
         /\ \A q \in Procs \ {p} : req'[q] = req[q]
         /\ \A q \in Procs, k \in Keys : Wrote(q, k)' => q # p /\ Wrote(q, k)
  <1>1. /\ req' \in [Procs -> Request]
        /\ DOMAIN newCost' = Procs
        /\ req'[p] = Idle
        /\ \A q \in Procs \ {p} : req'[q] = req[q]
    BY IdleFacts DEF End, TypeOK
  <1>2. \A q \in Procs, k \in Keys : Wrote(q, k)' => q # p /\ Wrote(q, k)
    BY <1>1, IdleFacts DEF Wrote
  <1> QED
    BY <1>1, <1>2

LEMMA EndInv ==
  ASSUME IInv, NEW p \in Procs, End(p), UNCHANGED dbVars
  PROVE  IInv'
  <1>1. TypeOK
    BY DEF IInv
  <1>2. TypeOK'
    BY <1>1, EndFacts DEF TypeOK, dbVars
  <1>3. \A q \in Procs : RequestOK(q)'
    BY <1>1, EndFacts DEF IInv, RequestOK, dbVars, Idle
  <1>4. StockNeverNegative' /\ BalanceAfterIsCurrent' /\ DeletedIffReversed'
    BY <1>1, EndFacts DEF IInv, StockNeverNegative, BalanceAfterIsCurrent, DeletedIffReversed, dbVars
  <1>5. AbsentUntouched'
    BY <1>1, EndFacts DEF IInv, AbsentUntouched, dbVars, Idle
  <1> QED
    BY <1>2, <1>3, <1>4, <1>5 DEF IInv
-----------------------------------------------------------------------------
(***************************************************************************)
(* A purchase reads what is on hand.                                       *)
(***************************************************************************)

\* It goes on and remembers the average; nothing else changes.
LEMMA ReadStockFacts ==
  ASSUME TypeOK, NEW p \in Procs, NEW price, ReadStock(p, price)
  PROVE  /\ req' \in [Procs -> Request]
         /\ req'[p].pc = "read" /\ req[p].pc = "cost"
         /\ \A q \in Procs : /\ req'[q].rows = req[q].rows /\ req'[q].lines = req[q].lines
                             /\ req'[q].at = req[q].at /\ req'[q].op = req[q].op
                             /\ req'[q].ref = req[q].ref /\ req'[q].balance = req[q].balance
                             /\ q # p => req'[q].pc = req[q].pc
         /\ DOMAIN newCost' = Procs
         /\ \A q \in Procs \ {p} : newCost'[q] = newCost[q]
         /\ UNCHANGED dbVars
  <1>1. req' = [req EXCEPT ![p].pc = "read"] /\ req[p].pc = "cost" /\ UNCHANGED dbVars
    BY DEF ReadStock
  <1>2. DOMAIN newCost' = Procs /\ \A q \in Procs \ {p} : newCost'[q] = newCost[q]
    BY DEF ReadStock, TypeOK
  <1>3. req \in [Procs -> Request]
    BY DEF TypeOK
  <1> QED
    BY <1>1, <1>2, <1>3 DEF Request

LEMMA ReadStockInv ==
  ASSUME IInv, NEW p \in Procs, NEW price, ReadStock(p, price)
  PROVE  IInv'
  <1>0. TypeOK
    BY DEF IInv
  <1>1. TypeOK'
    BY <1>0, ReadStockFacts DEF TypeOK, dbVars
  <1>2. \A q \in Procs : RequestOK(q)'
    <2> SUFFICES ASSUME NEW q \in Procs PROVE RequestOK(q)'
      OBVIOUS
    <2>1. RequestOK(q) /\ UNCHANGED doc
      BY <1>0, ReadStockFacts DEF IInv, dbVars
    <2>2. CASE q = p
      BY <1>0, <2>1, <2>2, ReadStockFacts DEF RequestOK
    <2>3. CASE q # p
      BY <1>0, <2>1, <2>3, ReadStockFacts DEF RequestOK
    <2> QED
      BY <2>2, <2>3
  <1>3. /\ StockNeverNegative' /\ BalanceAfterIsCurrent'
        /\ DeletedIffReversed' /\ AbsentUntouched'
    BY <1>0, ReadStockFacts DEF IInv, StockNeverNegative, BalanceAfterIsCurrent,
                                DeletedIffReversed, AbsentUntouched, Wrote, dbVars
  <1> QED
    BY <1>1, <1>2, <1>3 DEF IInv

-----------------------------------------------------------------------------
(***************************************************************************)
(* applyStockDelta.                                                        *)
(***************************************************************************)

\* What is known of the line a request is about to apply.
LEMMA LineFacts ==
  ASSUME IInv, NEW p \in Procs, req[p].pc \in {"read", "write"}
  PROVE  /\ req[p].at \in DOMAIN req[p].lines
         /\ Line1(p) \in Line
         /\ Seen(p, Line1(p).key) \in Int
         /\ Balance(p) \in Int
  <1>1. /\ req[p].at \in DOMAIN req[p].lines
        /\ req[p].lines \in Seq(Line)
    BY DEF IInv, TypeOK, Request, RequestOK
  <1>2. Line1(p) \in Line
    BY <1>1 DEF Line1
  <1>3. Seen(p, Line1(p).key) \in Int
    BY <1>2 DEF IInv, TypeOK, Request, Row, Line, Seen
  <1> QED
    BY <1>1, <1>2, <1>3 DEF Balance, Line

LEMMA ReadLevelInv ==
  ASSUME IInv, NEW p \in Procs, ReadLevel(p)
  PROVE  IInv'
  <1>1. CASE Balance(p) < 0
    <2>1. Balance(p) \in Int
      BY LineFacts DEF ReadLevel
    <2>2. End(p) /\ UNCHANGED dbVars
      BY <1>1, <2>1 DEF ReadLevel
    <2> QED
      BY <2>2, EndInv
  <1>2. CASE ~(Balance(p) < 0)
    <2> DEFINE b == Balance(p)
               new == [req[p] EXCEPT !.pc = "write", !.balance = b]
    <2>1. /\ b \in Int /\ b >= 0
          /\ req[p] \in Request
          /\ req[p].at \in DOMAIN req[p].lines
      BY <1>2, LineFacts DEF ReadLevel, IInv, TypeOK
    <2>2. /\ req' = [req EXCEPT ![p] = new]
          /\ UNCHANGED <<dbVars, newCost>>
      BY <1>2, <2>1 DEF ReadLevel
    <2> HIDE DEF b
    <2>3. /\ new \in Request
          /\ new.rows = req[p].rows /\ new.lines = req[p].lines /\ new.at = req[p].at
          /\ new.op = req[p].op /\ new.ref = req[p].ref
          /\ new.pc = "write" /\ new.balance = b
      BY <2>1 DEF Request
    <2> HIDE DEF new
    <2>4. /\ req' \in [Procs -> Request]
          /\ req'[p] = new
          /\ \A q \in Procs \ {p} : req'[q] = req[q]
      BY <2>2, <2>3 DEF IInv, TypeOK
    <2>5. TypeOK'
      BY <2>2, <2>4 DEF IInv, TypeOK, dbVars
    <2>6. \A q \in Procs : RequestOK(q)'
      <3> SUFFICES ASSUME NEW q \in Procs PROVE RequestOK(q)'
        OBVIOUS
      <3>1. RequestOK(q)
        BY DEF IInv
      <3>2. CASE q = p
        BY <2>1, <2>2, <2>3, <2>4, <3>1, <3>2 DEF RequestOK, dbVars
      <3>3. CASE q # p
        BY <2>2, <2>4, <3>1, <3>3 DEF RequestOK, dbVars
      <3> QED
        BY <3>2, <3>3
    <2>7. \A q \in Procs : req'[q].rows = req[q].rows /\ req'[q].lines = req[q].lines
      BY <2>3, <2>4
    <2>8. /\ StockNeverNegative' /\ BalanceAfterIsCurrent'
          /\ DeletedIffReversed' /\ AbsentUntouched'
      BY <2>2, <2>7 DEF IInv, StockNeverNegative, BalanceAfterIsCurrent, DeletedIffReversed,
                        AbsentUntouched, Wrote, dbVars
    <2> QED
      BY <2>5, <2>6, <2>8 DEF IInv
  <1> QED
    BY <1>1, <1>2

\* The effect of WriteLevel on the requests.
LEMMA WriteFacts ==
  ASSUME IInv, NEW p \in Procs, WriteLevel(p)
  PROVE  /\ req' \in [Procs -> Request]
         /\ \A q \in Procs \ {p} : req'[q] = req[q]
         /\ req'[p].lines = req[p].lines /\ req'[p].at = req[p].at + 1
         /\ req'[p].op = req[p].op /\ req'[p].ref = req[p].ref
         /\ req'[p].balance = req[p].balance
         /\ req'[p].pc \in {"read", "post"}
         /\ req'[p].pc = "read" => req'[p].at \in DOMAIN req'[p].lines
         /\ req'[p].rows = RowsAfter(p)
         /\ UNCHANGED <<dbVars, newCost>>
  <1> DEFINE pc == IF req[p].at = Len(req[p].lines) THEN "post" ELSE "read"
             at == req[p].at + 1
             new == [req[p] EXCEPT !.rows = RowsAfter(p), !.at = at, !.pc = pc]
  <1>1. /\ req[p] \in Request
        /\ req[p].at \in DOMAIN req[p].lines
        /\ Line1(p) \in Line
    BY LineFacts DEF WriteLevel, IInv, TypeOK
  <1>2. RowsAfter(p) \in [Keys -> Row]
    BY <1>1 DEF RowsAfter, Row, Line, Request
  <1>4. /\ at \in Nat
        /\ pc \in {"read", "post"}
        /\ pc = "read" => at \in DOMAIN req[p].lines
    BY <1>1 DEF Request
  <1>5. req' = [req EXCEPT ![p] = new] /\ UNCHANGED <<dbVars, newCost>>
    BY DEF WriteLevel
  <1>8. at = req[p].at + 1
    OBVIOUS
  <1> HIDE DEF at, pc
  <1>6. /\ new \in Request
        /\ new.rows = RowsAfter(p) /\ new.at = at /\ new.pc = pc
        /\ new.lines = req[p].lines /\ new.op = req[p].op /\ new.ref = req[p].ref
        /\ new.balance = req[p].balance
    BY <1>1, <1>2, <1>4 DEF Request
  <1> HIDE DEF new
  <1>7. /\ req' \in [Procs -> Request]
        /\ req'[p] = new
        /\ \A q \in Procs \ {p} : req'[q] = req[q]
    BY <1>5, <1>6 DEF IInv, TypeOK
  <1> QED
    BY <1>4, <1>5, <1>6, <1>7, <1>8

LEMMA WriteLevelInv ==
  ASSUME IInv, NEW p \in Procs, WriteLevel(p)
  PROVE  IInv'
  <1> DEFINE key == Line1(p).key
  <1>1. TypeOK' /\ UNCHANGED dbVars
    BY WriteFacts DEF IInv, TypeOK, dbVars
  <1>2. /\ key \in Keys
        /\ req[p] \in Request
        /\ req[p].at \in DOMAIN req[p].lines /\ key = req[p].lines[req[p].at].key
        /\ req[p].balance >= 0
    BY LineFacts DEF WriteLevel, Line, Line1, IInv, TypeOK, RequestOK
  <1>2a. req'[p].rows = RowsAfter(p)
    BY WriteFacts
  <1>2b. req[p].rows \in [Keys -> Row]
    BY <1>2 DEF Request
  <1>2c. /\ req'[p].rows[key].balance = req[p].balance
         /\ \A k \in Keys \ {key} : req'[p].rows[k] = req[p].rows[k]
    BY <1>2, <1>2a, <1>2b DEF RowsAfter
  <1>3. \A k \in Keys : Wrote(p, k)' => Wrote(p, k) \/ k = key
    BY <1>2c DEF Wrote, NoRow
  <1>4. \A q \in Procs \ {p}, k \in Keys : Wrote(q, k)' <=> Wrote(q, k)
    BY WriteFacts DEF Wrote
  <1>5. \A q \in Procs : RequestOK(q)'
    <2> SUFFICES ASSUME NEW q \in Procs PROVE RequestOK(q)'
      OBVIOUS
    <2>1. RequestOK(q)
      BY DEF IInv
    <2>2. CASE q = p
      BY <1>1, <2>1, <2>2, WriteFacts DEF RequestOK, dbVars
    <2>3. CASE q # p
      BY <1>1, <2>1, <2>3, WriteFacts DEF RequestOK, dbVars
    <2> QED
      BY <2>2, <2>3
  <1>6. StockNeverNegative'
    <2>1. ASSUME NEW q \in Procs, NEW k \in Keys, Wrote(q, k)'
          PROVE  req'[q].rows[k].balance >= 0
      <3>1. CASE q = p /\ k = key
        BY <1>2, <1>2c, <3>1
      <3>2. CASE q = p /\ k # key
        <4>1. Wrote(p, k) /\ req'[p].rows[k] = req[p].rows[k]
          BY <1>2c, <1>3, <2>1, <3>2
        <4> QED
          BY <3>2, <4>1 DEF IInv, StockNeverNegative
      <3>3. CASE q # p
        BY <1>4, <2>1, <3>3, WriteFacts DEF IInv, StockNeverNegative
      <3> QED
        BY <3>1, <3>2, <3>3
    <2> QED
      BY <1>1, <2>1 DEF IInv, StockNeverNegative, dbVars
  <1>7. BalanceAfterIsCurrent'
    <2>1. \A q \in Procs \ {p} : ~Wrote(q, key)
      BY DEF WriteLevel, Locked
    <2>2. \A q, r \in Procs, k \in Keys : Wrote(q, k)' /\ Wrote(r, k)' => q = r
      BY <1>3, <1>4, <2>1 DEF IInv, BalanceAfterIsCurrent
    <2> QED
      BY <1>1, <2>2 DEF IInv, BalanceAfterIsCurrent, dbVars
  <1>8. DeletedIffReversed'
    BY <1>1 DEF IInv, DeletedIffReversed, dbVars
  <1>9. AbsentUntouched'
    <2>1. \A q \in Procs : req'[q].lines = req[q].lines
      BY WriteFacts
    <2> QED
      BY <1>1, <1>2, <1>3, <1>4, <2>1 DEF IInv, AbsentUntouched, dbVars
  <1> QED
    BY <1>1, <1>5, <1>6, <1>7, <1>8, <1>9 DEF IInv

-----------------------------------------------------------------------------
(***************************************************************************)
(* The commits.                                                            *)
(***************************************************************************)

\* What a commit does to the balances, the ledger and the requests.
LEMMA CommitFacts ==
  ASSUME IInv, NEW p \in Procs, CommitRows(p)
  PROVE  /\ level' \in [Keys -> Int]
         /\ ledger' \in [Keys -> [sum : Int, last : Int]]
         /\ posted' \in Nat
         /\ item' = item
         /\ \A k \in Keys : level'[k] = Seen(p, k) /\ ledger'[k] = LedgerAfter(p, k)
         /\ \A k \in Keys : level'[k] >= 0 /\ level'[k] = ledger'[k].last
  <1> USE DEF IInv, TypeOK
  <1>1. req[p] \in Request
    OBVIOUS
  <1>2. \A k \in Keys : Seen(p, k) \in Int /\ LedgerAfter(p, k) \in [sum : Int, last : Int]
    BY <1>1 DEF Seen, LedgerAfter, Request, Row
  <1>3. /\ level' \in [Keys -> Int]
        /\ ledger' \in [Keys -> [sum : Int, last : Int]]
        /\ \A k \in Keys : level'[k] = Seen(p, k) /\ ledger'[k] = LedgerAfter(p, k)
        /\ item' = item
    BY <1>2 DEF CommitRows
  <1>4. posted' \in Nat
    <2>1. Len(req[p].lines) \in Nat
      BY <1>1 DEF Request
    <2> QED
      BY <2>1 DEF CommitRows
  <1>5. \A k \in Keys : level'[k] >= 0 /\ level'[k] = ledger'[k].last
    <2> SUFFICES ASSUME NEW k \in Keys PROVE level'[k] >= 0 /\ level'[k] = ledger'[k].last
      OBVIOUS
    <2>1. CASE Wrote(p, k)
      <3>1. level'[k] = req[p].rows[k].balance /\ ledger'[k].last = req[p].rows[k].balance
        BY <1>3, <2>1 DEF Seen, LedgerAfter
      <3> QED
        BY <2>1, <3>1 DEF StockNeverNegative
    <2>2. CASE ~Wrote(p, k)
      <3>1. level'[k] = level[k] /\ ledger'[k] = ledger[k]
        BY <1>3, <2>2 DEF Seen, LedgerAfter
      <3> QED
        BY <3>1 DEF StockNeverNegative, BalanceAfterIsCurrent
    <2> QED
      BY <2>1, <2>2
  <1> QED
    BY <1>3, <1>4, <1>5

\* A commit keeps the invariant if what it does to the documents is sound.
LEMMA CommitInv ==
  ASSUME IInv, NEW p \in Procs, CommitRows(p), DOMAIN unitCost' = Items,
         doc' \in [Docs -> DocRow \cup {Null}],
         \A d \in Docs : doc[d] # Null => doc'[d] # Null,
         DeletedIffReversed',
         \A d \in Docs : doc'[d] # Null => item[doc'[d].key[1]] # "absent"
  PROVE  IInv'
  <1>0. TypeOK /\ End(p)
    BY DEF IInv, CommitRows
  <1>1. TypeOK'
    BY <1>0, EndFacts, CommitFacts DEF TypeOK
  <1>2. \A q \in Procs : RequestOK(q)'
    <2> SUFFICES ASSUME NEW q \in Procs PROVE RequestOK(q)'
      OBVIOUS
    <2>1. RequestOK(q)
      BY DEF IInv
    <2>2. CASE q = p
      BY <1>0, <2>2, EndFacts DEF RequestOK, Idle
    <2>3. CASE q # p
      BY <1>0, <2>1, <2>3, EndFacts DEF RequestOK
    <2> QED
      BY <2>2, <2>3
  <1>3. StockNeverNegative'
    BY <1>0, EndFacts, CommitFacts DEF IInv, StockNeverNegative
  <1>4. BalanceAfterIsCurrent'
    BY <1>0, EndFacts, CommitFacts DEF IInv, BalanceAfterIsCurrent
  <1>5. AbsentUntouched'
    <2> SUFFICES ASSUME NEW k \in Keys, item[k[1]] = "absent"
                 PROVE  /\ level'[k] = 0
                        /\ ledger'[k].sum = 0
                        /\ \A q \in Procs :
                             /\ ~Wrote(q, k)'
                             /\ \A n \in DOMAIN req'[q].lines : req'[q].lines[n].key # k
                        /\ \A d \in Docs : doc'[d] # Null => doc'[d].key # k
      BY CommitFacts DEF AbsentUntouched
    <2>1. ~Wrote(p, k)
      BY DEF IInv, AbsentUntouched
    <2>2. level'[k] = 0 /\ ledger'[k].sum = 0
      BY <2>1, CommitFacts DEF IInv, AbsentUntouched, Seen, LedgerAfter
    <2>3. \A q \in Procs : /\ ~Wrote(q, k)'
                           /\ \A n \in DOMAIN req'[q].lines : req'[q].lines[n].key # k
      BY <1>0, EndFacts DEF IInv, AbsentUntouched, Idle
    <2> QED
      BY <2>2, <2>3
  <1> QED
    BY <1>1, <1>2, <1>3, <1>4, <1>5 DEF IInv

LEMMA PostMovementInv ==
  ASSUME IInv, NEW p \in Procs, PostMovement(p)
  PROVE  IInv'
  <1>1. CommitRows(p) /\ UNCHANGED <<unitCost, doc>>
    BY DEF PostMovement
  <1>2. DeletedIffReversed'
    BY <1>1 DEF IInv, DeletedIffReversed
  <1>3. /\ DOMAIN unitCost' = Items
        /\ doc' \in [Docs -> DocRow \cup {Null}]
        /\ \A d \in Docs : doc'[d] # Null => item[doc'[d].key[1]] # "absent"
    <2>1. \A d \in Docs : doc[d] # Null => doc[d].key \in Keys
      BY DEF IInv, TypeOK, DocRow
    <2> QED
      BY <1>1, <2>1 DEF IInv, TypeOK, AbsentUntouched
  <1> QED
    BY <1>1, <1>2, <1>3, CommitInv

\* A request about a document names a row that may exist and an existing item.
LEMMA DocRequest ==
  ASSUME IInv, NEW p \in Procs, req[p].op \in {"purchase", "issue", "undo"}
  PROVE  /\ req[p].ref \in Docs
         /\ req[p].lines[1].key \in Keys
         /\ req[p].lines[1].delta \in Int
         /\ item[req[p].lines[1].key[1]] # "absent"
         /\ req[p].op = "undo" => doc[req[p].ref] \in DocRow
  <1>1. req[p] \in Request /\ RequestOK(p) /\ doc \in [Docs -> DocRow \cup {Null}]
    BY DEF IInv, TypeOK
  <1>2. req[p].ref \in Docs /\ 1 \in DOMAIN req[p].lines
    BY <1>1 DEF RequestOK
  <1>3. req[p].lines[1] \in Line
    BY <1>1, <1>2 DEF Request
  <1>4. item[req[p].lines[1].key[1]] # "absent"
    BY <1>2, <1>3 DEF IInv, AbsentUntouched, Line
  <1>5. req[p].op = "undo" => doc[req[p].ref] \in DocRow
    BY <1>1, <1>2 DEF RequestOK
  <1> QED
    BY <1>2, <1>3, <1>4, <1>5 DEF Line

\* A new Purchase or Consumption row, for an item that exists.
LEMMA NewDocInv ==
  ASSUME IInv, NEW p \in Procs, CommitRows(p), req[p].op \in {"purchase", "issue"},
         NEW kind \in {"purchase", "consumption"}, NEW qty \in Nat,
         NewDoc(p, kind, qty), DOMAIN unitCost' = Items
  PROVE  IInv'
  <1> DEFINE d0 == req[p].ref
             row == [kind |-> kind, key |-> req[p].lines[1].key, qty |-> qty,
                     deleted |-> FALSE, reversals |-> 0]
  <1>1. /\ d0 \in Docs
        /\ req[p].lines[1].key \in Keys
        /\ item[req[p].lines[1].key[1]] # "absent"
    <2>1. req[p].op \in {"purchase", "issue", "undo"}
      OBVIOUS
    <2> QED
      BY <2>1, DocRequest
  <1>2. row \in DocRow /\ row # Null
    <2>1. row \in DocRow
      BY <1>1, Zenon DEF DocRow
    <2> QED
      BY <2>1
  <1>3. row.deleted = FALSE /\ row.reversals = 0 /\ row.key = req[p].lines[1].key
    OBVIOUS
  <1>4. doc' = [doc EXCEPT ![d0] = row]
    BY DEF NewDoc
  <1> HIDE DEF row, d0
  <1>5. /\ doc' \in [Docs -> DocRow \cup {Null}]
        /\ doc'[d0] = row
        /\ \A d \in Docs \ {d0} : doc'[d] = doc[d]
    BY <1>1, <1>2, <1>4 DEF IInv, TypeOK
  <1>6. DeletedIffReversed'
    BY <1>3, <1>5 DEF IInv, DeletedIffReversed
  <1>7. \A d \in Docs : doc'[d] # Null => item[doc'[d].key[1]] # "absent"
    <2>1. \A d \in Docs : doc[d] # Null => doc[d].key \in Keys
      BY DEF IInv, TypeOK, DocRow
    <2> QED
      BY <1>1, <1>3, <1>5, <2>1 DEF IInv, AbsentUntouched
  <1>8. \A d \in Docs : doc[d] # Null => doc'[d] # Null
    BY <1>2, <1>5
  <1> QED
    BY <1>5, <1>6, <1>7, <1>8, CommitInv

LEMMA PostPurchaseInv ==
  ASSUME IInv, NEW p \in Procs, PostPurchase(p)
  PROVE  IInv'
  <1>1. req[p].lines[1].delta \in Nat
    BY DocRequest DEF PostPurchase, IInv, RequestOK
  <1>2. DOMAIN unitCost' = Items
    BY DEF PostPurchase, IInv, TypeOK
  <1> QED
    BY <1>1, <1>2, NewDocInv DEF PostPurchase

LEMMA PostIssueInv ==
  ASSUME IInv, NEW p \in Procs, PostIssue(p)
  PROVE  IInv'
  <1>1. -req[p].lines[1].delta \in Nat
    BY DocRequest DEF PostIssue, IInv, RequestOK
  <1>2. DOMAIN unitCost' = Items
    BY DEF PostIssue, IInv, TypeOK
  <1> QED
    BY <1>1, <1>2, NewDocInv DEF PostIssue

LEMMA PostReversalInv ==
  ASSUME IInv, NEW p \in Procs, PostReversal(p)
  PROVE  IInv'
  <1> DEFINE d0 == req[p].ref
             row == Reversed(doc[d0])
  <1>1. CommitRows(p) /\ doc' = [doc EXCEPT ![d0] = row] /\ UNCHANGED unitCost
    BY DEF PostReversal
  <1>2. d0 \in Docs /\ doc[d0] \in DocRow
    BY DocRequest DEF PostReversal
  <1>3. /\ row \in DocRow
        /\ row.key = doc[d0].key /\ row.deleted = TRUE /\ row.reversals > 0
    <2> SUFFICES ASSUME NEW r \in DocRow
                 PROVE  /\ Reversed(r) \in DocRow
                        /\ Reversed(r).key = r.key
                        /\ Reversed(r).deleted = TRUE
                        /\ Reversed(r).reversals > 0
      BY <1>2
    <2>1. r.reversals + 1 \in Nat /\ r.reversals + 1 > 0
      BY DEF DocRow
    <2> QED
      BY <2>1 DEF DocRow, Reversed
  <1> HIDE DEF row, d0
  <1>4. /\ doc' \in [Docs -> DocRow \cup {Null}]
        /\ doc'[d0] = row
        /\ \A d \in Docs \ {d0} : doc'[d] = doc[d]
    BY <1>1, <1>2, <1>3 DEF IInv, TypeOK
  <1>5. DeletedIffReversed'
    BY <1>3, <1>4 DEF IInv, DeletedIffReversed
  <1>6. \A d \in Docs : doc'[d] # Null => item[doc'[d].key[1]] # "absent"
    <2>1. \A d \in Docs : doc[d] # Null => doc[d].key \in Keys
      BY DEF IInv, TypeOK, DocRow
    <2>2. doc[d0] # Null
      BY <1>2
    <2> QED
      BY <1>2, <1>3, <1>4, <2>1, <2>2 DEF IInv, AbsentUntouched
  <1>7. \A d \in Docs : doc[d] # Null => doc'[d] # Null
    BY <1>3, <1>4
  <1>8. DOMAIN unitCost' = Items
    BY <1>1 DEF IInv, TypeOK
  <1> QED
    BY <1>1, <1>4, <1>5, <1>6, <1>7, <1>8, CommitInv

-----------------------------------------------------------------------------
(***************************************************************************)
(* Items.                                                                  *)
(***************************************************************************)
LEMMA CreateItemInv ==
  ASSUME IInv, NEW i \in Items, NEW w \in Warehouses, NEW opening \in Nat, NEW price,
         CreateItem(i, w, opening, price)
  PROVE  IInv'
  <1>1. <<i, w>> \in Keys /\ item[i] = "absent" /\ item' = [item EXCEPT ![i] = "live"]
    BY DEF CreateItem, Keys
  <1>2. UNCHANGED <<doc, req, newCost>>
    BY DEF CreateItem
  <1>3. TypeOK'
    <2>1. item' \in [Items -> {"absent", "live", "deleted"}] /\ DOMAIN unitCost' = Items
      BY <1>1 DEF CreateItem, IInv, TypeOK
    <2>2. /\ level' \in [Keys -> Int]
          /\ ledger' \in [Keys -> [sum : Int, last : Int]]
          /\ posted' \in Nat
      <3>1. CASE opening > 0
        <4>1. /\ level' = [level EXCEPT ![<<i, w>>] = opening]
              /\ ledger' = [ledger EXCEPT ![<<i, w>>] = [sum |-> opening, last |-> opening]]
              /\ posted' = posted + 1
          BY <3>1 DEF CreateItem
        <4>2. [sum |-> opening, last |-> opening] \in [sum : Int, last : Int]
          OBVIOUS
        <4>3. posted' \in Nat
          BY <4>1 DEF IInv, TypeOK
        <4>5. level' \in [Keys -> Int]
          <5>1. opening \in Int
            OBVIOUS
          <5> QED
            BY <1>1, <4>1, <5>1, Zenon DEF IInv, TypeOK
        <4>4. ledger' \in [Keys -> [sum : Int, last : Int]]
          BY <1>1, <4>1, <4>2, Zenon DEF IInv, TypeOK
        <4> QED
          BY <4>3, <4>4, <4>5
      <3>2. CASE ~(opening > 0)
        BY <3>2 DEF CreateItem, IInv, TypeOK
      <3> QED
        BY <3>1, <3>2
    <2> QED
      BY <1>2, <2>1, <2>2 DEF IInv, TypeOK
  <1>4. \A q \in Procs : RequestOK(q)'
    BY <1>2 DEF IInv, RequestOK
  <1>5. \A q \in Procs, k \in Keys : Wrote(q, k)' <=> Wrote(q, k)
    BY <1>2 DEF Wrote
  <1>6. /\ \A k \in Keys : k # <<i, w>> => level'[k] = level[k] /\ ledger'[k] = ledger[k]
        /\ level'[<<i, w>>] >= 0 /\ level'[<<i, w>>] = ledger'[<<i, w>>].last
    BY <1>1 DEF CreateItem, IInv, TypeOK, StockNeverNegative, BalanceAfterIsCurrent
  <1>7. StockNeverNegative' /\ BalanceAfterIsCurrent' /\ DeletedIffReversed'
    BY <1>2, <1>5, <1>6 DEF IInv, StockNeverNegative, BalanceAfterIsCurrent, DeletedIffReversed
  <1>8. AbsentUntouched'
    <2> SUFFICES ASSUME NEW k \in Keys, item'[k[1]] = "absent"
                 PROVE  /\ k # <<i, w>>
                        /\ item[k[1]] = "absent"
      BY <1>2, <1>5, <1>6 DEF IInv, AbsentUntouched
    <2>1. k[1] \in Items
      BY DEF Keys
    <2> QED
      BY <1>1, <2>1 DEF IInv, TypeOK
  <1> QED
    BY <1>3, <1>4, <1>7, <1>8 DEF IInv

LEMMA MarkDeletedInv ==
  ASSUME IInv, NEW p \in Procs, MarkDeleted(p)
  PROVE  IInv'
  <1>1. /\ TypeOK /\ End(p) /\ UNCHANGED <<unitCost, level, ledger, posted, doc>>
        /\ item' = [item EXCEPT ![req[p].ref] = "deleted"]
    BY DEF MarkDeleted, IInv
  <1>2. TypeOK'
    BY <1>1, EndFacts DEF TypeOK
  <1>3. \A q \in Procs : RequestOK(q)'
    BY <1>1, EndFacts DEF IInv, RequestOK, Idle
  <1>4. StockNeverNegative' /\ BalanceAfterIsCurrent' /\ DeletedIffReversed'
    BY <1>1, EndFacts DEF IInv, StockNeverNegative, BalanceAfterIsCurrent, DeletedIffReversed
  <1>5. AbsentUntouched'
    <2>1. \A k \in Keys : item'[k[1]] = "absent" => item[k[1]] = "absent"
      BY <1>1 DEF TypeOK, Keys
    <2> QED
      BY <1>1, <2>1, EndFacts DEF IInv, AbsentUntouched, Idle
  <1> QED
    BY <1>2, <1>3, <1>4, <1>5 DEF IInv
-----------------------------------------------------------------------------
(***************************************************************************)
(* The invariant of the engine.                                            *)
(***************************************************************************)
LEMMA NextInv == IInv /\ [Next]_vars => IInv'
  <1> SUFFICES ASSUME IInv, [Next]_vars PROVE IInv'
    OBVIOUS
  <1>1. ASSUME NEW i \in Items, NEW w \in Warehouses, NEW q \in Quantities \cup {0},
               NEW c \in Prices, CreateItem(i, w, q, c)
        PROVE  IInv'
    <2>1. q \in Nat
      OBVIOUS
    <2> QED
      BY <1>1, <2>1, CreateItemInv
  <1>2. ASSUME NEW p \in Procs, Arrive(p) PROVE IInv'
    BY <1>2, ArriveInv
  <1>3. ASSUME NEW p \in Procs, Serve(p) PROVE IInv'
    BY <1>3, ReadStockInv, ReadLevelInv, WriteLevelInv, PostMovementInv, PostPurchaseInv, PostIssueInv,
       PostReversalInv, MarkDeletedInv DEF Serve
  <1>4. ASSUME NEW p \in Procs, Rollback(p) PROVE IInv'
    BY <1>4, EndInv DEF Rollback
  <1>5. CASE UNCHANGED vars
    <2>1. UNCHANGED <<dbVars, req, newCost>>
      BY <1>5 DEF vars
    <2> QED
      BY <2>1 DEF IInv, TypeOK, RequestOK, StockNeverNegative, BalanceAfterIsCurrent,
                  DeletedIffReversed, AbsentUntouched, Wrote, dbVars
  <1> QED
    BY <1>1, <1>2, <1>3, <1>4, <1>5 DEF Next

THEOREM EngineInvariant == Spec => []IInv
  BY InitInv, NextInv, PTL DEF Spec

\* Every variable keeps the shape of the table or request it stands for,
\* however many requests interleave.
THEOREM TypeCorrect == Spec => []TypeOK
  <1>1. IInv => TypeOK
    BY DEF IInv
  <1> QED
    BY <1>1, EngineInvariant, PTL

\* No interleaving of requests, rollbacks and crashes takes a balance below
\* zero: the check of applyStockDelta needs no lock for this.
THEOREM NeverNegative == Spec => []StockNeverNegative
  <1>1. IInv => StockNeverNegative
    BY DEF IInv
  <1> QED
    BY <1>1, EngineInvariant, PTL

\* The on-hand figure always is the balanceAfter of the newest ledger row of
\* its key, and no two transactions have written the same key.
THEOREM BalanceCurrent == Spec => []BalanceAfterIsCurrent
  <1>1. IInv => BalanceAfterIsCurrent
    BY DEF IInv
  <1> QED
    BY <1>1, EngineInvariant, PTL

-----------------------------------------------------------------------------
(***************************************************************************)
(* How often a document is put back.                                       *)
(***************************************************************************)

\* The undos in flight are some of the requests.
LEMMA UndoingFacts ==
  ASSUME NEW d
  PROVE  /\ IsFiniteSet(Undoing(d)) /\ Cardinality(Undoing(d)) \in Nat
         /\ Cardinality(Procs) \in Nat /\ Cardinality(Undoing(d)) <= Cardinality(Procs)
  <1>1. IsFiniteSet(Procs) /\ Undoing(d) \in SUBSET Procs
    BY ConstantsAssumption DEF Undoing
  <1> QED
    BY <1>1, FS_Subset, FS_CardinalityType

\* Without a commit a request leaves the documents and takes no undo up.
LEMMA KeepsBound ==
  ASSUME IInv, ReversedByOverlapOnly, UNCHANGED doc,
         \A q \in Procs, d \in Docs : q \in Undoing(d)' =>
            q \in Undoing(d) \/ (doc[d] # Null /\ doc[d].reversals = 0)
  PROVE  ReversedByOverlapOnly'
  <1> SUFFICES ASSUME NEW d \in Docs, doc[d] # Null
               PROVE  doc[d].reversals + Cardinality(Undoing(d)') <= Cardinality(Procs)
    BY DEF ReversedByOverlapOnly
  <1>1. doc[d].reversals \in Nat
    BY DEF IInv, TypeOK, DocRow
  <1>2. Undoing(d)' \in SUBSET Procs
    BY DEF Undoing
  <1>3. /\ IsFiniteSet(Undoing(d)') /\ Cardinality(Undoing(d)') \in Nat
        /\ Cardinality(Procs) \in Nat /\ Cardinality(Undoing(d)') <= Cardinality(Procs)
    BY <1>2, FS_Subset, FS_CardinalityType, ConstantsAssumption
  <1>4. CASE doc[d].reversals = 0
    BY <1>3, <1>4
  <1>5. CASE doc[d].reversals # 0
    <2>1. Undoing(d)' \in SUBSET Undoing(d)
      BY <1>2, <1>5
    <2>2. Cardinality(Undoing(d)') <= Cardinality(Undoing(d))
      BY <2>1, UndoingFacts, FS_Subset
    <2>3. doc[d].reversals + Cardinality(Undoing(d)) <= Cardinality(Procs)
      BY DEF ReversedByOverlapOnly
    <2> QED
      BY <1>1, <1>3, <2>2, <2>3, UndoingFacts
  <1> QED
    BY <1>4, <1>5

\* A request that begins is no undo of a document that is marked deleted.
LEMMA BeginBound ==
  ASSUME IInv, ReversedByOverlapOnly, NEW p \in Procs, NEW op, NEW pc, NEW lines, NEW ref,
         Begin(p, op, pc, lines, ref), UNCHANGED doc,
         op = "undo" => doc[ref] # Null /\ ~doc[ref].deleted
  PROVE  ReversedByOverlapOnly'
  <1>1. /\ req'[p].op = op /\ req'[p].ref = ref
        /\ \A q \in Procs \ {p} : req'[q] = req[q]
    BY DEF Begin, Idle, IInv, TypeOK
  <1>2. ASSUME NEW q \in Procs, NEW d \in Docs, q \in Undoing(d)'
        PROVE  q \in Undoing(d) \/ (doc[d] # Null /\ doc[d].reversals = 0)
    <2>1. CASE q = p
      <3>1. op = "undo" /\ ref = d
        BY <1>1, <1>2, <2>1 DEF Undoing
      <3>2. doc[d] # Null /\ ~(doc[d].reversals > 0)
        BY <3>1 DEF IInv, DeletedIffReversed
      <3>3. doc[d].reversals \in Nat
        BY <3>2 DEF IInv, TypeOK, DocRow
      <3> QED
        BY <3>2, <3>3
    <2>2. CASE q # p
      BY <1>1, <1>2, <2>2 DEF Undoing
    <2> QED
      BY <2>1, <2>2
  <1> QED
    BY <1>2, KeepsBound

\* The commit of an undo takes its request from those that are in flight.
LEMMA PostReversalBound ==
  ASSUME IInv, ReversedByOverlapOnly, NEW p \in Procs, PostReversal(p)
  PROVE  ReversedByOverlapOnly'
  <1> DEFINE e == req[p].ref
  <1>1. /\ req[p].op = "undo" /\ End(p) /\ e \in Docs /\ doc[e] \in DocRow
        /\ doc' = [doc EXCEPT ![e] = Reversed(doc[e])]
    BY DocRequest DEF PostReversal, CommitRows
  <1>2. /\ req'[p] = Idle
        /\ \A q \in Procs \ {p} : req'[q] = req[q]
    BY <1>1, EndFacts DEF IInv
  <1> SUFFICES ASSUME NEW d \in Docs, doc'[d] # Null
               PROVE  doc'[d].reversals + Cardinality(Undoing(d)') <= Cardinality(Procs)
    BY DEF ReversedByOverlapOnly
  <1>3. Undoing(d)' = Undoing(d) \ {p}
    BY <1>2 DEF Undoing, Idle
  <1>4. CASE d = e
    <2>1. doc'[d] = Reversed(doc[d]) /\ doc[d] # Null
      BY <1>1, <1>4 DEF IInv, TypeOK
    <2>2. doc'[d].reversals = doc[d].reversals + 1 /\ doc[d].reversals \in Nat
      BY <1>1, <1>4, <2>1 DEF Reversed, DocRow
    <2>3. p \in Undoing(d)
      BY <1>1, <1>4 DEF Undoing
    <2>4. Cardinality(Undoing(d)') = Cardinality(Undoing(d)) - 1
      BY <1>3, <2>3, UndoingFacts, FS_RemoveElement
    <2>5. doc[d].reversals + Cardinality(Undoing(d)) <= Cardinality(Procs)
      BY <2>1 DEF ReversedByOverlapOnly
    <2> QED
      BY <2>2, <2>4, <2>5, UndoingFacts
  <1>5. CASE d # e
    <2>1. doc'[d] = doc[d] /\ doc[d] # Null
      BY <1>1, <1>5 DEF IInv, TypeOK
    <2>2. p \notin Undoing(d)
      BY <1>5 DEF Undoing
    <2> QED
      BY <1>3, <2>1, <2>2 DEF ReversedByOverlapOnly
  <1> QED
    BY <1>4, <1>5

\* A new document has not been put back by anybody.
LEMMA NewDocBound ==
  ASSUME IInv, ReversedByOverlapOnly, NEW p \in Procs, PostPurchase(p) \/ PostIssue(p)
  PROVE  ReversedByOverlapOnly'
  <1> DEFINE e == req[p].ref
  <1>1. PICK kind, qty : NewDoc(p, kind, qty)
    BY DEF PostPurchase, PostIssue
  <1>2. End(p)
    BY DEF PostPurchase, PostIssue, CommitRows
  <1>3. /\ req'[p] = Idle
        /\ \A q \in Procs \ {p} : req'[q] = req[q]
    BY <1>2, EndFacts DEF IInv
  <1> SUFFICES ASSUME NEW d \in Docs, doc'[d] # Null
               PROVE  doc'[d].reversals + Cardinality(Undoing(d)') <= Cardinality(Procs)
    BY DEF ReversedByOverlapOnly
  <1>4. Undoing(d)' \in SUBSET Undoing(d)
    BY <1>3 DEF Undoing, Idle
  <1>5. Cardinality(Undoing(d)') <= Cardinality(Undoing(d)) /\ Cardinality(Undoing(d)') \in Nat
    BY <1>4, UndoingFacts, FS_Subset, FS_CardinalityType
  <1>6. CASE d = e
    <2>1. doc'[d].reversals = 0
      BY <1>1, <1>6 DEF NewDoc, IInv, TypeOK
    <2> QED
      BY <1>5, <2>1, UndoingFacts
  <1>7. CASE d # e
    <2>1. doc'[d] = doc[d] /\ doc[d] # Null
      BY <1>1, <1>7 DEF NewDoc, IInv, TypeOK
    <2>2. doc[d].reversals \in Nat
      BY <2>1 DEF IInv, TypeOK, DocRow
    <2>3. doc[d].reversals + Cardinality(Undoing(d)) <= Cardinality(Procs)
      BY <2>1 DEF ReversedByOverlapOnly
    <2> QED
      BY <1>5, <2>1, <2>2, <2>3, UndoingFacts
  <1> QED
    BY <1>6, <1>7

LEMMA NextBound == IInv /\ ReversedByOverlapOnly /\ [Next]_vars => ReversedByOverlapOnly'
  <1> SUFFICES ASSUME IInv, ReversedByOverlapOnly, [Next]_vars PROVE ReversedByOverlapOnly'
    OBVIOUS
  <1>1. ASSUME UNCHANGED <<doc, req>> PROVE ReversedByOverlapOnly'
    BY <1>1 DEF ReversedByOverlapOnly, Undoing
  <1>2. ASSUME NEW p \in Procs, End(p), UNCHANGED doc PROVE ReversedByOverlapOnly'
    <2>1. \A q \in Procs, d \in Docs : q \in Undoing(d)' => q \in Undoing(d)
      BY <1>2, EndFacts DEF IInv, Undoing, Idle
    <2> QED
      BY <1>2, <2>1, KeepsBound
  <1>3. ASSUME NEW p \in Procs, Arrive(p) PROVE ReversedByOverlapOnly'
    <2>1. \/ \E op, pc, lines, ref :
                 Begin(p, op, pc, lines, ref) /\ op # "undo" /\ UNCHANGED doc
          \/ \E d \in Docs : DeleteDoc(p, d)
      BY <1>3, Zenon DEF Arrive, DeleteItem, RecordTransaction, AdjustStock, Transfer,
                         RecordPurchase, IssueStock, dbVars
    <2> QED
      BY <2>1, BeginBound DEF DeleteDoc, dbVars
  <1>4. ASSUME NEW p \in Procs, Serve(p) PROVE ReversedByOverlapOnly'
    <2>1. ASSUME NEW price \in Prices, ReadStock(p, price) PROVE ReversedByOverlapOnly'
      <3>1. UNCHANGED doc /\ \A q \in Procs, d \in Docs : q \in Undoing(d)' => q \in Undoing(d)
        BY <2>1, ReadStockFacts DEF IInv, Undoing, dbVars
      <3> QED
        BY <3>1, KeepsBound
    <2>2. CASE ReadLevel(p)
      <3>1. CASE End(p)
        BY <1>2, <2>2, <3>1 DEF ReadLevel, dbVars
      <3>2. CASE req' = [req EXCEPT ![p] = [@ EXCEPT !.pc = "write", !.balance = Balance(p)]]
        <4>1. \A q \in Procs, d \in Docs : q \in Undoing(d)' => q \in Undoing(d)
          BY <3>2 DEF IInv, TypeOK, Request, Undoing
        <4> QED
          BY <2>2, <4>1, KeepsBound DEF ReadLevel, dbVars
      <3> QED
        BY <2>2, <3>1, <3>2 DEF ReadLevel
    <2>3. CASE WriteLevel(p)
      <3>1. UNCHANGED doc /\ \A q \in Procs, d \in Docs : q \in Undoing(d)' => q \in Undoing(d)
        BY <2>3, WriteFacts DEF Undoing, dbVars
      <3> QED
        BY <3>1, KeepsBound
    <2>4. CASE PostMovement(p) \/ MarkDeleted(p)
      BY <1>2, <2>4 DEF PostMovement, CommitRows, MarkDeleted
    <2> QED
      BY <1>4, <2>1, <2>2, <2>3, <2>4, NewDocBound, PostReversalBound DEF Serve
  <1>5. ASSUME NEW p \in Procs, Rollback(p) PROVE ReversedByOverlapOnly'
    BY <1>2, <1>5 DEF Rollback, dbVars
  <1> QED
    BY <1>1, <1>3, <1>4, <1>5 DEF Next, CreateItem, vars, dbVars

\* However undos overlap, a purchase or an issue is put back at most as often as
\* requests can be in flight together, though the row is read before the
\* transaction and its mark is not looked at again.
THEOREM ReversalBound == Spec => []ReversedByOverlapOnly
  <1>1. Init => ReversedByOverlapOnly
    BY DEF Init, ReversedByOverlapOnly
  <1> QED
    BY <1>1, EngineInvariant, NextBound, PTL DEF Spec

-----------------------------------------------------------------------------
(***************************************************************************)
(* The average cost.                                                       *)
(***************************************************************************)

\* A finite, inhabited set of prices has a lowest and a highest one.
LEMMA PriceRange ==
  ASSUME Prices # {}
  PROVE  /\ Min(Prices) \in Nat /\ Max(Prices) \in Nat
         /\ \A c \in Prices : Min(Prices) <= c /\ c <= Max(Prices)
  <1> DEFINE A == {t \in SUBSET Prices : t # {} =>
                     \E lo, hi \in t : \A c \in t : lo <= c /\ c <= hi}
  <1>1. ASSUME NEW t \in SUBSET Prices, \A u \in SUBSET t : u # t => u \in A
        PROVE  t \in A
    <2> SUFFICES ASSUME t # {} PROVE \E lo, hi \in t : \A c \in t : lo <= c /\ c <= hi
      OBVIOUS
    <2>1. PICK x \in t : TRUE
      OBVIOUS
    <2>2. t \ {x} \in A
      BY <1>1, <2>1
    <2>3. t \subseteq Nat
      OBVIOUS
    <2>4. CASE t \ {x} = {}
      <3>1. \A c \in t : x <= c /\ c <= x
        BY <2>3, <2>4
      <3> QED
        BY <3>1
    <2>5. CASE t \ {x} # {}
      <3>1. PICK lo, hi \in t \ {x} : \A c \in t \ {x} : lo <= c /\ c <= hi
        BY <2>2, <2>5
      <3>2. PICK lo1 \in t : lo1 <= lo /\ lo1 <= x
        BY <2>3, <3>1
      <3>3. PICK hi1 \in t : hi <= hi1 /\ x <= hi1
        BY <2>3, <3>1
      <3>4. \A c \in t : lo1 <= c /\ c <= hi1
        BY <2>3, <3>1, <3>2, <3>3
      <3> QED
        BY <3>4
    <2> QED
      BY <2>4, <2>5
  <1>2. IsFiniteSet(Prices)
    BY ConstantsAssumption
  <1>3. \A t \in SUBSET Prices : t \in A
    <2> HIDE DEF A
    <2> QED
      BY <1>1, <1>2, SubsetInduction
  <1>4. PICK lo, hi \in Prices : \A c \in Prices : lo <= c /\ c <= hi
    BY <1>3
  <1>5. Min(Prices) \in Prices /\ \A c \in Prices : Min(Prices) <= c
    BY <1>4 DEF Min
  <1>6. Max(Prices) \in Prices /\ \A c \in Prices : Max(Prices) >= c
    <2>1. \A c \in Prices : hi >= c
      BY <1>4
    <2> QED
      BY <1>4, <2>1 DEF Max
  <1>7. Prices \subseteq Nat
    BY ConstantsAssumption
  <1> QED
    BY <1>5, <1>6, <1>7

\* The weighted mean of two numbers of a range, rounded half up, is in it.
LEMMA MeanWithinRange ==
  ASSUME NEW h \in Nat, NEW q \in Nat, q > 0, NEW lo \in Nat, NEW hi \in Nat,
         NEW u \in lo..hi, NEW c \in lo..hi
  PROVE  RoundDiv(u * h + c * q, h + q) \in lo..hi
  <1> DEFINE d == h + q
             n == u * h + c * q
  <1>1. lo * d <= n /\ n <= hi * d /\ d \in Nat /\ d > 0 /\ n \in Nat
    <2>1. lo * h <= u * h /\ lo * q <= c * q /\ u * h <= hi * h /\ c * q <= hi * q
      OBVIOUS
    <2>2. lo * d = lo * h + lo * q /\ hi * d = hi * h + hi * q
      OBVIOUS
    <2> QED
      BY <2>1, <2>2
  <1> HIDE DEF d, n
  <1>2. PICK r \in Int : r = (2 * n + d) \div (2 * d)
    BY <1>1
  <1>3. 2 * d * r <= 2 * n + d /\ 2 * n + d < 2 * d * (r + 1)
    BY <1>1, <1>2
  <1>4. lo < r + 1
    BY <1>1, <1>2, <1>3
  <1>5. r < hi + 1
    BY <1>1, <1>2, <1>3
  <1> QED
    BY <1>2, <1>4, <1>5 DEF d, n, RoundDiv

\* What is on hand of an item, over all warehouses, is never negative either.
LEMMA OnHandNat ==
  ASSUME IInv, NEW i \in Items
  PROVE  OnHand(i) \in Nat
  <1> DEFINE f == [w \in Warehouses |-> level[<<i, w>>]]
  <1>1. f \in [Warehouses -> Nat]
    <2>1. \A w \in Warehouses : level[<<i, w>>] \in Int /\ level[<<i, w>>] >= 0
      BY DEF IInv, TypeOK, StockNeverNegative, Keys
    <2> QED
      BY <2>1
  <1>2. IsFiniteSet(Warehouses)
    BY ConstantsAssumption
  <1> HIDE DEF f
  <1>3. MapThenSumSet(LAMBDA w : f[w], Warehouses) \in Nat
    BY <1>1, <1>2, SumIsNat
  <1>4. OnHand(i) = MapThenSumSet(LAMBDA w : f[w], Warehouses)
    BY DEF OnHand, MapThenSumSet, MapThenFoldSet, f
  <1> QED
    BY <1>3, <1>4

\* The average of what a purchase has read is no lower and no higher than the
\* prices, whatever has become of the stock since it read the cost.
LEMMA PurchaseCost ==
  ASSUME IInv, CostInv, NEW p \in Procs, NEW price \in Prices, ReadStock(p, price)
  PROVE  newCost'[p] \in Min(Prices)..Max(Prices)
  <1> DEFINE line == req[p].lines[1]
             i == line.key[1]
             q == line.delta
  <1>1. PICK lo \in Nat, hi \in Nat : lo = Min(Prices) /\ hi = Max(Prices)
    BY PriceRange
  <1>2. i \in Items /\ q \in Int /\ q > 0
    <2>1. req[p].op = "purchase" /\ 1 \in DOMAIN req[p].lines /\ q > 0
      BY DEF ReadStock, IInv, RequestOK
    <2>2. req[p].lines \in Seq(Line)
      BY DEF IInv, TypeOK, Request
    <2>3. line \in Line
      BY <2>1, <2>2
    <2> QED
      BY <2>1, <2>3 DEF Line, Keys
  <1>3. PICK h \in Nat : h = OnHand(i)
    BY <1>2, OnHandNat
  <1>4. PICK u \in lo..hi : u = newCost[p]
    BY <1>1 DEF ReadStock, CostInv, IInv, RequestOK
  <1>5. price \in lo..hi
    BY <1>1, PriceRange
  <1>6. PICK n \in Nat : n = q /\ n > 0
    BY <1>2
  <1>7. RoundDiv(u * h + price * n, h + n) \in lo..hi
    BY <1>3, <1>4, <1>5, <1>6, MeanWithinRange
  <1>8. newCost'[p] = WeightedCost(newCost[p], i, q, price)
    BY DEF ReadStock, IInv, TypeOK
  <1> QED
    BY <1>1, <1>3, <1>4, <1>6, <1>7, <1>8 DEF WeightedCost

LEMMA InitCost == Init => CostInv
  BY DEF Init, CostInv, CostWithinPrices, Idle

\* A step that ends a request, and leaves the items where they should be.
LEMMA EndCost ==
  ASSUME IInv, CostInv, NEW p \in Procs, End(p),
         CostWithinPrices', \A i \in Items : item[i] # "absent" => item'[i] # "absent"
  PROVE  CostInv'
  <1>1. req' = [req EXCEPT ![p] = Idle] /\ newCost' = [newCost EXCEPT ![p] = 0]
    BY DEF End
  <1>2. ASSUME NEW r \in Procs
        PROVE  /\ req'[r].op = "purchase" => newCost'[r] \in Min(Prices)..Max(Prices)
               /\ req'[r].pc = "mark" => item'[req'[r].ref] # "absent"
    <2>1. CASE r = p
      BY <1>1, <2>1 DEF Idle, IInv, TypeOK
    <2>2. CASE r # p
      <3>1. req'[r] = req[r] /\ newCost'[r] = newCost[r]
        BY <1>1, <2>2 DEF IInv, TypeOK
      <3>2. req[r].pc = "mark" => req[r].ref \in Items
        BY DEF IInv, RequestOK
      <3> QED
        BY <3>1, <3>2 DEF CostInv
    <2> QED
      BY <2>1, <2>2
  <1> QED
    BY <1>2 DEF CostInv

\* ... as when it leaves them alone.
LEMMA EndOnly ==
  ASSUME IInv, CostInv, NEW p \in Procs, End(p), UNCHANGED <<item, unitCost>>
  PROVE  CostInv'
  <1>1. CostWithinPrices' /\ \A i \in Items : item[i] # "absent" => item'[i] # "absent"
    BY DEF CostInv, CostWithinPrices
  <1> QED
    BY <1>1, EndCost

LEMMA NextCost == IInv /\ CostInv /\ [Next]_vars => CostInv'
  <1> SUFFICES ASSUME IInv, CostInv, [Next]_vars PROVE CostInv'
    OBVIOUS
  <1>1. ASSUME NEW i \in Items, NEW w \in Warehouses, NEW q \in Quantities \cup {0},
               NEW c \in Prices, CreateItem(i, w, q, c)
        PROVE  CostInv'
    <2>1. c \in Min(Prices)..Max(Prices)
      BY PriceRange
    <2>2. /\ item' = [item EXCEPT ![i] = "live"] /\ unitCost' = [unitCost EXCEPT ![i] = c]
          /\ UNCHANGED <<req, newCost>>
      BY <1>1 DEF CreateItem
    <2>3. CostWithinPrices'
      BY <2>1, <2>2 DEF CostInv, CostWithinPrices, IInv, TypeOK
    <2>4. \A p \in Procs : req[p].pc = "mark" => req[p].ref \in Items
      BY DEF IInv, RequestOK
    <2> QED
      BY <2>2, <2>3, <2>4 DEF CostInv, IInv, TypeOK
  <1>2. ASSUME NEW p \in Procs, NEW op, NEW pc, NEW lines, NEW ref, Begin(p, op, pc, lines, ref),
               UNCHANGED dbVars,
               op # "purchase" => UNCHANGED newCost,
               op = "purchase" => newCost'[p] \in Min(Prices)..Max(Prices)
                                  /\ \A r \in Procs \ {p} : newCost'[r] = newCost[r],
               pc = "mark" => item[ref] # "absent"
        PROVE  CostInv'
    <2>1. req'[p].op = op /\ req'[p].pc = pc /\ req'[p].ref = ref
      BY <1>2 DEF Begin, Idle, IInv, TypeOK
    <2>2. \A r \in Procs \ {p} : req'[r] = req[r]
      BY <1>2 DEF Begin, IInv, TypeOK
    <2>3. ASSUME NEW r \in Procs
          PROVE  /\ req'[r].op = "purchase" => newCost'[r] \in Min(Prices)..Max(Prices)
                 /\ req'[r].pc = "mark" => item'[req'[r].ref] # "absent"
      BY <1>2, <2>1, <2>2 DEF CostInv, dbVars
    <2>4. CostWithinPrices'
      BY <1>2 DEF CostInv, CostWithinPrices, dbVars
    <2> QED
      BY <2>3, <2>4 DEF CostInv
  <1>3. ASSUME NEW p \in Procs, Arrive(p) PROVE CostInv'
    <2>1. ASSUME NEW i \in Items, DeleteItem(p, i) PROVE CostInv'
      BY <1>2, <2>1 DEF DeleteItem
    <2>2. ASSUME NEW k \in Keys, NEW q, NEW d \in Docs, q \in Quantities,
                 RecordPurchase(p, k, q, d)
          PROVE  CostInv'
      <3>1. newCost'[p] \in Min(Prices)..Max(Prices)
        BY <2>2 DEF RecordPurchase, Keys, CostInv, CostWithinPrices, IInv, TypeOK
      <3>2. \A r \in Procs \ {p} : newCost'[r] = newCost[r]
        BY <2>2 DEF RecordPurchase, IInv, TypeOK
      <3> QED
        BY <1>2, <2>2, <3>1, <3>2 DEF RecordPurchase
    <2>3. ASSUME NEW op, NEW lines, NEW ref, Begin(p, op, "read", lines, ref), op # "purchase",
                 UNCHANGED <<dbVars, newCost>>
          PROVE  CostInv'
      BY <1>2, <2>3
    <2>4. (\E k \in Keys, q \in Quantities, s \in {-1, 0, 1} : RecordTransaction(p, k, s * q)) => CostInv'
      BY <2>3 DEF RecordTransaction
    <2>5. (\E k \in Keys, c \in Counts : AdjustStock(p, k, c)) => CostInv'
      BY <2>3 DEF AdjustStock
    <2>6. (\E i \in Items, from, to \in Warehouses, q \in Quantities \cup {0} :
              Transfer(p, i, from, to, q)) => CostInv'
      BY <2>3 DEF Transfer
    <2>7. (\E k \in Keys, q \in Quantities, d \in Docs : IssueStock(p, k, q, d)) => CostInv'
      BY <2>3 DEF IssueStock
    <2>8. (\E d \in Docs : DeleteDoc(p, d)) => CostInv'
      BY <2>3 DEF DeleteDoc
    <2> QED
      BY <1>3, <2>1, <2>2, <2>4, <2>5, <2>6, <2>7, <2>8 DEF Arrive
  <1>4. ASSUME NEW p \in Procs, Serve(p) PROVE CostInv'
    <2>1. CASE ReadLevel(p)
      <3>1. CASE End(p)
        BY <2>1, <3>1, EndOnly DEF ReadLevel, dbVars
      <3>2. CASE req' = [req EXCEPT ![p] = [@ EXCEPT !.pc = "write", !.balance = Balance(p)]] /\ UNCHANGED newCost
        BY <2>1, <3>2 DEF ReadLevel, dbVars, CostInv, CostWithinPrices, IInv, TypeOK, Request
      <3> QED
        BY <2>1, <3>1, <3>2 DEF ReadLevel
    <2>2. CASE WriteLevel(p)
      <3>1. \A r \in Procs : /\ req'[r].op = req[r].op /\ req'[r].ref = req[r].ref
                             /\ req'[r].pc = "mark" => req[r].pc = "mark"
        BY <2>2 DEF WriteLevel, IInv, TypeOK, Request
      <3> QED
        BY <2>2, <3>1 DEF WriteLevel, dbVars, CostInv, CostWithinPrices
    <2>3. CASE MarkDeleted(p)
      <3>1. req[p].pc = "mark" /\ item' = [item EXCEPT ![req[p].ref] = "deleted"] /\ End(p)
            /\ UNCHANGED unitCost
        BY <2>3 DEF MarkDeleted
      <3>2. item \in [Items -> {"absent", "live", "deleted"}] /\ item[req[p].ref] # "absent"
        BY <3>1 DEF IInv, TypeOK, CostInv
      <3>3. \A i \in Items : item[i] # "absent" <=> item'[i] # "absent"
        BY <3>1, <3>2
      <3>4. CostWithinPrices'
        BY <3>1, <3>3 DEF CostInv, CostWithinPrices
      <3> QED
        BY <3>1, <3>3, <3>4, EndCost
    <2>4. CASE PostPurchase(p)
      <3>1. End(p) /\ UNCHANGED item /\ req[p].op = "purchase"
            /\ unitCost' = [unitCost EXCEPT ![req[p].lines[1].key[1]] = newCost[p]]
        BY <2>4 DEF PostPurchase, CommitRows
      <3>2. CostWithinPrices' /\ \A i \in Items : item[i] # "absent" => item'[i] # "absent"
        BY <3>1 DEF IInv, TypeOK, CostInv, CostWithinPrices
      <3> QED
        BY <3>1, <3>2, EndCost
    <2>5. CASE PostMovement(p) \/ PostIssue(p) \/ PostReversal(p)
      <3>1. End(p) /\ UNCHANGED <<item, unitCost>>
        BY <2>5 DEF PostMovement, PostIssue, PostReversal, CommitRows
      <3> QED
        BY <3>1, EndOnly
    <2>6. ASSUME NEW price \in Prices, ReadStock(p, price) PROVE CostInv'
      <3>1. newCost'[p] \in Min(Prices)..Max(Prices)
        BY <2>6, PurchaseCost
      <3>2. \A r \in Procs : /\ req'[r].op = req[r].op /\ req'[r].ref = req[r].ref
                             /\ req'[r].pc = "mark" => req[r].pc = "mark"
                             /\ r # p => newCost'[r] = newCost[r]
        BY <2>6, ReadStockFacts DEF IInv
      <3>3. UNCHANGED <<item, unitCost>>
        BY <2>6 DEF ReadStock, dbVars
      <3> QED
        BY <3>1, <3>2, <3>3 DEF CostInv, CostWithinPrices
    <2> QED
      BY <1>4, <2>1, <2>2, <2>3, <2>4, <2>5, <2>6 DEF Serve
  <1>5. ASSUME NEW p \in Procs, Rollback(p) PROVE CostInv'
    BY <1>5, EndOnly DEF Rollback, dbVars
  <1>6. CASE UNCHANGED vars
    BY <1>6 DEF vars, dbVars, CostInv, CostWithinPrices
  <1> QED
    BY <1>1, <1>3, <1>4, <1>5, <1>6 DEF Next

\* However purchases interleave with each other, with issues and with stock
\* takes, an average computed from balances that are out of date when it is
\* stored still is an average: it never leaves the range of the prices named.
THEOREM CostStaysWithinPrices == Spec => []CostWithinPrices
  <1>1. CostInv => CostWithinPrices
    BY DEF CostInv
  <1> QED
    BY <1>1, EngineInvariant, InitCost, NextCost, PTL DEF Spec

-----------------------------------------------------------------------------
(***************************************************************************)
(* What can drive the balance and the ledger apart.                        *)
(***************************************************************************)
LEMMA CommitDrift ==
  ASSUME IInv, NEW p \in Procs, CommitRows(p), NEW k \in Keys, ~Stale(p, k)
  PROVE  Drift(k)' = Drift(k)
  <1>1. /\ level'[k] = Seen(p, k) /\ ledger'[k] = LedgerAfter(p, k)
        /\ level[k] \in Int /\ ledger[k].sum \in Int
        /\ req[p].rows[k].delta \in Int /\ req[p].rows[k].balance \in Int
    BY CommitFacts DEF IInv, TypeOK, Request, Row
  <1>2. CASE Wrote(p, k)
    <2>1. /\ level'[k] = req[p].rows[k].balance
          /\ ledger'[k].sum = ledger[k].sum + req[p].rows[k].delta
      BY <1>1, <1>2 DEF Seen, LedgerAfter
    <2>2. req[p].rows[k].balance - req[p].rows[k].delta = level[k]
      BY <1>2 DEF Stale
    <2> QED
      BY <1>1, <2>1, <2>2 DEF Drift
  <1>3. CASE ~Wrote(p, k)
    BY <1>1, <1>3 DEF Seen, LedgerAfter, Drift
  <1> QED
    BY <1>2, <1>3

\* The only steps that change the difference between the running balance and
\* the ledger are commits of a transaction whose read was overtaken.
THEOREM DriftNeedsStaleWrite == Spec => DriftOnlyFromStaleWrite
  <1> DEFINE Step == \A k \in Keys : Drift(k)' # Drift(k) =>
                       \E p \in Procs : Stale(p, k) /\ req[p].pc = "post"
  <1>1. IInv /\ [Next]_vars => [Step]_vars
    <2> SUFFICES ASSUME IInv, Next, NEW k \in Keys,
                        \A p \in Procs : ~(Stale(p, k) /\ req[p].pc = "post")
                 PROVE  Drift(k)' = Drift(k)
      OBVIOUS
    <2>1. ASSUME NEW i \in Items, NEW w \in Warehouses, NEW q \in Quantities \cup {0},
                 NEW c \in Prices, CreateItem(i, w, q, c)
          PROVE  Drift(k)' = Drift(k)
      <3>1. CASE k = <<i, w>> /\ q > 0
        <4>1. Drift(k) = 0
          <5>1. item[k[1]] = "absent"
            BY <2>1, <3>1 DEF CreateItem
          <5>2. level[k] = 0 /\ ledger[k].sum = 0
            BY <5>1 DEF IInv, AbsentUntouched
          <5> QED
            BY <5>2 DEF Drift
        <4>2. PICK n \in Int : n = q
          OBVIOUS
        <4>3. /\ level' = [level EXCEPT ![k] = n]
              /\ ledger' = [ledger EXCEPT ![k] = [sum |-> n, last |-> n]]
          BY <2>1, <3>1, <4>2 DEF CreateItem
        <4>4. level'[k] = n /\ ledger'[k].sum = n
          BY <4>3 DEF IInv, TypeOK
        <4> QED
          BY <4>1, <4>4 DEF Drift
      <3>2. CASE ~(k = <<i, w>> /\ q > 0)
        BY <2>1, <3>2 DEF CreateItem, IInv, TypeOK, Drift
      <3> QED
        BY <3>1, <3>2
    <2>2. ASSUME NEW p \in Procs, CommitRows(p) PROVE Drift(k)' = Drift(k)
      BY <2>2, CommitDrift DEF CommitRows
    <2>3. ASSUME UNCHANGED <<level, ledger>> PROVE Drift(k)' = Drift(k)
      BY <2>3 DEF Drift
    <2>4. ASSUME NEW p \in Procs, Arrive(p) PROVE UNCHANGED dbVars
      BY <2>4 DEF Arrive, DeleteItem, RecordTransaction, AdjustStock, Transfer, RecordPurchase,
                  IssueStock, DeleteDoc
    <2>5. ASSUME NEW p \in Procs, Serve(p) PROVE Drift(k)' = Drift(k)
      BY <2>2, <2>3, <2>5 DEF Serve, ReadStock, ReadLevel, WriteLevel, PostMovement, PostPurchase,
                              PostIssue, PostReversal, MarkDeleted, dbVars
    <2>6. ASSUME NEW p \in Procs, Rollback(p) PROVE UNCHANGED dbVars
      BY <2>6 DEF Rollback
    <2> QED
      BY <2>1, <2>3, <2>4, <2>5, <2>6 DEF Next, dbVars
  <1> QED
    BY <1>1, EngineInvariant, PTL DEF Spec, DriftOnlyFromStaleWrite
-----------------------------------------------------------------------------
(***************************************************************************)
(* One request in flight at a time.                                        *)
(***************************************************************************)
Alone == \A p, q \in Procs : p = q

\* An idle request disturbs nothing.
LEMMA IdleUndisturbed ==
  ASSUME NEW p \in Procs, req[p] = Idle
  PROVE  Undisturbed(p)
  <1>1. \A k \in Keys : ~Wrote(p, k)
    BY IdleFacts DEF Wrote
  <1> QED
    BY <1>1 DEF Undisturbed, Idle

LEMMA InitSerial == Init => SerialInv
  BY IdleUndisturbed DEF Init, SerialInv, LedgerNeverDrifts, Drift, ReversedOnce

\* A request that begins has read what is current.
LEMMA BeginSerial ==
  ASSUME Alone, IInv, SerialInv, NEW p \in Procs, NEW op \in Ops, NEW pc \in {"cost", "read", "mark"},
         NEW lines \in Seq(Line), NEW ref, Begin(p, op, pc, lines, ref), UNCHANGED dbVars,
         \A m, n \in DOMAIN lines : lines[m].key = lines[n].key => m = n,
         op = "undo" => ~doc[ref].deleted
  PROVE  SerialInv'
  <1> DEFINE new == [Idle EXCEPT !.pc = pc, !.op = op, !.lines = lines, !.ref = ref]
  <1>1. /\ req' = [req EXCEPT ![p] = new]
        /\ new.pc = pc /\ new.op = op /\ new.lines = lines /\ new.ref = ref
        /\ new.rows = NoRows
    BY DEF Begin, Idle
  <1> HIDE DEF new
  <1>2. req'[p] = new
    BY <1>1 DEF IInv, TypeOK
  <1>3. \A k \in Keys : ~Wrote(p, k)'
    BY <1>1, <1>2 DEF Wrote, NoRows
  <1>4. Undisturbed(p)'
    BY <1>1, <1>2, <1>3 DEF Undisturbed, dbVars
  <1>5. \A q \in Procs : Undisturbed(q)'
    BY <1>4 DEF Alone
  <1> QED
    BY <1>5 DEF SerialInv, LedgerNeverDrifts, Drift, ReversedOnce, dbVars

LEMMA ArriveSerial ==
  ASSUME Alone, IInv, SerialInv, NEW p \in Procs, Arrive(p)
  PROVE  SerialInv'
  <1>1. ASSUME NEW op \in Ops, NEW k \in Keys, NEW delta \in Int, NEW ref,
               NEW pc \in {"cost", "read"},
               Begin(p, op, pc, <<[key |-> k, delta |-> delta]>>, ref), UNCHANGED dbVars,
               op = "undo" => ~doc[ref].deleted
        PROVE  SerialInv'
    <2> DEFINE lines == <<[key |-> k, delta |-> delta]>>
    <2>1. lines \in Seq(Line) /\ DOMAIN lines = {1}
      BY DEF Line
    <2>2. Begin(p, op, pc, lines, ref)
      BY <1>1
    <2> HIDE DEF lines
    <2> QED
      BY <1>1, <2>1, <2>2, BeginSerial
  <1>2. ASSUME NEW i \in Items, DeleteItem(p, i) PROVE SerialInv'
    <2>1. <<>> \in Seq(Line) /\ DOMAIN <<>> = {}
      OBVIOUS
    <2>2. Begin(p, "delete", "mark", <<>>, i) /\ UNCHANGED dbVars
      BY <1>2 DEF DeleteItem
    <2> QED
      BY <2>1, <2>2, BeginSerial DEF Ops
  <1>3. ASSUME NEW k \in Keys, NEW q \in Quantities, NEW s \in {-1, 0, 1},
               RecordTransaction(p, k, s * q)
        PROVE  SerialInv'
    <2>1. s * q \in Int
      OBVIOUS
    <2> QED
      BY <1>1, <1>3, <2>1 DEF RecordTransaction, Ops
  <1>4. ASSUME NEW k \in Keys, NEW c \in Counts, AdjustStock(p, k, c) PROVE SerialInv'
    <2>0. level[k] \in Int /\ c \in Int
      BY ConstantsAssumption DEF IInv, TypeOK
    <2>1. c - level[k] \in Int
      BY <2>0
    <2>2. /\ Begin(p, "adjust", "read", <<[key |-> k, delta |-> c - level[k]]>>, Null)
          /\ UNCHANGED dbVars
      BY <1>4 DEF AdjustStock
    <2> QED
      BY <1>1, <2>1, <2>2 DEF Ops
  <1>5. ASSUME NEW i \in Items, NEW from \in Warehouses, NEW to \in Warehouses,
               NEW q \in Quantities \cup {0}, Transfer(p, i, from, to, q)
        PROVE  SerialInv'
    <2> DEFINE lines == <<[key |-> <<i, from>>, delta |-> -q], [key |-> <<i, to>>, delta |-> q]>>
    <2>1. lines \in Seq(Line) /\ DOMAIN lines = 1..2
      BY DEF Line, Keys
    <2>2. \A m, n \in DOMAIN lines : lines[m].key = lines[n].key => m = n
      BY <1>5 DEF Transfer
    <2>3. Begin(p, "transfer", "read", lines, Null) /\ UNCHANGED dbVars
      BY <1>5 DEF Transfer
    <2> HIDE DEF lines
    <2> QED
      BY <2>1, <2>2, <2>3, BeginSerial DEF Ops
  <1>6. ASSUME NEW k \in Keys, NEW q \in Quantities, NEW d \in Docs, RecordPurchase(p, k, q, d)
        PROVE  SerialInv'
    <2>1. PICK n \in Int : n = q
      OBVIOUS
    <2>2. Begin(p, "purchase", "cost", <<[key |-> k, delta |-> n]>>, d) /\ UNCHANGED dbVars
      BY <1>6, <2>1 DEF RecordPurchase
    <2> QED
      BY <1>1, <2>2 DEF Ops
  <1>7. ASSUME NEW k \in Keys, NEW q \in Quantities, NEW d \in Docs, IssueStock(p, k, q, d)
        PROVE  SerialInv'
    <2>1. -q \in Int
      OBVIOUS
    <2> QED
      BY <1>1, <1>7, <2>1 DEF IssueStock, Ops
  <1>8. ASSUME NEW d \in Docs, DeleteDoc(p, d) PROVE SerialInv'
    <2>1. doc[d] \in DocRow
      BY <1>8 DEF DeleteDoc, IInv, TypeOK
    <2>2. Reversal(doc[d]) \in Int /\ doc[d].key \in Keys
      BY <2>1 DEF DocRow, Reversal
    <2> QED
      BY <1>1, <1>8, <2>2 DEF DeleteDoc, Ops
  <1> QED
    BY <1>2, <1>3, <1>4, <1>5, <1>6, <1>7, <1>8 DEF Arrive

LEMMA ReadStockSerial ==
  ASSUME Alone, IInv, SerialInv, NEW p \in Procs, NEW price, ReadStock(p, price)
  PROVE  SerialInv'
  <1>1. Undisturbed(p)'
    <2>1. Undisturbed(p) /\ TypeOK
      BY DEF SerialInv, IInv
    <2>2. /\ req'[p].rows = req[p].rows /\ req'[p].lines = req[p].lines
          /\ req'[p].at = req[p].at /\ req'[p].op = req[p].op /\ req'[p].ref = req[p].ref
          /\ req'[p].pc = "read" /\ UNCHANGED <<level, doc>>
      BY <2>1, ReadStockFacts DEF dbVars
    <2> QED
      BY <2>1, <2>2 DEF Undisturbed, Wrote, Stale
  <1>2. LedgerNeverDrifts' /\ ReversedOnce'
    BY DEF ReadStock, SerialInv, LedgerNeverDrifts, Drift, ReversedOnce, dbVars
  <1> QED
    BY <1>1, <1>2 DEF SerialInv, Alone

\* A request that ends leaves no trace of itself.
LEMMA EndSerial ==
  ASSUME Alone, IInv, SerialInv, NEW p \in Procs, End(p),
         LedgerNeverDrifts', ReversedOnce'
  PROVE  SerialInv'
  <1>1. req'[p] = Idle
    BY EndFacts DEF IInv
  <1>2. \A k \in Keys : ~Wrote(p, k)'
    BY <1>1, IdleFacts DEF Wrote
  <1>3. Undisturbed(p)'
    BY <1>1, <1>2 DEF Undisturbed, Idle
  <1> QED
    BY <1>3 DEF SerialInv, Alone

LEMMA ReadLevelSerial ==
  ASSUME Alone, IInv, SerialInv, NEW p \in Procs, ReadLevel(p)
  PROVE  SerialInv'
  <1>1. CASE End(p) /\ UNCHANGED dbVars
    BY <1>1, EndSerial DEF SerialInv, LedgerNeverDrifts, Drift, ReversedOnce, dbVars
  <1>2. CASE /\ req' = [req EXCEPT ![p] = [req[p] EXCEPT !.pc = "write", !.balance = Balance(p)]]
             /\ UNCHANGED dbVars
    <2> DEFINE b == Balance(p)
               new == [req[p] EXCEPT !.pc = "write", !.balance = b]
    <2>1. req[p] \in Request /\ req' = [req EXCEPT ![p] = new]
      BY <1>2 DEF IInv, TypeOK
    <2> HIDE DEF b
    <2>2. /\ new.rows = req[p].rows /\ new.lines = req[p].lines /\ new.at = req[p].at
          /\ new.op = req[p].op /\ new.ref = req[p].ref /\ new.balance = b
      BY <2>1 DEF Request
    <2> HIDE DEF new
    <2>3. req'[p] = new
      BY <2>1 DEF IInv, TypeOK
    <2>4. UNCHANGED <<level, ledger, doc>>
      BY <1>2 DEF dbVars
    <2>5. Balance(p)' = b
      BY <2>2, <2>3, <2>4 DEF b, Balance, Seen, Wrote, Line1
    <2>6. \A k \in Keys : (Wrote(p, k)' <=> Wrote(p, k)) /\ (Stale(p, k)' <=> Stale(p, k))
      BY <2>2, <2>3, <2>4 DEF Stale, Wrote
    <2>7. Undisturbed(p)
      BY DEF SerialInv
    <2>8. Undisturbed(p)'
      BY <2>2, <2>3, <2>4, <2>5, <2>6, <2>7 DEF Undisturbed
    <2> QED
      BY <2>4, <2>8 DEF SerialInv, LedgerNeverDrifts, Drift, ReversedOnce, Alone
  <1> QED
    BY <1>1, <1>2 DEF ReadLevel

LEMMA WriteLevelSerial ==
  ASSUME Alone, IInv, SerialInv, NEW p \in Procs, WriteLevel(p)
  PROVE  SerialInv'
  <1>a. Line1(p) \in Line /\ req[p] \in Request
    BY LineFacts DEF WriteLevel, IInv, TypeOK
  <1>b. PICK key \in Keys : key = Line1(p).key
    BY <1>a DEF Line
  <1>c. PICK at \in Nat : at = req[p].at
    BY <1>a DEF Request
  <1>1. /\ req'[p].lines = req[p].lines /\ req'[p].at = at + 1
        /\ req'[p].op = req[p].op /\ req'[p].ref = req[p].ref
        /\ req'[p].pc # "write"
        /\ req'[p].rows = RowsAfter(p)
        /\ UNCHANGED <<level, ledger, doc>>
    BY <1>c, WriteFacts DEF dbVars
  <1>2. /\ at \in DOMAIN req[p].lines /\ key = req[p].lines[at].key
        /\ req[p].balance = Balance(p)
    BY <1>b, <1>c, LineFacts DEF WriteLevel, SerialInv, Undisturbed, Line1
  <1>3. Undisturbed(p)
    BY DEF SerialInv
  <1>4. ~Wrote(p, key)
    <2>1. SUFFICES ASSUME Wrote(p, key) PROVE FALSE
      OBVIOUS
    <2>2. PICK n \in DOMAIN req[p].lines : n < req[p].at /\ req[p].lines[n].key = key
      BY <1>3, <2>1 DEF Undisturbed
    <2>3. n = at
      BY <1>2, <1>3, <2>2 DEF Undisturbed
    <2> QED
      BY <1>c, <2>2, <2>3
  <1>5. /\ Line1(p).delta \in Int /\ level[key] \in Int
        /\ req[p].balance = level[key] + Line1(p).delta
    BY <1>2, <1>4, <1>a, <1>b DEF Balance, Seen, Line, IInv, TypeOK
  <1>6. /\ req'[p].rows[key].delta = Line1(p).delta
        /\ req'[p].rows[key].balance = req[p].balance
        /\ \A k \in Keys \ {key} : req'[p].rows[k] = req[p].rows[k]
    <2>1. req[p].rows \in [Keys -> Row]
      BY <1>a DEF Request
    <2>2. req'[p].rows = [req[p].rows EXCEPT ![key] =
                            [delta |-> Line1(p).delta, balance |-> req[p].balance]]
      BY <1>1, <1>b DEF RowsAfter
    <2> QED
      BY <2>1, <2>2
  <1>7. ~Stale(p, key)'
    BY <1>1, <1>5, <1>6 DEF Stale
  <1>8. \A k \in Keys \ {key} : (Wrote(p, k)' <=> Wrote(p, k)) /\ (Stale(p, k)' <=> Stale(p, k))
    BY <1>1, <1>6 DEF Stale, Wrote
  <1>9. ASSUME NEW k \in Keys, Wrote(p, k)'
        PROVE  /\ \E n \in DOMAIN req'[p].lines : n < req'[p].at /\ req'[p].lines[n].key = k
               /\ ~Stale(p, k)'
    <2>2. CASE k = key
      BY <1>1, <1>2, <1>7, <2>2
    <2>3. CASE k # key
      <3>1. PICK n \in DOMAIN req[p].lines : n < at /\ req[p].lines[n].key = k
        BY <1>3, <1>8, <1>9, <1>c, <2>3 DEF Undisturbed
      <3>2. ~Stale(p, k)'
        BY <1>3, <1>8, <1>9, <2>3 DEF Undisturbed
      <3>3. n < at + 1
        <4>1. n \in Int
          BY <1>a DEF Request
        <4> QED
          BY <3>1, <4>1
      <3> QED
        BY <1>1, <3>1, <3>2, <3>3
    <2> QED
      BY <2>2, <2>3
  <1>10. Undisturbed(p)'
    BY <1>1, <1>3, <1>9 DEF Undisturbed
  <1> QED
    BY <1>1, <1>10 DEF SerialInv, LedgerNeverDrifts, Drift, ReversedOnce, Alone

\* A commit of what was read a moment ago moves balance and ledger together.
LEMMA CommitSerial ==
  ASSUME Alone, IInv, SerialInv, NEW p \in Procs, CommitRows(p), ReversedOnce'
  PROVE  SerialInv'
  <1>1. \A k \in Keys : ~Stale(p, k)
    BY DEF SerialInv, Undisturbed, Stale
  <1>2. LedgerNeverDrifts'
    BY <1>1, CommitDrift DEF SerialInv, LedgerNeverDrifts
  <1> QED
    BY <1>2, EndSerial DEF CommitRows

LEMMA NewDocSerial ==
  ASSUME IInv, SerialInv, NEW p \in Procs, req[p].op \in {"purchase", "issue"},
         NEW kind, NEW qty, NewDoc(p, kind, qty)
  PROVE  ReversedOnce'
  <1> DEFINE row == [kind |-> kind, key |-> req[p].lines[1].key, qty |-> qty,
                     deleted |-> FALSE, reversals |-> 0]
  <1>1. doc' = [doc EXCEPT ![req[p].ref] = row] /\ row.reversals = 0
    BY DEF NewDoc
  <1> HIDE DEF row
  <1>2. req[p].ref \in Docs
    BY DocRequest
  <1> QED
    BY <1>1, <1>2 DEF IInv, TypeOK, SerialInv, ReversedOnce

LEMMA PostReversalSerial ==
  ASSUME IInv, SerialInv, NEW p \in Procs, PostReversal(p)
  PROVE  ReversedOnce'
  <1> DEFINE d0 == req[p].ref
  <1>1. d0 \in Docs /\ doc[d0] \in DocRow /\ ~doc[d0].deleted /\ doc[d0] # Null
    BY DocRequest DEF PostReversal, SerialInv, Undisturbed
  <1>2. doc[d0].reversals = 0
    BY <1>1 DEF IInv, DeletedIffReversed, DocRow
  <1>3. Reversed(doc[d0]).reversals = 1
    BY <1>1, <1>2 DEF Reversed, DocRow
  <1>4. doc' = [doc EXCEPT ![d0] = Reversed(doc[d0])]
    BY DEF PostReversal
  <1> HIDE DEF d0
  <1> QED
    BY <1>1, <1>3, <1>4 DEF IInv, TypeOK, SerialInv, ReversedOnce

\* The opening stock of a new item is on the shelf and in the ledger.
LEMMA CreateItemSerial ==
  ASSUME Alone, IInv, SerialInv, NEW i \in Items, NEW w \in Warehouses, NEW n \in Int, NEW price,
         CreateItem(i, w, n, price)
  PROVE  SerialInv'
  <1>1. item[i] = "absent" /\ <<i, w>> \in Keys /\ UNCHANGED <<doc, req>>
    BY DEF CreateItem, Keys
  <1>2. ASSUME NEW k \in Keys
        PROVE  Drift(k)' = 0 /\ \A q \in Procs : Wrote(q, k) => level'[k] = level[k]
    <2>1. Drift(k) = 0
      BY DEF SerialInv, LedgerNeverDrifts
    <2>2. CASE k = <<i, w>> /\ n > 0
      <3>1. \A q \in Procs : ~Wrote(q, k)
        BY <1>1, <2>2 DEF IInv, AbsentUntouched
      <3>2. /\ level' = [level EXCEPT ![k] = n]
            /\ ledger' = [ledger EXCEPT ![k] = [sum |-> n, last |-> n]]
        BY <2>2 DEF CreateItem
      <3>3. level'[k] = n /\ ledger'[k].sum = n
        BY <3>2 DEF IInv, TypeOK
      <3> QED
        BY <3>1, <3>3 DEF Drift
    <2>3. CASE ~(k = <<i, w>> /\ n > 0)
      <3>1. level'[k] = level[k] /\ ledger'[k] = ledger[k]
        BY <1>1, <2>3 DEF CreateItem, IInv, TypeOK
      <3> QED
        BY <2>1, <3>1 DEF Drift
    <2> QED
      BY <2>2, <2>3
  <1>3. \A q \in Procs, k \in Keys : /\ Wrote(q, k)' <=> Wrote(q, k)
                                     /\ Stale(q, k)' <=> Stale(q, k)
    BY <1>1, <1>2 DEF Wrote, Stale
  <1>4. ASSUME NEW q \in Procs PROVE Undisturbed(q)'
    <2>1. Undisturbed(q)
      BY DEF SerialInv
    <2>2. req[q].pc = "write" => Balance(q)' = Balance(q)
      <3>1. SUFFICES ASSUME req[q].pc = "write" PROVE Balance(q)' = Balance(q)
        OBVIOUS
      <3> DEFINE key == Line1(q).key
      <3>2. /\ req[q].at \in DOMAIN req[q].lines /\ key = req[q].lines[req[q].at].key
            /\ key \in Keys
        BY <3>1, LineFacts DEF Line1, Line
      <3>3. item[key[1]] # "absent" /\ key # <<i, w>>
        BY <1>1, <3>2 DEF IInv, AbsentUntouched
      <3>4. level'[key] = level[key]
        BY <1>1, <3>2, <3>3 DEF CreateItem, IInv, TypeOK
      <3> QED
        BY <1>1, <3>4 DEF Balance, Seen, Line1, Wrote
    <2> QED
      BY <1>1, <1>3, <2>1, <2>2 DEF Undisturbed
  <1> QED
    BY <1>1, <1>2, <1>4 DEF SerialInv, LedgerNeverDrifts, ReversedOnce

LEMMA NextSerial == Alone /\ IInv /\ SerialInv /\ [Next]_vars => SerialInv'
  <1> SUFFICES ASSUME Alone, IInv, SerialInv, [Next]_vars PROVE SerialInv'
    OBVIOUS
  <1>1. ASSUME NEW i \in Items, NEW w \in Warehouses, NEW q \in Quantities \cup {0},
               NEW c \in Prices, CreateItem(i, w, q, c)
        PROVE  SerialInv'
    <2>1. PICK n \in Int : n = q
      OBVIOUS
    <2> QED
      BY <1>1, <2>1, CreateItemSerial
  <1>2. ASSUME NEW p \in Procs, Arrive(p) PROVE SerialInv'
    BY <1>2, ArriveSerial
  <1>3. ASSUME NEW p \in Procs, Serve(p) PROVE SerialInv'
    <2>1. CASE PostMovement(p)
      BY <2>1, CommitSerial DEF PostMovement, SerialInv, ReversedOnce
    <2>2. CASE PostPurchase(p)
      BY <2>2, CommitSerial, NewDocSerial DEF PostPurchase
    <2>3. CASE PostIssue(p)
      BY <2>3, CommitSerial, NewDocSerial DEF PostIssue
    <2>4. CASE PostReversal(p)
      BY <2>4, CommitSerial, PostReversalSerial DEF PostReversal
    <2>5. CASE MarkDeleted(p)
      BY <2>5, EndSerial DEF MarkDeleted, SerialInv, LedgerNeverDrifts, Drift, ReversedOnce
    <2> QED
      BY <1>3, <2>1, <2>2, <2>3, <2>4, <2>5, ReadStockSerial, ReadLevelSerial, WriteLevelSerial
      DEF Serve
  <1>4. ASSUME NEW p \in Procs, Rollback(p) PROVE SerialInv'
    BY <1>4, EndSerial DEF Rollback, SerialInv, LedgerNeverDrifts, Drift, ReversedOnce, dbVars
  <1>5. CASE UNCHANGED vars
    <2>1. UNCHANGED <<level, ledger, doc, req>>
      BY <1>5 DEF vars, dbVars
    <2> QED
      BY <2>1 DEF SerialInv, LedgerNeverDrifts, Drift, ReversedOnce, Undisturbed, Stale, Wrote,
                  Balance, Seen, Line1
  <1> QED
    BY <1>1, <1>2, <1>3, <1>4, <1>5 DEF Next

LEMMA SerialInvariant == ASSUME Alone PROVE Spec => []SerialInv
  BY Alone, EngineInvariant, InitSerial, NextSerial, PTL DEF Spec

\* As long as one request is served at a time, the ledger and the running
\* balance agree after every step, as the comment on applyStockDelta says.
THEOREM SerialNoDrift == ASSUME Alone PROVE Spec => []LedgerNeverDrifts
  <1>1. SerialInv => LedgerNeverDrifts
    BY DEF SerialInv
  <1> QED
    BY <1>1, SerialInvariant, PTL

\* As long as one request is served at a time, no purchase or issue is
\* reversed twice.
THEOREM SerialReversedOnce == ASSUME Alone PROVE Spec => []ReversedOnce
  <1>1. SerialInv => ReversedOnce
    BY DEF SerialInv
  <1> QED
    BY <1>1, SerialInvariant, PTL

-----------------------------------------------------------------------------
(***************************************************************************)
(* One request in flight at a time: what is committed is what was asked.   *)
(***************************************************************************)
LEMMA IdleAsked ==
  ASSUME NEW p \in Procs, req[p] = Idle
  PROVE  Asked(req[p].op, req[p].lines, req[p].ref) /\ Written(p)
  BY DEF Asked, Written, Idle

LEMMA InitAsked == Init => AskedInv
  BY IdleAsked DEF Init, AskedInv

LEMMA BeginAsked ==
  ASSUME Alone, IInv, NEW p \in Procs, NEW op \in Ops, NEW pc \in {"cost", "read", "mark"},
         NEW lines \in Seq(Line), NEW ref, Begin(p, op, pc, lines, ref), UNCHANGED dbVars,
         Asked(op, lines, ref)
  PROVE  AskedInv'
  <1> DEFINE new == [Idle EXCEPT !.pc = pc, !.op = op, !.lines = lines, !.ref = ref]
  <1>1. /\ req' = [req EXCEPT ![p] = new]
        /\ new.pc = pc /\ new.op = op /\ new.lines = lines /\ new.ref = ref /\ new.at = 1
    BY DEF Begin, Idle
  <1> HIDE DEF new
  <1>2. req'[p] = new
    BY <1>1 DEF IInv, TypeOK
  <1>3. \A n \in DOMAIN lines : ~(n < 1)
    OBVIOUS
  <1>4. Asked(req[p].op, req[p].lines, req[p].ref)'
    BY <1>1, <1>2 DEF Asked, dbVars
  <1>5. Written(p)'
    BY <1>1, <1>2, <1>3 DEF Written
  <1> QED
    BY <1>4, <1>5 DEF AskedInv, Alone

LEMMA ArriveAsked ==
  ASSUME Alone, IInv, NEW p \in Procs, Arrive(p)
  PROVE  AskedInv'
  <1>1. ASSUME NEW op \in Ops, NEW k \in Keys, NEW delta \in Int, NEW ref, op # "transfer",
               NEW pc \in {"cost", "read"}, Begin(p, op, pc, <<[key |-> k, delta |-> delta]>>, ref), UNCHANGED dbVars,
               op = "move" => \E q \in Quantities, s \in {-1, 0, 1} : delta = s * q,
               op = "adjust" => \E c \in Counts : delta = c - level[k],
               op = "purchase" => delta \in Quantities /\ doc[ref] = Null,
               op = "issue" => -delta \in Quantities /\ doc[ref] = Null,
               op = "undo" => k = doc[ref].key /\ delta = Reversal(doc[ref])
        PROVE  AskedInv'
    <2> DEFINE lines == <<[key |-> k, delta |-> delta]>>
    <2>1. lines \in Seq(Line) /\ DOMAIN lines = {1} /\ lines[1].key = k /\ lines[1].delta = delta
      BY DEF Line
    <2>2. Begin(p, op, pc, lines, ref)
      BY <1>1
    <2> HIDE DEF lines
    <2>3. Asked(op, lines, ref)
      BY <1>1, <2>1 DEF Asked
    <2> QED
      BY <1>1, <2>1, <2>2, <2>3, BeginAsked
  <1>2. ASSUME NEW i \in Items, DeleteItem(p, i) PROVE AskedInv'
    <2>1. <<>> \in Seq(Line) /\ Asked("delete", <<>>, i)
      BY DEF Asked
    <2>2. Begin(p, "delete", "mark", <<>>, i) /\ UNCHANGED dbVars
      BY <1>2 DEF DeleteItem
    <2> QED
      BY <2>1, <2>2, BeginAsked DEF Ops
  <1>3. ASSUME NEW k \in Keys, NEW q \in Quantities, NEW s \in {-1, 0, 1},
               RecordTransaction(p, k, s * q)
        PROVE  AskedInv'
    <2>1. PICK delta \in Int : delta = s * q
      OBVIOUS
    <2>2. Begin(p, "move", "read", <<[key |-> k, delta |-> delta]>>, Null) /\ UNCHANGED dbVars
      BY <1>3, <2>1 DEF RecordTransaction
    <2> QED
      BY <1>1, <2>1, <2>2 DEF Ops
  <1>4. ASSUME NEW k \in Keys, NEW c \in Counts, AdjustStock(p, k, c) PROVE AskedInv'
    <2>1. c - level[k] \in Int
      BY DEF IInv, TypeOK
    <2>2. /\ Begin(p, "adjust", "read", <<[key |-> k, delta |-> c - level[k]]>>, Null)
          /\ UNCHANGED dbVars
      BY <1>4 DEF AdjustStock
    <2> QED
      BY <1>1, <2>1, <2>2 DEF Ops
  <1>5. ASSUME NEW i \in Items, NEW from \in Warehouses, NEW to \in Warehouses,
               NEW q \in Quantities \cup {0}, Transfer(p, i, from, to, q)
        PROVE  AskedInv'
    <2> DEFINE lines == <<[key |-> <<i, from>>, delta |-> -q], [key |-> <<i, to>>, delta |-> q]>>
    <2>1. /\ lines \in Seq(Line) /\ DOMAIN lines = {1, 2}
          /\ lines[1].delta = -q /\ lines[2].delta = q
      BY DEF Line, Keys
    <2>2. Begin(p, "transfer", "read", lines, Null) /\ UNCHANGED dbVars
      BY <1>5 DEF Transfer
    <2> HIDE DEF lines
    <2>3. Asked("transfer", lines, Null)
      BY <2>1 DEF Asked
    <2> QED
      BY <2>1, <2>2, <2>3, BeginAsked DEF Ops
  <1>6. ASSUME NEW k \in Keys, NEW q \in Quantities, NEW d \in Docs, RecordPurchase(p, k, q, d)
        PROVE  AskedInv'
    <2>1. PICK n \in Int : n = q
      OBVIOUS
    <2>2. /\ Begin(p, "purchase", "cost", <<[key |-> k, delta |-> n]>>, d) /\ UNCHANGED dbVars
          /\ doc[d] = Null
      BY <1>6, <2>1 DEF RecordPurchase, Fresh
    <2> QED
      BY <1>1, <2>1, <2>2 DEF Ops
  <1>7. ASSUME NEW k \in Keys, NEW q \in Quantities, NEW d \in Docs, IssueStock(p, k, q, d)
        PROVE  AskedInv'
    <2>1. PICK n \in Int : n = -q /\ -n = q
      OBVIOUS
    <2>2. /\ Begin(p, "issue", "read", <<[key |-> k, delta |-> n]>>, d) /\ UNCHANGED dbVars
          /\ doc[d] = Null
      BY <1>7, <2>1 DEF IssueStock, Fresh
    <2> QED
      BY <1>1, <2>1, <2>2 DEF Ops
  <1>8. ASSUME NEW d \in Docs, DeleteDoc(p, d) PROVE AskedInv'
    <2>1. doc[d] \in DocRow
      BY <1>8 DEF DeleteDoc, IInv, TypeOK
    <2>2. Reversal(doc[d]) \in Int /\ doc[d].key \in Keys
      BY <2>1 DEF DocRow, Reversal
    <2>3. /\ Begin(p, "undo", "read", <<[key |-> doc[d].key, delta |-> Reversal(doc[d])]>>, d)
          /\ UNCHANGED dbVars
      BY <1>8 DEF DeleteDoc
    <2> QED
      BY <1>1, <2>2, <2>3 DEF Ops
  <1> QED
    BY <1>2, <1>3, <1>4, <1>5, <1>6, <1>7, <1>8 DEF Arrive

LEMMA EndAsked ==
  ASSUME Alone, IInv, NEW p \in Procs, End(p)
  PROVE  AskedInv'
  <1>1. req'[p] = Idle
    BY EndFacts DEF IInv
  <1>2. (Asked(req[p].op, req[p].lines, req[p].ref) /\ Written(p))'
    BY <1>1 DEF Asked, Written, Idle
  <1> QED
    BY <1>2 DEF AskedInv, Alone

LEMMA ReadStockAsked ==
  ASSUME Alone, IInv, AskedInv, NEW p \in Procs, NEW price, ReadStock(p, price)
  PROVE  AskedInv'
  <1>1. Asked(req[p].op, req[p].lines, req[p].ref) /\ Written(p) /\ TypeOK
    BY DEF AskedInv, IInv
  <1>2. /\ req'[p].rows = req[p].rows /\ req'[p].lines = req[p].lines
        /\ req'[p].at = req[p].at /\ req'[p].op = req[p].op /\ req'[p].ref = req[p].ref
        /\ req'[p].pc = "read" /\ UNCHANGED <<level, doc>>
    BY <1>1, ReadStockFacts DEF dbVars
  <1>3. Asked(req[p].op, req[p].lines, req[p].ref)'
    BY <1>1, <1>2 DEF Asked
  <1>4. Written(p)'
    BY <1>1, <1>2 DEF Written, Wrote
  <1> QED
    BY <1>3, <1>4 DEF AskedInv, Alone

LEMMA ReadLevelAsked ==
  ASSUME Alone, IInv, AskedInv, NEW p \in Procs, ReadLevel(p)
  PROVE  AskedInv'
  <1>1. CASE End(p)
    BY <1>1, EndAsked
  <1>2. CASE /\ req' = [req EXCEPT ![p] = [req[p] EXCEPT !.pc = "write", !.balance = Balance(p)]]
             /\ UNCHANGED dbVars
    <2> DEFINE b == Balance(p)
               new == [req[p] EXCEPT !.pc = "write", !.balance = b]
    <2>1. req[p] \in Request /\ req' = [req EXCEPT ![p] = new]
      BY <1>2 DEF IInv, TypeOK
    <2> HIDE DEF b
    <2>2. /\ new.rows = req[p].rows /\ new.lines = req[p].lines /\ new.at = req[p].at
          /\ new.op = req[p].op /\ new.ref = req[p].ref /\ new.pc = "write"
      BY <2>1 DEF Request
    <2> HIDE DEF new
    <2>3. req'[p] = new
      BY <2>1 DEF IInv, TypeOK
    <2>4. UNCHANGED <<level, doc>>
      BY <1>2 DEF dbVars
    <2>5. Asked(req[p].op, req[p].lines, req[p].ref) /\ Written(p)
      BY DEF AskedInv
    <2>6. Asked(req[p].op, req[p].lines, req[p].ref)'
      BY <2>2, <2>3, <2>4, <2>5 DEF Asked
    <2>7. Written(p)'
      BY <2>2, <2>3, <2>5 DEF Written, Wrote
    <2> QED
      BY <2>6, <2>7 DEF AskedInv, Alone
  <1> QED
    BY <1>1, <1>2 DEF ReadLevel

LEMMA WriteLevelAsked ==
  ASSUME Alone, IInv, SerialInv, AskedInv, NEW p \in Procs, WriteLevel(p)
  PROVE  AskedInv'
  <1>a. Line1(p) \in Line /\ req[p] \in Request /\ req[p].balance >= 0
    BY LineFacts DEF WriteLevel, IInv, TypeOK, RequestOK
  <1>b. PICK key \in Keys : key = Line1(p).key
    BY <1>a DEF Line
  <1>c. PICK at \in Nat : at = req[p].at /\ at \in DOMAIN req[p].lines /\ key = req[p].lines[at].key
    BY <1>a, <1>b, LineFacts DEF Request, WriteLevel, Line1
  <1>1. /\ req'[p].lines = req[p].lines /\ req'[p].at = at + 1
        /\ req'[p].op = req[p].op /\ req'[p].ref = req[p].ref
        /\ req'[p].rows = RowsAfter(p)
        /\ UNCHANGED <<level, ledger, doc>>
    BY <1>c, WriteFacts DEF dbVars
  <1>2. req'[p].pc = "post" => at = Len(req[p].lines)
    BY <1>a, <1>c DEF WriteLevel, IInv, TypeOK, Request
  <1>3. Asked(req[p].op, req[p].lines, req[p].ref) /\ Written(p) /\ Undisturbed(p)
    BY DEF AskedInv, SerialInv
  <1>4. /\ req'[p].rows[key] = [delta |-> req[p].lines[at].delta, balance |-> req[p].balance]
        /\ \A k \in Keys \ {key} : req'[p].rows[k] = req[p].rows[k]
    <2>1. req[p].rows \in [Keys -> Row]
      BY <1>a DEF Request
    <2>2. req'[p].rows = [req[p].rows EXCEPT ![key] =
                            [delta |-> req[p].lines[at].delta, balance |-> req[p].balance]]
      BY <1>1, <1>b, <1>c DEF RowsAfter, Line1
    <2> QED
      BY <2>1, <2>2
  <1>5. Wrote(p, key)' /\ req'[p].rows[key].delta = req[p].lines[at].delta
    <2>1. req[p].balance \in Int
      BY <1>a DEF Request
    <2> QED
      BY <1>a, <1>4, <2>1 DEF Wrote, NoRow
  <1>6. ASSUME NEW n \in DOMAIN req[p].lines, n < at + 1
        PROVE  /\ Wrote(p, req[p].lines[n].key)'
               /\ req'[p].rows[req[p].lines[n].key].delta = req[p].lines[n].delta
    <2>0. n \in Int /\ req[p].lines[n].key \in Keys
      <3>1. req[p].lines \in Seq(Line)
        BY <1>a DEF Request
      <3>2. req[p].lines[n] \in Line /\ n \in Int
        BY <3>1
      <3> QED
        BY <3>2 DEF Line
    <2>1. CASE n = at
      BY <1>1, <1>5, <1>c, <2>1 DEF Wrote
    <2>2. CASE n # at
      <3>1. n < at
        BY <1>6, <2>0, <2>2
      <3>2. req[p].lines[n].key # key
        BY <1>3, <1>c, <2>2 DEF Undisturbed
      <3>3. Wrote(p, req[p].lines[n].key) /\ req[p].rows[req[p].lines[n].key].delta = req[p].lines[n].delta
        BY <1>3, <1>c, <3>1 DEF Written
      <3> QED
        BY <1>1, <1>4, <2>0, <3>2, <3>3 DEF Wrote
    <2> QED
      BY <2>1, <2>2
  <1>7. at = Len(req[p].lines) => \A n \in DOMAIN req[p].lines : n < at + 1
    BY <1>a DEF Request
  <1>8. Written(p)'
    <2>1. /\ \A n \in DOMAIN req[p].lines : n < at + 1 =>
               /\ Wrote(p, req[p].lines[n].key)'
               /\ req'[p].rows[req[p].lines[n].key].delta = req[p].lines[n].delta
          /\ req'[p].pc = "post" => \A n \in DOMAIN req[p].lines : n < at + 1
      BY <1>2, <1>6, <1>7
    <2> QED
      BY <1>1, <2>1 DEF Written, Wrote
  <1>9. Asked(req[p].op, req[p].lines, req[p].ref)'
    BY <1>1, <1>3 DEF Asked
  <1> QED
    BY <1>8, <1>9 DEF AskedInv, Alone

\* The lines of a request are of items that exist, so a new item leaves them.
LEMMA CreateItemAsked ==
  ASSUME IInv, AskedInv, NEW i \in Items, NEW w \in Warehouses, NEW n, NEW price,
         CreateItem(i, w, n, price)
  PROVE  AskedInv'
  <1>1. item[i] = "absent" /\ <<i, w>> \in Keys /\ UNCHANGED <<doc, req>>
    BY DEF CreateItem, Keys
  <1>2. \A k \in Keys : k # <<i, w>> => level'[k] = level[k]
    BY <1>1 DEF CreateItem, IInv, TypeOK
  <1>3. ASSUME NEW p \in Procs PROVE (Asked(req[p].op, req[p].lines, req[p].ref) /\ Written(p))'
    <2>1. Asked(req[p].op, req[p].lines, req[p].ref) /\ Written(p)
      BY DEF AskedInv
    <2>2. req[p].op = "adjust" => level'[req[p].lines[1].key] = level[req[p].lines[1].key]
      <3> SUFFICES ASSUME req[p].op = "adjust"
                   PROVE  level'[req[p].lines[1].key] = level[req[p].lines[1].key]
        OBVIOUS
      <3>1. 1 \in DOMAIN req[p].lines /\ req[p].lines \in Seq(Line)
        BY <2>1 DEF Asked, IInv, TypeOK, Request
      <3>2. req[p].lines[1].key \in Keys
        <4>1. req[p].lines[1] \in Line
          BY <3>1
        <4> QED
          BY <4>1 DEF Line
      <3>3. req[p].lines[1].key # <<i, w>>
        BY <1>1, <3>1 DEF IInv, AbsentUntouched
      <3> QED
        BY <1>2, <3>2, <3>3
    <2> QED
      BY <1>1, <2>1, <2>2 DEF Asked, Written, Wrote
  <1> QED
    BY <1>3 DEF AskedInv

LEMMA NextAsked == Alone /\ IInv /\ SerialInv /\ AskedInv /\ [Next]_vars => AskedInv'
  <1> SUFFICES ASSUME Alone, IInv, SerialInv, AskedInv, [Next]_vars PROVE AskedInv'
    OBVIOUS
  <1>1. ASSUME NEW p \in Procs, Serve(p) PROVE AskedInv'
    BY <1>1, EndAsked, ReadStockAsked, ReadLevelAsked, WriteLevelAsked
    DEF Serve, PostMovement, PostPurchase, PostIssue, PostReversal, MarkDeleted, CommitRows
  <1>2. ASSUME NEW p \in Procs, Rollback(p) PROVE AskedInv'
    BY <1>2, EndAsked DEF Rollback
  <1>3. CASE UNCHANGED vars
    <2>1. UNCHANGED <<level, doc, req>>
      BY <1>3 DEF vars, dbVars
    <2> QED
      BY <2>1 DEF AskedInv, Asked, Written, Wrote
  <1> QED
    BY <1>1, <1>2, <1>3, ArriveAsked, CreateItemAsked DEF Next

-----------------------------------------------------------------------------
(***************************************************************************)
(* One request in flight at a time: every step is a step of StockLedger    *)
(* or leaves what it can see as it is.                                     *)
(***************************************************************************)
OnLedger == [k \in Keys |-> ledger[k].sum]

\* What a commit adds to the ledger are its lines, and there was enough for them.
LEMMA Posted ==
  ASSUME Alone, IInv, SerialInv, AskedInv, NEW p \in Procs, CommitRows(p)
  PROVE  /\ \A n \in DOMAIN req[p].lines :
              LET k == req[p].lines[n].key
                  delta == req[p].lines[n].delta
              IN  /\ k \in Keys /\ delta \in Int /\ ledger[k].sum \in Int
                  /\ ledger'[k].sum = ledger[k].sum + delta
                  /\ ledger[k].sum + delta >= 0
                  /\ ledger[k].sum = level[k]
         /\ \A k \in Keys : (\A n \in DOMAIN req[p].lines : req[p].lines[n].key # k)
              => ledger'[k].sum = ledger[k].sum
  <1>1. /\ Written(p) /\ Undisturbed(p) /\ req[p] \in Request /\ req[p].pc = "post"
        /\ \A k \in Keys : ledger'[k] = LedgerAfter(p, k)
    BY CommitFacts DEF AskedInv, SerialInv, CommitRows, IInv, TypeOK
  <1>2. ASSUME NEW n \in DOMAIN req[p].lines, NEW k, k = req[p].lines[n].key
        PROVE  /\ k \in Keys /\ req[p].lines[n].delta \in Int /\ ledger[k].sum \in Int
               /\ ledger'[k].sum = ledger[k].sum + req[p].lines[n].delta
               /\ ledger[k].sum + req[p].lines[n].delta >= 0
               /\ ledger[k].sum = level[k]
    <2>1. k \in Keys /\ req[p].lines[n].delta \in Int
      <3>1. req[p].lines \in Seq(Line)
        BY <1>1 DEF Request
      <3>2. req[p].lines[n] \in Line
        BY <3>1
      <3> QED
        BY <1>2, <3>2 DEF Line
    <2>2. Wrote(p, k) /\ req[p].rows[k].delta = req[p].lines[n].delta
      BY <1>1, <1>2 DEF Written
    <2>3. ledger'[k].sum = ledger[k].sum + req[p].lines[n].delta
      <3>1. ledger'[k] = LedgerAfter(p, k)
        BY <1>1, <2>1
      <3>2. LedgerAfter(p, k).sum = ledger[k].sum + req[p].rows[k].delta
        BY <2>2 DEF LedgerAfter
      <3> QED
        BY <2>2, <3>1, <3>2
    <2>4. ledger[k].sum \in Int /\ level[k] \in Int /\ ledger[k].sum = level[k]
      BY <2>1 DEF IInv, TypeOK, SerialInv, LedgerNeverDrifts, Drift
    <2>5. /\ req[p].rows[k].balance \in Int /\ req[p].rows[k].balance >= 0
          /\ req[p].rows[k].balance - req[p].rows[k].delta = level[k]
      BY <1>1, <2>1, <2>2 DEF Undisturbed, Stale, IInv, StockNeverNegative, Request, Row
    <2> QED
      BY <2>1, <2>2, <2>3, <2>4, <2>5
  <1>3. ASSUME NEW k \in Keys, \A n \in DOMAIN req[p].lines : req[p].lines[n].key # k
        PROVE  ledger'[k].sum = ledger[k].sum
    <2>1. ~Wrote(p, k)
      BY <1>1, <1>3 DEF Undisturbed
    <2> QED
      BY <1>1, <2>1 DEF LedgerAfter
  <1> QED
    BY <1>2, <1>3

\* A request of one line moves one balance.
LEMMA OneLinePosted ==
  ASSUME Alone, IInv, SerialInv, AskedInv, NEW p \in Procs, CommitRows(p),
         DOMAIN req[p].lines = {1}
  PROVE  LET k == req[p].lines[1].key
             delta == req[p].lines[1].delta
         IN  /\ k \in Keys /\ delta \in Int
             /\ OnLedger[k] \in Int /\ OnLedger[k] = level[k] /\ OnLedger[k] + delta >= 0
             /\ OnLedger' = [OnLedger EXCEPT ![k] = OnLedger[k] + delta]
  <1> DEFINE k0 == req[p].lines[1].key
             d0 == req[p].lines[1].delta
  <1>1. /\ k0 \in Keys /\ d0 \in Int /\ ledger[k0].sum \in Int
        /\ ledger'[k0].sum = ledger[k0].sum + d0
        /\ ledger[k0].sum + d0 >= 0
        /\ ledger[k0].sum = level[k0]
    BY Posted
  <1>2. \A k \in Keys : k # k0 => ledger'[k].sum = ledger[k].sum
    BY Posted
  <1> HIDE DEF k0, d0
  <1>3. OnLedger' = [OnLedger EXCEPT ![k0] = OnLedger[k0] + d0]
    BY <1>1, <1>2 DEF OnLedger
  <1>4. OnLedger[k0] = ledger[k0].sum
    BY <1>1 DEF OnLedger
  <1> QED
    BY <1>1, <1>3, <1>4 DEF k0, d0

\* Receipts, issues, corrections, stock takes and transfers.
LEMMA MovementStep ==
  ASSUME Alone, IInv, SerialInv, AskedInv, NEW p \in Procs, PostMovement(p)
  PROVE  Ledger!Next
  <1> DEFINE k0 == req[p].lines[1].key
             d0 == req[p].lines[1].delta
  <1>1. CommitRows(p) /\ UNCHANGED doc /\ Asked(req[p].op, req[p].lines, req[p].ref)
    BY DEF PostMovement, AskedInv
  <1>2. CASE req[p].op \in {"move", "adjust"}
    <2>1. /\ k0 \in Keys /\ d0 \in Int
          /\ OnLedger[k0] \in Int /\ OnLedger[k0] = level[k0] /\ OnLedger[k0] + d0 >= 0
          /\ OnLedger' = [OnLedger EXCEPT ![k0] = OnLedger[k0] + d0]
      BY <1>1, <1>2, OneLinePosted DEF Asked
    <2>2. CASE req[p].op = "move"
      <3>1. PICK q \in Quantities, s \in {-1, 0, 1} : d0 = s * q
        BY <1>1, <2>2 DEF Asked
      <3> HIDE DEF k0, d0
      <3>2. PICK k \in Keys : k = k0
        BY <2>1
      <3>3. PICK n \in Int : n = d0 /\ n = s * q
        BY <2>1, <3>1
      <3>4. Ledger!Move(k, n)
        BY <1>1, <2>1, <3>2, <3>3 DEF Ledger!Move, Ledger!Put, OnLedger
      <3>5. Ledger!Move(k, s * q)
        BY <3>3, <3>4
      <3> QED
        BY <3>5 DEF Ledger!Next
    <2>3. CASE req[p].op = "adjust"
      <3>1. PICK c \in Counts : d0 = c - level[k0]
        BY <1>1, <2>3 DEF Asked
      <3> HIDE DEF k0, d0
      <3>2. OnLedger[k0] + d0 = c
        <4>1. PICK n \in Int : n = level[k0] /\ OnLedger[k0] = n
          BY <2>1
        <4>2. d0 = c - n /\ c \in Int
          BY <3>1, <4>1
        <4> QED
          BY <4>1, <4>2
      <3>3. Ledger!Count(k0, c)
        BY <1>1, <2>1, <3>2 DEF Ledger!Count, OnLedger
      <3> QED
        BY <2>1, <3>3 DEF Ledger!Next
    <2> QED
      BY <1>2, <2>2, <2>3
  <1>3. CASE req[p].op = "transfer"
    <2> DEFINE k2 == req[p].lines[2].key
               d2 == req[p].lines[2].delta
    <2>1. /\ DOMAIN req[p].lines = {1, 2} /\ 1 \in DOMAIN req[p].lines /\ 2 \in DOMAIN req[p].lines
          /\ k0 # k2
      BY <1>1, <1>3 DEF Asked, SerialInv, Undisturbed
    <2>2. PICK q \in Quantities \cup {0} : d0 = -q /\ d2 = q
      <3>1. Asked("transfer", req[p].lines, req[p].ref)
        BY <1>1, <1>3
      <3> QED
        BY <3>1, Zenon DEF Asked
    <2>20. q \in Int
      <3>1. Quantities \subseteq Int
        BY ConstantsAssumption
      <3>2. q \in Quantities \cup {0}
        BY <2>2
      <3> QED
        BY <3>1, <3>2
    <2>3. /\ k0 \in Keys /\ k2 \in Keys
          /\ ledger[k0].sum \in Int /\ ledger[k2].sum \in Int
          /\ ledger'[k0].sum = ledger[k0].sum + d0 /\ ledger'[k2].sum = ledger[k2].sum + d2
          /\ ledger[k0].sum + d0 >= 0
      BY <1>1, <2>1, Posted
    <2>4. \A k \in Keys : k # k0 /\ k # k2 => ledger'[k].sum = ledger[k].sum
      BY <1>1, <2>1, Posted
    <2> HIDE DEF k0, d0, k2, d2
    <2>5. q <= ledger[k0].sum /\ ledger'[k0].sum = ledger[k0].sum - q
          /\ ledger'[k2].sum = ledger[k2].sum + q
      <3>1. PICK n \in Int : n = ledger[k0].sum
        BY <2>3
      <3>2. n + (-q) >= 0 /\ ledger'[k0].sum = n + (-q)
        BY <2>2, <2>3, <3>1
      <3> QED
        BY <2>2, <2>3, <2>20, <3>1, <3>2
    <2>6. OnLedger' = [OnLedger EXCEPT ![k0] = OnLedger[k0] - q, ![k2] = OnLedger[k2] + q]
      BY <2>1, <2>3, <2>4, <2>5 DEF OnLedger
    <2>7. Ledger!Transfer(k0, k2, q)
      BY <1>1, <2>1, <2>3, <2>5, <2>6 DEF Ledger!Transfer, OnLedger
    <2> QED
      BY <2>3, <2>7 DEF Ledger!Next
  <1> QED
    BY <1>2, <1>3 DEF PostMovement

\* Purchases and issues, with their documents.
LEMMA DocumentStep ==
  ASSUME Alone, IInv, SerialInv, AskedInv, NEW p \in Procs, PostPurchase(p) \/ PostIssue(p)
  PROVE  Ledger!Next
  <1> DEFINE k0 == req[p].lines[1].key
             d0 == req[p].lines[1].delta
             kind == IF req[p].op = "purchase" THEN "purchase" ELSE "consumption"
             q == IF req[p].op = "purchase" THEN d0 ELSE -d0
  <1>1. /\ CommitRows(p) /\ Asked(req[p].op, req[p].lines, req[p].ref)
        /\ req[p].op \in {"purchase", "issue"} /\ NewDoc(p, kind, q)
    BY DEF PostPurchase, PostIssue, AskedInv
  <1>2. /\ k0 \in Keys /\ d0 \in Int /\ OnLedger[k0] + d0 >= 0
        /\ OnLedger' = [OnLedger EXCEPT ![k0] = OnLedger[k0] + d0]
    BY <1>1, OneLinePosted DEF Asked
  <1>3. q \in Quantities /\ d0 = IF kind = "purchase" THEN q ELSE -q
    BY <1>1, <1>2 DEF Asked
  <1>4. req[p].ref \in Docs /\ doc[req[p].ref] = Null
    BY <1>1, DocRequest DEF Asked
  <1>5. kind \in {"purchase", "consumption"}
    OBVIOUS
  <1>6. doc' = [doc EXCEPT ![req[p].ref] = [kind |-> kind, key |-> k0, qty |-> q,
                                            deleted |-> FALSE, reversals |-> 0]]
    BY <1>1 DEF NewDoc
  <1> HIDE DEF k0, d0, kind, q
  <1>7. PICK d \in Docs, sort \in {"purchase", "consumption"}, k \in Keys, n \in Quantities :
           d = req[p].ref /\ sort = kind /\ k = k0 /\ n = q
    BY <1>2, <1>3, <1>4, <1>5
  <1>8. Ledger!Document(d, sort, k, n)
    BY <1>2, <1>3, <1>4, <1>6, <1>7 DEF Ledger!Document, Ledger!Put, OnLedger
  <1> QED
    BY <1>8 DEF Ledger!Next

\* A document that is taken back.
LEMMA ReversalStep ==
  ASSUME Alone, IInv, SerialInv, AskedInv, NEW p \in Procs, PostReversal(p)
  PROVE  Ledger!Next
  <1> DEFINE d == req[p].ref
             row == doc[d]
             delta == Reversal(row)
  <1>1. /\ CommitRows(p) /\ Asked(req[p].op, req[p].lines, req[p].ref) /\ req[p].op = "undo"
        /\ doc' = [doc EXCEPT ![d] = Reversed(row)]
    BY DEF PostReversal, AskedInv
  <1>2. d \in Docs /\ row \in DocRow /\ row # Null /\ ~row.deleted
    BY <1>1, DocRequest DEF SerialInv, Undisturbed
  <1>3. row.reversals = 0
    BY <1>2 DEF IInv, DeletedIffReversed, DocRow
  <1>4. Reversed(row) = [row EXCEPT !.deleted = TRUE, !.reversals = 1]
    BY <1>3 DEF Reversed
  <1>5. req[p].lines[1].key = row.key /\ req[p].lines[1].delta = delta
    BY <1>1 DEF Asked
  <1>6. /\ row.key \in Keys /\ OnLedger[row.key] + delta >= 0
        /\ OnLedger' = [OnLedger EXCEPT ![row.key] = OnLedger[row.key] + delta]
    BY <1>1, <1>5, OneLinePosted DEF Asked
  <1>7. PICK e \in Docs : e = d
    BY <1>2
  <1>8. Ledger!TakeBack(e)
    BY <1>1, <1>2, <1>4, <1>6, <1>7 DEF Ledger!TakeBack, Ledger!Put, OnLedger, Reversal
  <1> QED
    BY <1>8 DEF Ledger!Next

\* A new item arrives with its opening stock, as a receipt does.
LEMMA OpeningStep ==
  ASSUME IInv, SerialInv, NEW i \in Items, NEW w \in Warehouses, NEW q \in Quantities \cup {0},
         NEW price, CreateItem(i, w, q, price)
  PROVE  Ledger!Next \/ UNCHANGED <<OnLedger, doc>>
  <1> DEFINE k == <<i, w>>
  <1>1. k \in Keys /\ item[k[1]] = "absent" /\ UNCHANGED doc
    BY DEF CreateItem, Keys
  <1>2. ledger[k].sum = 0
    BY <1>1 DEF IInv, AbsentUntouched
  <1> HIDE DEF k
  <1>3. CASE q > 0
    <2>1. ledger' = [ledger EXCEPT ![k] = [sum |-> q, last |-> q]]
      BY <1>3 DEF CreateItem, k
    <2>2. ledger'[k].sum = q /\ \A j \in Keys : j # k => ledger'[j] = ledger[j]
      BY <1>1, <2>1 DEF IInv, TypeOK
    <2>3. OnLedger' = [OnLedger EXCEPT ![k] = q]
      BY <1>1, <2>2 DEF OnLedger
    <2>4. OnLedger[k] = 0
      BY <1>1, <1>2 DEF OnLedger
    <2>5. q \in Quantities /\ OnLedger[k] + q >= 0 /\ OnLedger[k] + q = q /\ q = 1 * q
      BY <1>3, <2>4
    <2>6. OnLedger' = [OnLedger EXCEPT ![k] = OnLedger[k] + q]
      BY <2>3, <2>5
    <2>7. Ledger!Move(k, q)
      BY <1>1, <2>5, <2>6 DEF Ledger!Move, Ledger!Put, OnLedger
    <2> QED
      BY <1>1, <2>5, <2>7 DEF Ledger!Next
  <1>4. CASE ~(q > 0)
    BY <1>1, <1>4 DEF CreateItem, OnLedger
  <1> QED
    BY <1>3, <1>4

LEMMA LedgerStep ==
  Alone /\ IInv /\ SerialInv /\ AskedInv /\ [Next]_vars => [Ledger!Next]_<<OnLedger, doc>>
  <1> SUFFICES ASSUME Alone, IInv, SerialInv, AskedInv, [Next]_vars
               PROVE  Ledger!Next \/ UNCHANGED <<OnLedger, doc>>
    OBVIOUS
  <1>1. UNCHANGED dbVars => UNCHANGED <<OnLedger, doc>>
    BY DEF dbVars, OnLedger
  <1>2. ASSUME NEW p \in Procs, Arrive(p) PROVE UNCHANGED dbVars
    BY <1>2 DEF Arrive, DeleteItem, RecordTransaction, AdjustStock, Transfer, RecordPurchase,
                IssueStock, DeleteDoc
  <1>3. ASSUME NEW p \in Procs, Serve(p) PROVE Ledger!Next \/ UNCHANGED <<OnLedger, doc>>
    <2>1. (\E c \in Prices : ReadStock(p, c)) \/ ReadLevel(p) \/ WriteLevel(p) \/ MarkDeleted(p)
            => UNCHANGED <<OnLedger, doc>>
      BY <1>1 DEF ReadStock, ReadLevel, WriteLevel, MarkDeleted, OnLedger
    <2> QED
      BY <1>3, <2>1, MovementStep, DocumentStep, ReversalStep DEF Serve
  <1>4. ASSUME NEW p \in Procs, Rollback(p) PROVE UNCHANGED dbVars
    BY <1>4 DEF Rollback
  <1>5. CASE UNCHANGED vars
    BY <1>5 DEF vars, dbVars, OnLedger
  <1> QED
    BY <1>1, <1>2, <1>3, <1>4, <1>5, OpeningStep DEF Next

\* As long as one request is served at a time, the engine implements the abstract
\* stock ledger: what a transaction reads, locks, writes and commits over several
\* steps amounts to one movement that was asked for, and to nothing else.
THEOREM SerialImplements == ASSUME Alone PROVE Spec => ImplementsStockLedger
  <1>1. Init => Ledger!Init
    BY DEF Init, Ledger!Init
  <1>2. Spec => []AskedInv
    BY Alone, EngineInvariant, SerialInvariant, InitAsked, NextAsked, PTL DEF Spec
  <1>3. Alone /\ IInv /\ SerialInv /\ AskedInv /\ [Next]_vars
          => [Ledger!Next]_<<[k \in Keys |-> ledger[k].sum], doc>>
    BY LedgerStep DEF OnLedger
  <1> QED
    BY Alone, EngineInvariant, SerialInvariant, <1>1, <1>2, <1>3, PTL
    DEF Spec, Ledger!Spec, ImplementsStockLedger

=============================================================================
