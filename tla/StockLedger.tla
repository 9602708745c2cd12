----------------------------- MODULE StockLedger -----------------------------
(***************************************************************************)
(* What the stock engine promises its users, with no transaction, lock or  *)
(* cached balance in sight: every request that succeeds is one indivisible *)
(* movement of stock, a withdrawal never takes more than is there, a stock *)
(* take leaves exactly what was counted, a transfer takes from one place   *)
(* what it gives to another, and a purchase or an issue can be taken back  *)
(* once.                                                                   *)
(***************************************************************************)
EXTENDS Integers

CONSTANTS
  Keys,        \* (item, warehouse) pairs
  Docs,        \* ids of purchases and consumptions
  Quantities,  \* quantities a movement may have, 0 aside
  Counts,      \* results of a physical count
  Null         \* absence of a document

VARIABLES onHand, doc

Init ==
  /\ onHand = [k \in Keys |-> 0]
  /\ doc = [d \in Docs |-> Null]

\* Receipts, issues and corrections; delta is negative when stock leaves.
Put(k, delta) ==
  /\ onHand[k] + delta >= 0
  /\ onHand' = [onHand EXCEPT ![k] = @ + delta]

Move(k, delta) == Put(k, delta) /\ UNCHANGED doc

Count(k, counted) ==
  /\ onHand' = [onHand EXCEPT ![k] = counted]
  /\ UNCHANGED doc

Transfer(from, to, q) ==
  /\ from # to
  /\ q <= onHand[from]
  /\ onHand' = [onHand EXCEPT ![from] = @ - q, ![to] = @ + q]
  /\ UNCHANGED doc

\* Stock in against a purchase, or out against a consumption.
Document(d, kind, k, q) ==
  /\ doc[d] = Null
  /\ Put(k, IF kind = "purchase" THEN q ELSE -q)
  /\ doc' = [doc EXCEPT ![d] = [kind |-> kind, key |-> k, qty |-> q,
                                deleted |-> FALSE, reversals |-> 0]]

\* Taking a document back undoes its movement, once.
TakeBack(d) ==
  /\ doc[d] # Null
  /\ ~doc[d].deleted
  /\ Put(doc[d].key, IF doc[d].kind = "purchase" THEN -doc[d].qty ELSE doc[d].qty)
  /\ doc' = [doc EXCEPT ![d] = [@ EXCEPT !.deleted = TRUE, !.reversals = 1]]

Next ==
  \/ \E k \in Keys, q \in Quantities, s \in {-1, 0, 1} : Move(k, s * q)
  \/ \E k \in Keys, counted \in Counts : Count(k, counted)
  \/ \E from, to \in Keys, q \in Quantities \cup {0} : Transfer(from, to, q)
  \/ \E d \in Docs, kind \in {"purchase", "consumption"}, k \in Keys, q \in Quantities :
       Document(d, kind, k, q)
  \/ \E d \in Docs : TakeBack(d)

Spec == Init /\ [][Next]_<<onHand, doc>>

=============================================================================
