------------------------------ MODULE Accounting ------------------------------
(***************************************************************************)
(* One invoice and its payments (backend/src/modules/accounting/           *)
(* accounting.service.ts).  Invoices share nothing.                        *)
(*                                                                         *)
(* Money is counted in half cents, so that an amount may have more digits  *)
(* than its column: numeric(18,2) rounds what it stores.                   *)
(***************************************************************************)
EXTENDS Integers, Nulls

CONSTANTS
  Cashiers,  \* requests to AccountingService that may be in flight at once
  Amounts    \* totals and payments a client may ask for, in half cents

ASSUME AccountingAssumption == Amounts \subseteq Nat

VARIABLES
  invoice,  \* Invoice.status, Null before the invoice is created
  total,    \* Invoice.total
  paid,     \* the sum of the amounts of its Payment rows
  till,     \* the request each cashier is serving
  tillsCrossed   \* history: two requests have been in flight at once

accountingVars == <<invoice, total, paid, till, tillsCrossed>>

ALLOWED_TRANSITIONS ==
  [DRAFT |-> {"APPROVED", "VOID"}, APPROVED |-> {"VOID"}, PAID |-> {}, VOID |-> {}]

InvoiceStatuses == DOMAIN ALLOWED_TRANSITIONS

ASSUME InvoiceAssumption == Null \notin InvoiceStatuses

\* What a cashier has read and is about to write.
Receipt == [pc : {"idle", "status", "payment"}, to : InvoiceStatuses \cup {Null},
            amount : Nat, remaining : Nat]

NoReceipt == [pc |-> "idle", to |-> Null, amount |-> 0, remaining |-> 0]

\* numeric(18,2): rounded to whole cents, a half cent up.
Cents(a) == 2 * ((a + 1) \div 2)

AccountingTypeOK ==
  /\ invoice \in InvoiceStatuses \cup {Null}
  /\ total \in Nat
  /\ paid \in Nat
  /\ till \in [Cashiers -> Receipt]
  /\ tillsCrossed \in BOOLEAN

AccountingInit ==
  /\ invoice = Null
  /\ total = 0
  /\ paid = 0
  /\ till = [c \in Cashiers |-> NoReceipt]
  /\ tillsCrossed = FALSE

-----------------------------------------------------------------------------
Serve(c, receipt) ==
  /\ till[c] = NoReceipt
  /\ till' = [till EXCEPT ![c] = receipt]
  /\ tillsCrossed' = (tillsCrossed \/ \E d \in Cashiers \ {c} : till[d] # NoReceipt)
  /\ UNCHANGED <<invoice, total, paid>>

Served(c) ==
  /\ till' = [till EXCEPT ![c] = NoReceipt]
  /\ UNCHANGED <<total, tillsCrossed>>

\* The total is the exact sum of subtotal and tax, rounded as it is stored.
CreateInvoice(sum) ==
  /\ invoice = Null
  /\ invoice' = "DRAFT"
  /\ total' = Cents(sum)
  /\ UNCHANGED <<paid, till, tillsCrossed>>

UpdateStatus(c, status) ==
  /\ invoice # Null
  /\ status \in ALLOWED_TRANSITIONS[invoice]
  /\ Serve(c, [NoReceipt EXCEPT !.pc = "status", !.to = status])

WriteInvoice(c) ==
  /\ till[c].pc = "status"
  /\ invoice' = till[c].to
  /\ Served(c)
  /\ UNCHANGED paid

\* MUTANT of RecordPayment: a payment is compared with the whole total.
RecordPayment_OfTotal(c, amount) ==
  /\ invoice = "APPROVED"
  /\ amount > 0
  /\ amount <= total
  /\ Serve(c, [NoReceipt EXCEPT !.pc = "payment", !.amount = amount, !.remaining = total])

RecordPayment(c, amount) ==
  /\ invoice = "APPROVED"
  /\ amount > 0
  /\ amount <= total - paid
  /\ Serve(c, [NoReceipt EXCEPT !.pc = "payment", !.amount = amount, !.remaining = total - paid])

\* The transaction: the row is added, and what was the last payment when the
\* invoice was read makes it PAID.
CommitPayment(c) ==
  /\ till[c].pc = "payment"
  /\ paid' = paid + Cents(till[c].amount)
  /\ invoice' = IF till[c].amount = till[c].remaining THEN "PAID" ELSE invoice
  /\ Served(c)

\* A statement fails or the server dies.
DropPayment(c) ==
  /\ till[c] # NoReceipt
  /\ Served(c)
  /\ UNCHANGED <<invoice, paid>>

AccountingNext ==
  \/ \E sum \in Amounts : CreateInvoice(sum)
  \/ \E c \in Cashiers :
       \/ \E status \in InvoiceStatuses : UpdateStatus(c, status)
       \/ WriteInvoice(c)
       \/ \E amount \in Amounts : RecordPayment(c, amount)
       \/ CommitPayment(c)
       \/ DropPayment(c)

AccountingSpec == AccountingInit /\ [][AccountingNext]_accountingVars

-----------------------------------------------------------------------------
(***************************************************************************)
(* Properties.                                                             *)
(***************************************************************************)

\* PAID is "only ever set by recordPayment() once the payments sum to the full
\* total" (accounting.service.ts:14-15), whatever overlaps.
PaidIsCovered == invoice = "PAID" => paid >= total

\* A payment "would exceed the remaining balance" (README.md:542) only when it
\* overtook another one, roundings included.
OverpaidByOverlapOnly == paid > total => tillsCrossed

PaymentsSettle == PaidIsCovered /\ OverpaidByOverlapOnly

=============================================================================
