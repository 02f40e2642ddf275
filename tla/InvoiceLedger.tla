---------------------------- MODULE InvoiceLedger ----------------------------
(***************************************************************************)
(* Invoices and the payments booked against them: BillingService and       *)
(* PaymentManagementService of app/modules/billing.                        *)
(*                                                                         *)
(* Every operation reads rows, computes in Python and commits later; no    *)
(* row is locked by its read.  The ORM writes the columns whose value      *)
(* differs from the one it loaded.  An operation is modelled by the steps  *)
(* between its commits, with the read of an invoice and the commit that    *)
(* rests on it kept apart.                                                 *)
(***************************************************************************)
EXTENDS Integers, Sequences, FiniteSets, FiniteSetsExt

CONSTANTS
    Invoices,   \* rows of invoices
    Payments,   \* rows of payments
    Requests,   \* operations that can be under way at once
    Subtotals,  \* subtotals an invoice is created with
    Prices,     \* prices of items; one item of a price each
    Amounts,    \* amounts of payments
    Adjust,     \* tax_amount - discount_amount of an invoice
    MaxMonth,   \* bound on the calendar
    MaxOps      \* bound on the operations that are started

ASSUME LedgerAssumption ==
    /\ Subtotals \subseteq Nat /\ Prices \subseteq Nat /\ Amounts \subseteq Nat /\ Adjust \in Int
    /\ MaxMonth \in Nat \ {0} /\ MaxOps \in Nat
    /\ IsFiniteSet(Invoices) /\ IsFiniteSet(Payments) /\ IsFiniteSet(Requests)
    /\ IsFiniteSet(Prices)

VARIABLES
    month,      \* the year and month of now()
    inv,        \* Invoice rows; status "none": no such row yet
    items,      \* InvoiceItem rows of an invoice, by total_price
    number,     \* Invoice.invoice_number
    pay,        \* Payment rows; status "none": no such row yet
    payno,      \* Payment.payment_number, of those that create_payment made
    activated,  \* invoices whose subscription a payment has activated
    req,        \* operations under way
    ops,        \* operations started
    flaws       \* per invoice: what has happened to it that no row shows

rowVars == <<inv, items, number, pay, payno, activated>>
vars    == <<month, rowVars, req, ops, flaws>>

InvoiceStatus == {"draft", "paid", "overdue"}          \* of six, those told apart
PaymentStatus == {"pending", "completed", "checked", "unchecked", "failed"}
Counted       == {"completed", "checked"}
None     == "none"
NoItem   == -1
NoNumber == <<0, 0>>                 \* numbers are <<month, running number>>
NoRow    == [status |-> None, total |-> 0, paid |-> 0, balance |-> 0]
NoPay    == [status |-> None, amount |-> 0, of |-> None]
Idle     == [pc |-> "idle", inv |-> None, pays |-> {}, to |-> None, by |-> None,
             no |-> NoNumber, amount |-> 0, sum |-> 0, seen |-> NoRow]

Exists(i)   == inv[i].status # None
Recorded(p) == pay[p].status # None

LedgerTypeOK ==
    /\ month \in 1 .. MaxMonth
    /\ \A i \in Invoices :
          /\ inv[i].status \in InvoiceStatus \cup {None}
          /\ {inv[i].total, inv[i].paid, inv[i].balance} \subseteq Int
          /\ Exists(i) <=> number[i] # NoNumber
          /\ items[i] \subseteq Prices /\ (items[i] # {} => Exists(i))
    /\ \A p \in Payments :
          /\ pay[p].status \in PaymentStatus \cup {None}
          /\ payno[p] # NoNumber => Recorded(p)
          /\ Recorded(p) => pay[p].amount \in Amounts /\ Exists(pay[p].of)
    /\ \A h \in Requests :
          req[h].pc \notin {"idle", "invoice"} => Exists(req[h].inv)

Init ==
    /\ month = 1
    /\ inv = [i \in Invoices |-> NoRow]
    /\ items = [i \in Invoices |-> {}]
    /\ number = [i \in Invoices |-> NoNumber]
    /\ pay = [p \in Payments |-> NoPay]
    /\ payno = [p \in Payments |-> NoNumber]
    /\ activated = {}
    /\ req = [h \in Requests |-> Idle]
    /\ ops = 0
    /\ flaws = [i \in Invoices |-> {}]

\* An operation begins, or goes on to its next step.
Begin(h, r) ==
    /\ req[h] = Idle /\ ops < MaxOps
    /\ req' = [req EXCEPT ![h] = r] /\ ops' = ops + 1
Goto(h, r)  == req' = [req EXCEPT ![h] = r] /\ UNCHANGED ops
Alone(h)    == req[h] = Idle /\ ops < MaxOps /\ ops' = ops + 1 /\ UNCHANGED req

Mark(i, why) == flaws' = [flaws EXCEPT ![i] = @ \cup why]

\* What a commit makes of row i, loaded as seen and changed to new.
Flush(i, seen, new) ==
    [c \in DOMAIN new |-> IF new[c] = seen[c] THEN inv[i][c] ELSE new[c]]

\* The columns that are overwritten although they have changed since the load.
Stale(i, seen, cols) == IF \E c \in cols : inv[i][c] # seen[c] THEN {"race"} ELSE {}

-----------------------------------------------------------------------------
(***************************************************************************)
(* Numbers: the count of this month's rows, plus one.                      *)
(***************************************************************************)

NextNumber(taken) ==
    LET mine == {r \in DOMAIN taken : taken[r][1] = month}
    IN  <<month, Cardinality(mine) + 1>>

_generate_invoice_number == NextNumber(number)
_generate_payment_number == NextNumber(payno)

Taken(numbers, no) == \E r \in DOMAIN numbers : numbers[r] = no

-----------------------------------------------------------------------------
(***************************************************************************)
(* Invoices.                                                               *)
(***************************************************************************)

\* create_invoice up to its insert.
InvoiceCount(h) ==
    /\ Begin(h, [Idle EXCEPT !.pc = "invoice", !.no = _generate_invoice_number])
    /\ UNCHANGED <<month, rowVars, flaws>>

\* Mutation: the column has no unique constraint.
InvoiceInsertTwice(h, i, subtotal, item) ==
    /\ req[h].pc = "invoice" /\ ~ Exists(i)
    /\ inv' = [inv EXCEPT ![i] = [status |-> "draft", total |-> subtotal + Adjust,
                                  paid |-> 0, balance |-> subtotal + Adjust]]
    /\ number' = [number EXCEPT ![i] = req[h].no]
    /\ Goto(h, Idle)
    /\ UNCHANGED <<month, items, pay, payno, activated, flaws>>

\* The insert: refused by the database if the number is taken.  The items of
\* the request, here at most one, follow through add_invoice_item.
InvoiceInsert(h, i, subtotal, item) ==
    /\ req[h].pc = "invoice" /\ ~ Exists(i)
    /\ IF Taken(number, req[h].no)
       THEN UNCHANGED <<inv, number>> /\ Goto(h, Idle)
       ELSE /\ inv' = [inv EXCEPT ![i] =
                          [status |-> "draft", total |-> subtotal + Adjust,
                           paid |-> 0, balance |-> subtotal + Adjust]]
            /\ number' = [number EXCEPT ![i] = req[h].no]
            /\ Goto(h, IF item = NoItem THEN Idle
                       ELSE [Idle EXCEPT !.pc = "item", !.inv = i, !.amount = item])
    /\ UNCHANGED <<month, items, pay, payno, activated, flaws>>

\* add_invoice_item called for an invoice that exists.
AddItem(h, i, price) ==
    /\ Exists(i)
    /\ Begin(h, [Idle EXCEPT !.pc = "item", !.inv = i, !.amount = price])
    /\ UNCHANGED <<month, rowVars, flaws>>

\* add_invoice_item: the item is committed, the totals follow.
add_invoice_item(h) ==
    LET i == req[h].inv IN
    /\ req[h].pc = "item"
    /\ items' = [items EXCEPT ![i] = @ \cup {req[h].amount}]
    /\ Goto(h, [req[h] EXCEPT !.pc = "sum"])
    /\ Mark(i, IF inv[i].status = "paid" THEN {"grown"} ELSE {})
    /\ UNCHANGED <<month, inv, number, pay, payno, activated>>

\* _update_invoice_totals reads the items, then the invoice, then commits.
TotalsSum(h) ==
    /\ req[h].pc = "sum"
    /\ Goto(h, [req[h] EXCEPT !.pc = "load", !.sum = SumSet(items[req[h].inv])])
    /\ UNCHANGED <<month, rowVars, flaws>>

TotalsLoad(h) ==
    /\ req[h].pc = "load"
    /\ Goto(h, [req[h] EXCEPT !.pc = "totals", !.seen = inv[req[h].inv]])
    /\ UNCHANGED <<month, rowVars, flaws>>

\* Mutation: the balance is taken to be the total, as for a new invoice.
NewTotalsUnpaid(seen, sum) ==
    [seen EXCEPT !.total = sum + Adjust, !.balance = sum + Adjust]

NewTotals(seen, sum) ==
    [seen EXCEPT !.total = sum + Adjust, !.balance = sum + Adjust - seen.paid]

_update_invoice_totals(h) ==
    LET i == req[h].inv  s == req[h].seen IN
    /\ req[h].pc = "totals"
    /\ inv' = [inv EXCEPT ![i] = Flush(i, s, NewTotals(s, req[h].sum))]
    /\ Mark(i, Stale(i, s, {"total", "paid", "balance"})
               \cup (IF SumSet(items[i]) # req[h].sum THEN {"race"} ELSE {})
               \cup (IF inv[i].status = "paid" THEN {"grown"} ELSE {}))
    /\ Goto(h, Idle)
    /\ UNCHANGED <<month, items, number, pay, payno, activated>>

\* delete_invoice_item: the totals are left as they are.
delete_invoice_item(h, i, price) ==
    /\ price \in items[i]
    /\ items' = [items EXCEPT ![i] = @ \ {price}]
    /\ Alone(h)
    /\ Mark(i, {"deleted"})
    /\ UNCHANGED <<month, inv, number, pay, payno, activated>>

\* update_invoice_status reads the invoice; the write comes with the commit.
StatusLoad(h, i, to) ==
    /\ Exists(i)
    /\ Begin(h, [Idle EXCEPT !.pc = "status", !.inv = i, !.to = to, !.seen = inv[i]])
    /\ UNCHANGED <<month, rowVars, flaws>>

update_invoice_status(h) ==
    LET i == req[h].inv  s == req[h].seen  to == req[h].to
        new == IF to = "paid" THEN [s EXCEPT !.status = to, !.balance = 0]
                              ELSE [s EXCEPT !.status = to]
    IN
    /\ req[h].pc = "status"
    /\ inv' = [inv EXCEPT ![i] = Flush(i, s, new)]
    /\ Mark(i, {"forced"})
    /\ Goto(h, Idle)
    /\ UNCHANGED <<month, items, number, pay, payno, activated>>

-----------------------------------------------------------------------------
(***************************************************************************)
(* Payments.                                                               *)
(***************************************************************************)

\* create_payment up to its insert.
PaymentCount(h, i, amount) ==
    /\ Exists(i)
    /\ Begin(h, [Idle EXCEPT !.pc = "payment", !.inv = i, !.amount = amount,
                             !.no = _generate_payment_number])
    /\ UNCHANGED <<month, rowVars, flaws>>

\* The insert.  A payment recorded by hand (or in cash) is completed at once
\* and will be applied to the invoice; any other waits for its gateway.
create_payment(h, p, offline) ==
    LET i == req[h].inv IN
    /\ req[h].pc = "payment" /\ ~ Recorded(p)
    /\ IF Taken(payno, req[h].no)
       THEN UNCHANGED <<pay, payno>> /\ Goto(h, Idle)
       ELSE /\ pay' = [pay EXCEPT ![p] = [status |-> IF offline THEN "completed" ELSE "pending",
                                          amount |-> req[h].amount, of |-> i]]
            /\ payno' = [payno EXCEPT ![p] = req[h].no]
            /\ Goto(h, IF offline THEN [req[h] EXCEPT !.pc = "apply"] ELSE Idle)
    /\ UNCHANGED <<month, inv, items, number, activated, flaws>>

\* _apply_payment_to_invoice reads the invoice.
ApplyLoad(h) ==
    /\ req[h].pc = "apply"
    /\ Goto(h, [req[h] EXCEPT !.pc = "credit", !.seen = inv[req[h].inv], !.by = "create"])
    /\ UNCHANGED <<month, rowVars, flaws>>

\* record_manual_payment: its numbers are drawn at random.
record_manual_payment(h, p, i, amount) ==
    /\ Exists(i) /\ ~ Recorded(p)
    /\ pay' = [pay EXCEPT ![p] = [status |-> "unchecked", amount |-> amount, of |-> i]]
    /\ Alone(h)
    /\ UNCHANGED <<month, inv, items, number, payno, activated, flaws>>

\* Row locks: a change of these payments has been flushed and not committed.
PayFree(ps) == \A h \in Requests : req[h].pc = "credit" => req[h].pays \cap ps = {}

SumOf(ps) == MapThenSumSet(LAMBDA p : pay[p].amount, ps)

\* The three operations that settle payments already on record: each flushes
\* their new status and then reads the invoice.  None asks what it was before.
SettleLoad(h, ps, i, to, by) ==
    /\ ps # {} /\ PayFree(ps)
    /\ \A p \in ps : Recorded(p) /\ pay[p].of = i
    /\ Begin(h, [Idle EXCEPT !.pc = "credit", !.inv = i, !.pays = ps, !.to = to, !.by = by,
                             !.amount = SumOf(ps), !.seen = inv[i]])
    /\ UNCHANGED <<month, rowVars, flaws>>

verify_payment(h, p)                  == SettleLoad(h, {p}, pay[p].of, "checked", "verify")
bulk_update_payment_status(h, ps, i)  == SettleLoad(h, ps, i, "checked", "bulk")
process_payment(h, p)                 == SettleLoad(h, {p}, pay[p].of, "completed", "process")

\* verify_payment and bulk_update_payment_status take any status; only CHECKED
\* is credited.  With another one the invoice keeps what was credited before,
\* whether the payment begins to count, as COMPLETED, or ceases to.
Restate(h, p, to) ==
    /\ Recorded(p) /\ PayFree({p}) /\ pay[p].status # to
    /\ pay' = [pay EXCEPT ![p].status = to]
    /\ Mark(pay[p].of, IF pay[p].status \in Counted <=> to \in Counted THEN {} ELSE {"restated"})
    /\ Alone(h)
    /\ UNCHANGED <<month, inv, items, number, payno, activated>>

\* Mutation: the payment replaces what was paid before.
CreditReplaces(seen, amount) ==
    [seen EXCEPT !.paid = amount, !.balance = seen.total - amount]

\* The arithmetic that all four share.
Credit(seen, amount) ==
    LET paid == seen.paid + amount  left == seen.total - paid IN
    [seen EXCEPT !.paid = paid, !.balance = left,
                 !.status = IF left <= 0 THEN "paid" ELSE @]

\* Mutation: a verified payment does not activate (as it once was).
ActivatesNotVerify(by, row) == row.balance <= 0 /\ by \notin {"bulk", "verify"}

\* bulk_update_payment_status does not activate.
Activates(by, row) == row.balance <= 0 /\ by # "bulk"

\* The commit: payments and invoice in one transaction, the payment of
\* create_payment excepted, which is there already.
CreditWrite(h) ==
    LET r == req[h]  i == r.inv  new == Credit(r.seen, r.amount) IN
    /\ r.pc = "credit"
    /\ inv' = [inv EXCEPT ![i] = Flush(i, r.seen, new)]
    /\ pay' = [p \in Payments |-> IF p \in r.pays THEN [pay[p] EXCEPT !.status = r.to]
                                  ELSE pay[p]]
    /\ Goto(h, IF Activates(r.by, new) THEN [Idle EXCEPT !.pc = "activate", !.inv = i] ELSE Idle)
    /\ Mark(i, Stale(i, r.seen, {"total", "paid", "balance", "status"})
               \cup (IF \E p \in r.pays : pay[p].status \in Counted THEN {"again"} ELSE {})
               \cup (IF new.balance <= 0 /\ r.by = "bulk" THEN {"skipped"} ELSE {}))
    /\ UNCHANGED <<month, items, number, payno, activated>>

\* _activate_subscription_on_payment: a transaction of its own.
_activate_subscription_on_payment(h) ==
    /\ req[h].pc = "activate"
    /\ activated' = activated \cup {req[h].inv}
    /\ Goto(h, Idle)
    /\ UNCHANGED <<month, inv, items, number, pay, payno, flaws>>

\* The process dies: what was not committed is gone, and nobody goes on.
Crash(h) ==
    /\ req[h].pc # "idle"
    /\ IF req[h].pc \in {"apply", "sum", "load", "totals", "activate"}
          \/ req[h].by = "create"
       THEN Mark(req[h].inv, {"crash"}) ELSE UNCHANGED flaws
    /\ Goto(h, Idle)
    /\ UNCHANGED <<month, rowVars>>

NextMonth ==
    /\ month < MaxMonth
    /\ month' = month + 1
    /\ UNCHANGED <<rowVars, req, ops, flaws>>

-----------------------------------------------------------------------------
InvoiceOps(h) ==
    \/ InvoiceCount(h)
    \/ \E i \in Invoices :
          \/ \E s \in Subtotals, item \in Prices \cup {NoItem} : InvoiceInsert(h, i, s, item)
          \/ \E price \in Prices : AddItem(h, i, price) \/ delete_invoice_item(h, i, price)
          \/ \E to \in InvoiceStatus \ {"draft"} : StatusLoad(h, i, to)
    \/ add_invoice_item(h) \/ TotalsSum(h) \/ TotalsLoad(h) \/ _update_invoice_totals(h)
    \/ update_invoice_status(h)

PaymentOps(h) ==
    \/ \E i \in Invoices :
          \/ \E a \in Amounts :
                \/ PaymentCount(h, i, a)
                \/ \E p \in Payments : record_manual_payment(h, p, i, a)
          \/ \E ps \in SUBSET Payments : bulk_update_payment_status(h, ps, i)
    \/ \E p \in Payments :
          \/ \E offline \in BOOLEAN : create_payment(h, p, offline)
          \/ verify_payment(h, p) \/ process_payment(h, p)
          \/ \E to \in PaymentStatus \ {"checked"} : Restate(h, p, to)
    \/ ApplyLoad(h) \/ CreditWrite(h) \/ _activate_subscription_on_payment(h)

Next ==
    \/ \E h \in Requests : InvoiceOps(h) \/ PaymentOps(h) \/ Crash(h)
    \/ NextMonth

Spec == Init /\ [][Next]_vars

-----------------------------------------------------------------------------
(***************************************************************************)
(* Properties.                                                             *)
(***************************************************************************)

Clean(i, whys) == Exists(i) /\ flaws[i] \cap whys = {}

\* Money that create_payment has booked and not yet applied to invoice i.
Unapplied(i) ==
    MapThenSumSet(LAMBDA h : req[h].amount,
        {h \in Requests : req[h].inv = i /\ (req[h].pc = "apply" \/ req[h].by = "create")})

\* What an invoice says was paid is what its settled payments add up to (the
\* sum _update_invoice_payment_status would compute), up to money that is on
\* its way, unless two requests had loaded the same invoice, one died between
\* the payment and the invoice, a payment was settled a second time, or the
\* status of one was set by hand, which credits nothing and takes nothing back.
PaidMatchesPayments ==
    \A i \in Invoices :
        Clean(i, {"race", "crash", "again", "restated"}) =>
            inv[i].paid + Unapplied(i) =
                SumOf({p \in Payments : pay[p].of = i /\ pay[p].status \in Counted})

\* A paid invoice has had its subscription activated, or an operation is about
\* to do it, whichever way it was paid, except by a bulk update, by a status
\* set by hand, or by a process that died in between; and every later payment
\* that settles it makes up for that.
PaidIsActivated ==
    \A i \in Invoices :
        inv[i].status = "paid" /\ Clean(i, {"skipped", "forced", "crash"}) =>
            \/ i \in activated
            \/ \E h \in Requests : req[h].pc = "activate" /\ req[h].inv = i

\* The columns of an invoice agree: the balance is the total less what was
\* paid, and nobody owes anything on a paid invoice, unless two requests had
\* loaded it, its status was set by hand, or an item came after it was paid.
BalanceAddsUp ==
    \A i \in Invoices :
        Clean(i, {"race", "forced"}) =>
            /\ inv[i].balance = inv[i].total - inv[i].paid
            /\ inv[i].status = "paid" /\ "grown" \notin flaws[i] => inv[i].balance <= 0

\* The total is the sum of the items, once there are any and no operation is
\* about to add them up, unless two requests had loaded the invoice, one died
\* before the totals, or an item was deleted.
TotalFollowsItems ==
    \A i \in Invoices :
        Clean(i, {"race", "crash", "deleted"}) /\ items[i] # {} =>
            \/ inv[i].total = SumSet(items[i]) + Adjust
            \/ \E h \in Requests : req[h].pc \in {"sum", "load", "totals"} /\ req[h].inv = i

Gapless(numbers) ==
    \A m \in 1 .. MaxMonth :
        LET mine == {r \in DOMAIN numbers : numbers[r][1] = m}
        IN  {numbers[r][2] : r \in mine} = 1 .. Cardinality(mine)

\* The numbers of a month are 1 to the number of its rows, each once: requests
\* that count at the same time are told apart by the unique constraint, and the
\* next number is always free, so a request that runs alone is never refused.
NumbersGapless == Gapless(number) /\ Gapless(payno)

\* The columns of an invoice, its items and its number agree with one another.
InvoiceInv == LedgerTypeOK /\ BalanceAddsUp /\ TotalFollowsItems
=============================================================================
