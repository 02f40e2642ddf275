-------------------------- MODULE HotspotPurchase --------------------------
(***************************************************************************)
(* A hotspot purchase, from the buy page to the customer's account.        *)
(*                                                                         *)
(* purchase_package stores the purchase and creates an intent at treasury, *)
(* where the customer pays.  The payment is confirmed by whoever learns of *)
(* it: the NATS consumer of treasury.payment.succeeded, the status poll of *)
(* the buy page, or (for old purchases) the gateway webhook.  Each of them *)
(* looks at the purchase, awaits something, and then runs                  *)
(* _process_successful_payment, which commits four times: the username     *)
(* counter (and with it the purchase, completed), the voucher, the         *)
(* router's create_user and the dashboard rows.                            *)
(***************************************************************************)
EXTENDS Integers, Sequences, FiniteSets

CONSTANTS
    Purchases,    \* rows of customer_purchases
    Orgs,         \* organizations (ISPs)
    OrgOf,        \* the organization of each purchase
    Handlers,     \* confirmations that can be under way at once
    Confirmers,   \* the ways a payment can be confirmed
    Raced,        \* bound: the purchases when confirmations overlap
    PlansMayGo,   \* a plan may be deleted after it was sold
    MaxCallbacks  \* bound on the gateway callbacks

ASSUME PurchaseAssumption ==
    /\ OrgOf \in [Purchases -> Orgs]
    /\ Confirmers \subseteq {"nats", "poll", "webhook"}
    /\ Raced \subseteq Purchases
    /\ PlansMayGo \in BOOLEAN
    /\ MaxCallbacks \in Nat

VARIABLES
    payment_status,   \* CustomerPurchase.payment_status; "none": no such row
    intent,           \* is CustomerPurchase.treasury_payment_intent_id set?
    buyer,            \* the request that makes the purchase
    treasury,         \* the intent at treasury
    message,          \* purchases with a treasury.payment.succeeded to be acked
    counter,          \* OrganizationSettings.hotspot_username_counter
    vouchers,         \* rows of voucher_codes
    link,             \* CustomerPurchase.voucher_code_id, 0 for NULL
    router,           \* the <<organization, username>> accounts queued
    users,            \* the <<organization, username>> rows of users
    payments,         \* the number of payment rows of each purchase
    callbacks,        \* gateway callbacks so far
    req,              \* the confirmations
    finished,         \* history: purchases whose confirmation ran to its end
    broken,           \* history: purchases one of whose confirmations did not
    told,             \* history: what callbacks have said of each purchase
    overlap           \* can two confirmations be under way at once?

rowVars  == <<payment_status, intent, counter, vouchers, link, router, users, payments>>
histVars == <<finished, broken, told>>
vars     == <<rowVars, buyer, treasury, message, callbacks, req, histVars, overlap>>

PaymentStatus == {"pending", "processing", "completed", "failed"}
Steps == {"idle", "asked", "failing", "confirm", "creds", "voucher", "queue",
          "bridge", "mirror"}
NoRequest == [pc |-> "idle", kind |-> "none", of |-> "none", name |-> 0, seen |-> FALSE]

PurchaseTypeOK ==
    /\ payment_status \in [Purchases -> PaymentStatus \cup {"none"}]
    /\ intent \in [Purchases -> BOOLEAN]
    /\ counter \in [Orgs -> Nat]
    /\ link \in [Purchases -> 0 .. Len(vouchers)]
    /\ payments \in [Purchases -> Nat]
    /\ \A h \in Handlers : req[h].pc \in Steps
    \* only a purchase that reached treasury, or a callback, is ever confirmed
    /\ \A p \in Purchases : payment_status[p] = "completed" => intent[p] \/ "completed" \in told[p]

Init ==
    /\ payment_status = [p \in Purchases |-> "none"]
    /\ intent = [p \in Purchases |-> FALSE]
    /\ buyer = [p \in Purchases |-> "none"]
    /\ treasury = [p \in Purchases |-> "none"]
    /\ message = {}
    /\ counter = [o \in Orgs |-> 1]
    /\ vouchers = << >>
    /\ link = [p \in Purchases |-> 0]
    /\ router = {}
    /\ users = {}
    /\ payments = [p \in Purchases |-> 0]
    /\ callbacks = 0
    /\ req = [h \in Handlers |-> NoRequest]
    /\ finished = {}
    /\ broken = {}
    /\ told = [p \in Purchases |-> {}]
    /\ overlap \in BOOLEAN

-----------------------------------------------------------------------------
(***************************************************************************)
(* Buying and paying.                                                      *)
(***************************************************************************)

\* purchase_package, up to the commit of the local snapshot.
purchase_package(p) ==
    /\ payment_status[p] = "none"
    /\ overlap => p \in Raced
    /\ payment_status' = [payment_status EXCEPT ![p] = "pending"]
    /\ buyer' = [buyer EXCEPT ![p] = "waiting"]
    /\ UNCHANGED <<intent, treasury, message, counter, vouchers, link, router, users,
                   payments, req, histVars, overlap, callbacks>>

\* A confirmation that has flushed its change of the purchase holds the row's
\* lock; nobody else can write the row until it commits.
Locks(g, p) == req[g].pc = "creds" /\ req[g].of = p

\* create_payment_intent answers with an intent id.  The customer learns the pay
\* page from the response, so nobody can pay before this commit.  What a callback
\* has made of the purchase in the meantime is written over.
IntentCreated(p) ==
    /\ buyer[p] = "waiting" /\ \A g \in Handlers : ~ Locks(g, p)
    /\ payment_status' = [payment_status EXCEPT ![p] = "processing"]
    /\ intent' = [intent EXCEPT ![p] = TRUE]
    /\ buyer' = [buyer EXCEPT ![p] = "done"]
    /\ treasury' = [treasury EXCEPT ![p] = "open"]
    /\ UNCHANGED <<message, counter, vouchers, link, router, users, payments, req,
                   histVars, overlap, callbacks>>

\* It fails, or its answer has no intent id.
IntentFailed(p) ==
    /\ buyer[p] = "waiting" /\ \A g \in Handlers : ~ Locks(g, p)
    /\ payment_status' = [payment_status EXCEPT ![p] = "failed"]
    /\ buyer' = [buyer EXCEPT ![p] = "done"]
    /\ UNCHANGED <<intent, treasury, message, counter, vouchers, link, router, users,
                   payments, req, histVars, overlap, callbacks>>

\* The customer pays: treasury settles the intent and publishes the event.
Pay(p) ==
    /\ treasury[p] = "open"
    /\ treasury' = [treasury EXCEPT ![p] = "succeeded"]
    /\ message' = message \cup {p}
    /\ UNCHANGED <<rowVars, buyer, req, histVars, overlap, callbacks>>

\* The payment fails, is cancelled or expires.
PayFails(p) ==
    /\ treasury[p] = "open"
    /\ treasury' = [treasury EXCEPT ![p] = "failed"]
    /\ UNCHANGED <<rowVars, buyer, message, req, histVars, overlap, callbacks>>

-----------------------------------------------------------------------------
(***************************************************************************)
(* Learning of the payment.                                                *)
(***************************************************************************)

Start(h, p, kind, step) ==
    /\ overlap \/ \A g \in Handlers : req[g].pc = "idle"
    /\ req' = [req EXCEPT ![h] = [NoRequest EXCEPT !.pc = step, !.kind = kind, !.of = p]]

\* Mutation: the consumer confirms a purchase that is completed, too.
AlreadyDoneNever(p) == FALSE

\* The guard that makes the consumer skip a purchase.
AlreadyDone(p) == payment_status[p] = "completed"

\* Mutation: the message is acked before it is worked on.
DeliverAckFirst(h, p) ==
    /\ "nats" \in Confirmers
    /\ req[h].pc = "idle" /\ p \in message
    /\ message' = message \ {p}
    /\ IF AlreadyDone(p) THEN UNCHANGED req ELSE Start(h, p, "nats", "confirm")
    /\ UNCHANGED <<rowVars, buyer, treasury, histVars, overlap, callbacks>>

\* handle_treasury_payment_succeeded up to _process_successful_payment.  A
\* message that is not acked is delivered again, even while it is worked on.
Deliver(h, p) ==
    /\ "nats" \in Confirmers
    /\ req[h].pc = "idle" /\ p \in message
    /\ IF AlreadyDone(p)
          THEN message' = message \ {p} /\ UNCHANGED req
          ELSE Start(h, p, "nats", "confirm") /\ UNCHANGED message
    /\ UNCHANGED <<rowVars, buyer, treasury, histVars, overlap, callbacks>>

\* get_payment_status loads the purchase and asks treasury.
get_payment_status(h, p) ==
    /\ "poll" \in Confirmers
    /\ req[h].pc = "idle"
    /\ payment_status[p] = "processing" /\ intent[p]
    /\ Start(h, p, "poll", "asked")
    /\ UNCHANGED <<rowVars, buyer, treasury, message, histVars, overlap, callbacks>>

\* What the state of the intent makes of a confirmation.
Verdict(st) == CASE st = "succeeded" -> "confirm"
                 [] st = "failed"    -> "failing"
                 [] OTHER            -> "idle"

\* Treasury's answer to the poll.
TreasuryAnswers(h) ==
    /\ req[h].pc = "asked"
    /\ LET step == Verdict(treasury[req[h].of]) IN
          req' = [req EXCEPT ![h] = IF step = "idle" THEN NoRequest
                                    ELSE [@ EXCEPT !.pc = step]]
    /\ UNCHANGED <<rowVars, buyer, treasury, message, histVars, overlap, callbacks>>

\* payment_webhook: a callback names a purchase by its reference and says what
\* became of the payment ("completed" when a generic callback says nothing).  It
\* is taken at its word, at any time, whatever treasury or the row says.
payment_webhook(h, p, word) ==
    /\ "webhook" \in Confirmers
    /\ req[h].pc = "idle"
    /\ payment_status[p] # "none"
    /\ callbacks < MaxCallbacks
    /\ callbacks' = callbacks + 1
    /\ Start(h, p, "webhook", IF word = "completed" THEN "confirm" ELSE "failing")
    /\ told' = [told EXCEPT ![p] = @ \cup {word}]
    /\ UNCHANGED <<rowVars, buyer, treasury, message, finished, broken, overlap>>

RowFree(h) == \A g \in Handlers \ {h} : ~ Locks(g, req[h].of)

\* The end of a confirmation; the consumer then acks its message.
Done(h) ==
    /\ req' = [req EXCEPT ![h] = NoRequest]
    /\ message' = IF req[h].kind = "nats" THEN message \ {req[h].of} ELSE message

\* The status poll or the webhook writes "failed", whatever the row says by now.
FailCommit(h) ==
    /\ req[h].pc = "failing" /\ RowFree(h)
    /\ payment_status' = [payment_status EXCEPT ![req[h].of] = "failed"]
    /\ Done(h)
    /\ UNCHANGED <<intent, counter, vouchers, link, router, users, payments, buyer,
                   treasury, histVars, overlap, callbacks>>

-----------------------------------------------------------------------------
(***************************************************************************)
(* _process_successful_payment and generate_hotspot_credentials.           *)
(***************************************************************************)

\* The select of the plan flushes the purchase and so locks its row; then the
\* organization's username counter is read.
ReadCounter(h) ==
    /\ req[h].pc = "confirm" /\ RowFree(h)
    /\ req' = [req EXCEPT ![h].pc = "creds", ![h].name = counter[OrgOf[req[h].of]]]
    /\ UNCHANGED <<rowVars, buyer, treasury, message, histVars, overlap, callbacks>>

\* The plan is gone: the payment status is committed and that is all.
PlanGone(h) ==
    /\ PlansMayGo
    /\ req[h].pc = "confirm" /\ RowFree(h)
    /\ payment_status' = [payment_status EXCEPT ![req[h].of] = "completed"]
    /\ Done(h)
    /\ broken' = broken \cup {req[h].of}
    /\ UNCHANGED <<intent, counter, vouchers, link, router, users, payments, buyer,
                   treasury, finished, told, overlap, callbacks>>

\* The counter generate_hotspot_credentials leaves behind.
NextName(n) == n + 1

\* generate_hotspot_credentials commits the counter, and with it the purchase.
CredentialsCommit(h) ==
    LET p == req[h].of IN
    /\ req[h].pc = "creds"
    /\ counter' = [counter EXCEPT ![OrgOf[p]] = NextName(req[h].name)]
    /\ payment_status' = [payment_status EXCEPT ![p] = "completed"]
    /\ req' = [req EXCEPT ![h].pc = "voucher"]
    /\ UNCHANGED <<intent, vouchers, link, router, users, payments, buyer, treasury,
                   message, histVars, overlap, callbacks>>

\* Mutation: the voucher is not linked to the purchase.
VoucherCommitUnlinked(h) ==
    LET p == req[h].of IN
    /\ req[h].pc = "voucher" /\ RowFree(h)
    /\ vouchers' = Append(vouchers, [of |-> p, name |-> req[h].name])
    /\ req' = [req EXCEPT ![h].pc = "queue"]
    /\ UNCHANGED <<payment_status, intent, counter, link, router, users, payments,
                   buyer, treasury, message, histVars, overlap, callbacks>>

\* The voucher, linked to the purchase, and its outbox events.
VoucherCommit(h) ==
    LET p == req[h].of IN
    /\ req[h].pc = "voucher" /\ RowFree(h)
    /\ vouchers' = Append(vouchers, [of |-> p, name |-> req[h].name])
    /\ link' = [link EXCEPT ![p] = Len(vouchers) + 1]
    /\ req' = [req EXCEPT ![h].pc = "queue"]
    /\ UNCHANGED <<payment_status, intent, counter, router, users, payments, buyer,
                   treasury, message, histVars, overlap, callbacks>>

\* _sync_hotspot_user_to_router and the commit of its commands.  It swallows its
\* errors, and then there is nothing to commit.
QueueCommit(h, queued) ==
    LET p == req[h].of IN
    /\ req[h].pc = "queue"
    /\ router' = IF queued THEN router \cup {<<OrgOf[p], req[h].name>>} ELSE router
    /\ req' = [req EXCEPT ![h].pc = "bridge"]
    /\ UNCHANGED <<payment_status, intent, counter, vouchers, link, users, payments,
                   buyer, treasury, message, histVars, overlap, callbacks>>

\* The bridge looks for a payment with the purchase's reference.
BridgeSelect(h) ==
    /\ req[h].pc = "bridge"
    /\ req' = [req EXCEPT ![h].pc = "mirror", ![h].seen = payments[req[h].of] > 0]
    /\ UNCHANGED <<rowVars, buyer, treasury, message, histVars, overlap, callbacks>>

\* Mutation: payments.payment_number is not unique.
PaymentClashesNever(p, seen) == FALSE

\* The insert violates the unique payment_number: the bridge rolls back.
PaymentClashes(p, seen) == ~ seen /\ payments[p] > 0

\* users.username is unique over all organizations: the insert fails, the row is
\* looked for in this organization, and the bridge gives up.
NameTaken(o, n) == \E u \in users : u[2] = n /\ u[1] # o

\* bridge_hotspot_purchase_to_dashboard commits, or swallows its error.
BridgeCommit(h) ==
    LET p == req[h].of  n == req[h].name  o == OrgOf[p]  seen == req[h].seen IN
    /\ req[h].pc = "mirror"
    /\ IF NameTaken(o, n) \/ PaymentClashes(p, seen)
          THEN UNCHANGED <<users, payments>>
          ELSE /\ users' = users \cup {<<o, n>>}
               /\ payments' = [payments EXCEPT ![p] = IF seen THEN @ ELSE @ + 1]
    /\ finished' = finished \cup {p}
    /\ Done(h)
    /\ UNCHANGED <<payment_status, intent, counter, vouchers, link, router, buyer,
                   treasury, broken, told, overlap, callbacks>>

\* The outer except: the error is swallowed and the purchase is completed "so
\* frontend stops polling".
SwallowError(h) ==
    /\ req[h].pc \in {"creds", "voucher", "queue"} /\ RowFree(h)
    /\ payment_status' = [payment_status EXCEPT ![req[h].of] = "completed"]
    /\ Done(h)
    /\ broken' = broken \cup {req[h].of}
    /\ UNCHANGED <<intent, counter, vouchers, link, router, users, payments, buyer,
                   treasury, finished, told, overlap, callbacks>>

\* The process dies or raises: nothing more is committed, the consumer does not
\* ack, a poll has no answer.
Crash(h) ==
    /\ req[h].pc # "idle"
    /\ req' = [req EXCEPT ![h] = NoRequest]
    /\ broken' = broken \cup {req[h].of}
    /\ UNCHANGED <<rowVars, buyer, treasury, message, finished, told, overlap, callbacks>>

-----------------------------------------------------------------------------
Confirm(h) ==
    \/ ReadCounter(h) \/ PlanGone(h) \/ CredentialsCommit(h) \/ VoucherCommit(h)
    \/ \E queued \in BOOLEAN : QueueCommit(h, queued)
    \/ BridgeSelect(h) \/ BridgeCommit(h) \/ SwallowError(h)

Next ==
    \/ \E p \in Purchases :
          \/ purchase_package(p) \/ IntentCreated(p) \/ IntentFailed(p)
          \/ Pay(p) \/ PayFails(p)
    \/ \E h \in Handlers, p \in Purchases :
          \/ Deliver(h, p) \/ get_payment_status(h, p)
          \/ \E word \in {"completed", "failed"} : payment_webhook(h, p, word)
    \/ \E h \in Handlers :
          TreasuryAnswers(h) \/ FailCommit(h) \/ Confirm(h) \/ Crash(h)

Spec == Init /\ [][Next]_vars

\* JetStream delivers a message again and again until it is acked, and a
\* confirmation does not crash at the same place for ever.
Fairness ==
    /\ \A p \in Purchases : SF_vars(\E h \in Handlers : Deliver(h, p))
    /\ SF_vars(\E h \in Handlers : ReadCounter(h))
    /\ SF_vars(\E h \in Handlers : CredentialsCommit(h))
    /\ \A h \in Handlers : WF_vars(TreasuryAnswers(h) \/ FailCommit(h)
                                  \/ Confirm(h) \/ Crash(h))

FairSpec == Spec /\ Fairness

-----------------------------------------------------------------------------
(***************************************************************************)
(* Properties.                                                             *)
(***************************************************************************)

\* Somebody said that the purchase is paid: treasury, which knows, or a callback.
Reported(p) == treasury[p] = "succeeded" \/ "completed" \in told[p]

VouchersOf(p) == {i \in DOMAIN vouchers : vouchers[i].of = p}

\* When confirmations do not overlap and no gateway calls back (payment_webhook
\* confirms a completed purchase again), no purchase gets a second voucher: the
\* consumer, the poll and redeliveries after a crash provision it once
\* (handle_treasury_payment_succeeded, get_payment_status).
OneVoucherEach ==
    ~ overlap /\ callbacks = 0 => \A p \in Purchases : Cardinality(VouchersOf(p)) <= 1

\* When confirmations do not overlap, two customers of an organization never get
\* the same hotspot username (generate_hotspot_credentials).
UniqueUsernames ==
    ~ overlap => \A i, j \in DOMAIN vouchers :
        vouchers[i].name = vouchers[j].name
        /\ OrgOf[vouchers[i].of] = OrgOf[vouchers[j].of] => i = j

\* Whichever way a confirmation came about, an account is queued for the router
\* only for a payment that treasury settled or that a callback said is completed
\* (payment_webhook believes it and asks nobody), and only after its voucher is
\* committed: the expiry reconciler, which works on vouchers, can find every account.
ProvisionedHasVoucher ==
    \A a \in router :
        \E i \in DOMAIN vouchers :
            /\ a = <<OrgOf[vouchers[i].of], vouchers[i].name>>
            /\ Reported(vouchers[i].of)

\* However confirmations race, revenue is booked at most once per purchase
\* (_maybe_create_payment and the unique payment_number behind it); and when they
\* do not overlap, one that ran to its end has booked it and has put the customer
\* on the organization's dashboard (bridge_hotspot_purchase_to_dashboard), unless
\* another organization's user has the username: every organization counts from
\* C001 on, and users.username is unique over all of them.
FinishedIsMirrored ==
    \A p \in Purchases :
        /\ payments[p] <= 1
        /\ ~ overlap /\ p \in finished =>
              \E i \in VouchersOf(p) :
                 \/ NameTaken(OrgOf[p], vouchers[i].name)
                 \/ payments[p] = 1 /\ <<OrgOf[p], vouchers[i].name>> \in users

\* A completed purchase that nobody is working on has its voucher, unless one of
\* its confirmations crashed, swallowed an error or found no plan: however they
\* race, no confirmation that comes to its end leaves a customer who paid without
\* a code.  (After a crash it can: the counter's commit completes the purchase
\* before the voucher exists, and every retry skips a completed purchase.)
CompletedHasVoucher ==
    \A p \in Purchases \ broken :
        payment_status[p] = "completed" /\ (\A h \in Handlers : req[h].of # p)
            => link[p] # 0

\* A payment that treasury settled is confirmed in the end, whatever crashes and
\* whatever a callback wrote before, unless a callback says that it failed (which
\* payment_webhook writes over a completed purchase, whose message is acked).
PaidIsCompleted ==
    \A p \in Purchases :
        treasury[p] = "succeeded" ~> payment_status[p] = "completed" \/ "failed" \in told[p]

\* Vouchers are made once, under a name of their own, and before the account.
VoucherInv == PurchaseTypeOK /\ OneVoucherEach /\ UniqueUsernames /\ ProvisionedHasVoucher
=============================================================================
