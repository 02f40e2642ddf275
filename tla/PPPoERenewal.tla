---------------------------- MODULE PPPoERenewal ----------------------------
(***************************************************************************)
(* A PPPoE customer renews in the portal: a payment is stored, an intent   *)
(* is created at treasury, the customer pays there and comes back to a     *)
(* page that asks the server to verify the payment, which extends the      *)
(* customer's latest subscription.  The page may ask twice, the customer   *)
(* may pay twice, and the expiry task and the office work on the same      *)
(* subscription.                                                           *)
(*                                                                         *)
(* A verification is one transaction.  It locks the payment when it is     *)
(* flushed and the subscription when its new end date is; both locks are   *)
(* held over the call to the router, until the commit.  What it has read   *)
(* before a lock it does not read again.                                   *)
(***************************************************************************)
EXTENDS Naturals

CONSTANTS
    Payments,      \* renewals that the customer starts
    Workers,       \* requests and expiry runs that can be under way at once
    Validity,      \* ServicePlan.validity_days of the plan
    LastDay,       \* bound on the clock
    FailureBound,  \* bound on crashes and on calls to treasury that fail
    MaxOffice      \* bound on renewals by the office

RenewalConstants ==
    /\ Validity \in Nat \ {0}
    /\ {LastDay, FailureBound, MaxOffice} \subseteq Nat

ASSUME RenewalAssumption == RenewalConstants

VARIABLES
    pay,         \* Payment.status; "none": there is no such row
    intent,      \* is Payment.transaction_id set?
    page,        \* the customer: asked to renew, was sent to pay, or gave up
    treasury,    \* the intent at treasury
    sub_status,  \* Subscription.status of the latest one; "none": there is none
    end_date,    \* Subscription.end_date
    today,
    job,         \* verifications, expiry runs and renewals by the office
    failures, office,
    extended,    \* history: how often a payment has extended the subscription
    due,         \* history: where end_date should be: where the office last
                 \* put it, and a validity further for each payment since
    overlaps     \* history: what was under way at the same time

payVars == <<pay, intent, page, treasury>>
subVars == <<sub_status, end_date>>
renewalVars == <<payVars, subVars, today, job, failures, office, extended, due, overlaps>>

NoJob == [pc |-> "idle"]

\* The jobs that hold the lock of payment p, and of the subscription.
HoldsPayment(p) == {h \in Workers : job[h].pc \in {"read", "update", "commit"} /\ job[h].p = p}
HoldsSub        == {h \in Workers : job[h].pc = "commit"}

RenewalTypeOK ==
    /\ pay \in [Payments -> {"none", "pending", "failed", "completed"}]
    /\ sub_status \in {"none", "active", "expired"}
    /\ end_date \in Nat /\ today \in 0 .. LastDay
    /\ extended \in [Payments -> Nat]
    \* the locks are exclusive
    /\ \A p \in Payments : \A g, h \in HoldsPayment(p) : g = h
    /\ \A g, h \in HoldsSub : g = h
    \* without a stored intent nobody is asked about the payment
    /\ \A h \in Workers : job[h].pc \in {"ask", "read", "update", "commit"} => intent[job[h].p]

RenewalInit ==
    /\ pay = [p \in Payments |-> "none"]
    /\ intent = [p \in Payments |-> FALSE]
    /\ page = [p \in Payments |-> "none"]
    /\ treasury = [p \in Payments |-> "none"]
    /\ sub_status \in {"none", "active", "expired"}
    /\ end_date = IF sub_status = "active" THEN Validity ELSE 0
    /\ today = 0
    /\ job = [h \in Workers |-> NoJob]
    /\ failures = 0 /\ office = 0
    /\ extended = [p \in Payments |-> 0]
    /\ due = end_date
    /\ overlaps = {}

-----------------------------------------------------------------------------
(***************************************************************************)
(* renew_subscription, and what happens at treasury.                       *)
(***************************************************************************)

\* The payment is committed before treasury is asked.
renew_subscription(p) ==
    /\ pay[p] = "none"
    /\ pay' = [pay EXCEPT ![p] = "pending"]
    /\ page' = [page EXCEPT ![p] = "asked"]
    /\ UNCHANGED <<intent, treasury, subVars, today, job, failures, office, extended, due, overlaps>>


\* create_topup_intent returns an intent; its id is stored and the customer is
\* sent to the pay page.
IntentCreated(p) ==
    /\ page[p] = "asked"
    /\ treasury' = [treasury EXCEPT ![p] = "open"]
    /\ intent' = [intent EXCEPT ![p] = TRUE]
    /\ page' = [page EXCEPT ![p] = "paying"]
    /\ UNCHANGED <<pay, subVars, today, job, failures, office, extended, due, overlaps>>

\* It returns None, whether or not treasury has an intent now: the payment is
\* marked failed, or stays pending if the server dies.
IntentFailed(p, dies) ==
    /\ page[p] = "asked" /\ failures < FailureBound
    /\ pay' = IF dies THEN pay ELSE [pay EXCEPT ![p] = "failed"]
    /\ page' = [page EXCEPT ![p] = "gone"]
    /\ failures' = failures + 1
    /\ UNCHANGED <<intent, treasury, subVars, today, job, office, extended, due, overlaps>>

\* The customer pays, or the intent fails, is cancelled or expires.
TreasurySettles(p, to) ==
    /\ treasury[p] = "open" /\ page[p] = "paying"
    /\ treasury' = [treasury EXCEPT ![p] = to]
    /\ UNCHANGED <<pay, intent, page, subVars, today, job, failures, office, extended, due, overlaps>>

-----------------------------------------------------------------------------
(***************************************************************************)
(* verify_pppoe_payment.                                                   *)
(***************************************************************************)

\* Mutation: a payment that is completed is verified like any other.
VerifyLoadAny(h, p) ==
    /\ job[h] = NoJob /\ pay[p] # "none" /\ intent[p]
    /\ job' = [job EXCEPT ![h] = [pc |-> "ask", p |-> p, seen |-> pay[p]]]
    /\ UNCHANGED <<payVars, subVars, today, failures, office, extended, due, overlaps>>

\* The payment is read.  One that is completed, and one without an intent, is
\* answered at once.
VerifyLoad(h, p) ==
    /\ job[h] = NoJob /\ pay[p] \in {"pending", "failed"} /\ intent[p]
    /\ job' = [job EXCEPT ![h] = [pc |-> "ask", p |-> p, seen |-> pay[p]]]
    /\ UNCHANGED <<payVars, subVars, today, failures, office, extended, due, overlaps>>

\* What follows from get_intent_status.
Verdict(p) == CASE treasury[p] = "paid"   -> "flush"
                [] treasury[p] = "failed" -> "fail"
                [] treasury[p] = "open"   -> "idle"

TreasuryAnswers(h) ==
    LET r == job[h] IN
    /\ r.pc = "ask"
    /\ job' = [job EXCEPT ![h] = IF Verdict(r.p) = "idle" THEN NoJob ELSE [r EXCEPT !.pc = Verdict(r.p)]]
    /\ UNCHANGED <<payVars, subVars, today, failures, office, extended, due, overlaps>>

\* A failed payment is committed as such, once its lock is free.
VerifyFailed(h) ==
    LET r == job[h] IN
    /\ r.pc = "fail" /\ HoldsPayment(r.p) = {}
    /\ pay' = [pay EXCEPT ![r.p] = IF r.seen = "failed" THEN @ ELSE "failed"]
    /\ job' = [job EXCEPT ![h] = NoJob]
    /\ UNCHANGED <<intent, page, treasury, subVars, today, failures, office, extended, due, overlaps>>

\* Mutation: the payment is committed before the subscription is renewed.
VerifyFlushCommits(h) ==
    LET r == job[h] IN
    /\ r.pc = "flush" /\ HoldsPayment(r.p) = {}
    /\ pay' = [pay EXCEPT ![r.p] = "completed"]
    /\ job' = [job EXCEPT ![h].pc = "read"]
    /\ UNCHANGED <<intent, page, treasury, subVars, today, failures, office, extended, due, overlaps>>

\* A paid one is flushed as completed: the lock is taken.  The row is not read
\* again, so one that was completed meanwhile is renewed for once more.
VerifyFlush(h) ==
    LET r == job[h] IN
    /\ r.pc = "flush" /\ HoldsPayment(r.p) = {}
    /\ job' = [job EXCEPT ![h].pc = "read"]
    /\ overlaps' = IF pay[r.p] = "completed" /\ r.seen # "completed" THEN overlaps \cup {r.p} ELSE overlaps
    /\ UNCHANGED <<payVars, subVars, today, failures, office, extended, due>>

NewEnd == end_date + Validity

\* _process_pppoe_subscription_renewal reads the latest subscription.
RenewActive(h) ==
    /\ job[h].pc = "read" /\ sub_status = "active"
    /\ job' = [job EXCEPT ![h] = [pc |-> "update", p |-> job[h].p, end |-> NewEnd]]
    /\ overlaps' = IF \E g \in Workers : job[g].pc \in {"update", "commit"}
                   THEN overlaps \cup {"renewals"} ELSE overlaps
    /\ UNCHANGED <<payVars, subVars, today, failures, office, extended, due>>

\* No subscription, no plan: the payment is committed and nothing is renewed.
RenewNothing(h) ==
    /\ job[h].pc = "read" /\ sub_status = "none"
    /\ pay' = [pay EXCEPT ![job[h].p] = "completed"]
    /\ job' = [job EXCEPT ![h] = NoJob]
    /\ UNCHANGED <<intent, page, treasury, subVars, today, failures, office, extended, due, overlaps>>

\* One that is not active is to be replaced; the new row has no router_id, which
\* the table requires, and the transaction is rolled back.
RenewInactive(h) ==
    /\ job[h].pc = "read" /\ sub_status = "expired"
    /\ job' = [job EXCEPT ![h] = NoJob]
    /\ UNCHANGED <<payVars, subVars, today, failures, office, extended, due, overlaps>>

\* The new end date is flushed ahead of the next query: the lock is taken.
FlushSub(h) ==
    /\ job[h].pc = "update" /\ HoldsSub = {}
    /\ job' = [job EXCEPT ![h].pc = "commit"]
    /\ UNCHANGED <<payVars, subVars, today, failures, office, extended, due, overlaps>>

\* The router has been called, the events are recorded, and all is committed.
VerifyCommit(h) ==
    LET r == job[h] IN
    /\ r.pc = "commit"
    /\ pay' = [pay EXCEPT ![r.p] = "completed"]
    /\ end_date' = r.end
    /\ due' = due + Validity
    /\ extended' = [extended EXCEPT ![r.p] = @ + 1]
    /\ overlaps' = IF sub_status # "active" \/ \E g \in Workers : job[g].pc = "expire"
                   THEN overlaps \cup {"expiry"} ELSE overlaps
    /\ job' = [job EXCEPT ![h] = NoJob]
    /\ UNCHANGED <<intent, page, treasury, sub_status, today, failures, office>>

\* Treasury cannot be reached, or the server dies: nothing is written.
JobDies(h) ==
    /\ job[h] # NoJob /\ failures < FailureBound
    /\ job' = [job EXCEPT ![h] = NoJob]
    /\ failures' = failures + 1
    /\ UNCHANGED <<payVars, subVars, today, office, extended, due, overlaps>>

-----------------------------------------------------------------------------
(***************************************************************************)
(* The others that write the subscription.                                 *)
(***************************************************************************)

\* Mutation: the expiry task uses the window of the expiry reminders.
ExpireLoadSoon(h) ==
    /\ job[h] = NoJob /\ sub_status = "active" /\ end_date <= today + 1
    /\ job' = [job EXCEPT ![h] = [pc |-> "expire"]]
    /\ UNCHANGED <<payVars, subVars, today, failures, office, extended, due, overlaps>>

\* process_expired_subscriptions loads its rows, and writes them later.
ExpireLoad(h) ==
    /\ job[h] = NoJob /\ sub_status = "active" /\ end_date <= today
    /\ job' = [job EXCEPT ![h] = [pc |-> "expire"]]
    /\ UNCHANGED <<payVars, subVars, today, failures, office, extended, due, overlaps>>

ExpireCommit(h) ==
    /\ job[h].pc = "expire" /\ HoldsSub = {}
    /\ sub_status' = "expired"
    /\ job' = [job EXCEPT ![h] = NoJob]
    /\ UNCHANGED <<payVars, end_date, today, failures, office, extended, due, overlaps>>

\* SubscriptionService.renew_subscription, for the office: the row is read.  The
\* office may choose any date in the future.
OfficeLoad(h, end) ==
    /\ job[h] = NoJob /\ sub_status # "none" /\ office < MaxOffice
    /\ end > today
    /\ job' = [job EXCEPT ![h] = [pc |-> "office", seen |-> sub_status, old |-> end_date, end |-> end]]
    /\ office' = office + 1
    /\ UNCHANGED <<payVars, subVars, today, failures, extended, due, overlaps>>

\* Its commit writes the columns that differ from what was read.
OfficeCommit(h) ==
    LET r == job[h] IN
    /\ r.pc = "office" /\ HoldsSub = {}
    /\ sub_status' = IF r.seen = "active" THEN sub_status ELSE "active"
    /\ end_date' = IF r.end = r.old THEN end_date ELSE r.end
    /\ due' = IF r.end = r.old THEN due ELSE r.end
    /\ overlaps' = overlaps
         \cup (IF \E g \in Workers : job[g].pc = "update" THEN {"renewals"} ELSE {})
         \cup (IF sub_status' # "active" \/ \E g \in Workers : job[g].pc = "expire"
               THEN {"expiry"} ELSE {})
    /\ job' = [job EXCEPT ![h] = NoJob]
    /\ UNCHANGED <<payVars, today, failures, office, extended>>

DayPasses ==
    /\ today < LastDay
    /\ today' = today + 1
    /\ UNCHANGED <<payVars, subVars, job, failures, office, extended, due, overlaps>>

-----------------------------------------------------------------------------
Renew(p) ==
    \/ renew_subscription(p) \/ IntentCreated(p)
    \/ \E dies \in BOOLEAN : IntentFailed(p, dies)
    \/ \E to \in {"paid", "failed"} : TreasurySettles(p, to)

Verify(h) ==
    \/ TreasuryAnswers(h) \/ VerifyFailed(h) \/ VerifyFlush(h)
    \/ RenewActive(h) \/ RenewNothing(h) \/ RenewInactive(h)
    \/ FlushSub(h) \/ VerifyCommit(h)

RenewalNext ==
    \/ \E p \in Payments : Renew(p)
    \/ \E h \in Workers :
          \/ \E p \in Payments : VerifyLoad(h, p)
          \/ Verify(h) \/ JobDies(h)
          \/ ExpireLoad(h) \/ ExpireCommit(h)
          \/ \E end \in 0 .. LastDay + Validity : OfficeLoad(h, end)
          \/ OfficeCommit(h)
    \/ DayPasses

RenewalSpec == RenewalInit /\ [][RenewalNext]_renewalVars

\* A request that is under way goes on, and the callback page asks until it has
\* an answer.
RenewalFairSpec ==
    /\ RenewalSpec
    /\ \A h \in Workers : WF_renewalVars(Verify(h) \/ ExpireCommit(h) \/ OfficeCommit(h))
    /\ \A p \in Payments : SF_renewalVars(\E h \in Workers : VerifyLoad(h, p))

-----------------------------------------------------------------------------
(***************************************************************************)
(* Properties.                                                             *)
(***************************************************************************)

\* A payment is completed only if treasury has the money.
CompletedWasPaid == \A p \in Payments : pay[p] = "completed" => treasury[p] = "paid"

\* A payment extends the subscription once, unless one verification found it
\* paid for before another that had done so committed.
ExtendedOnce == \A p \in Payments : extended[p] <= 1 \/ p \in overlaps

\* A completed payment has renewed something, unless the customer never had a
\* subscription.
CompletedIsRenewed ==
    \A p \in Payments : pay[p] = "completed" => extended[p] > 0 \/ sub_status = "none"

\* Every paid period is added to the end date and none of them shortens it,
\* unless two renewals were under way at once.
NoPaidTimeLost == end_date = due \/ "renewals" \in overlaps

\* A customer whose time runs is not cut off, unless a renewal and the expiry
\* task were under way at once.
PaidTimeRuns == sub_status = "expired" => end_date <= today \/ "expiry" \in overlaps

\* A paid renewal is completed in the end if the subscription is active; one
\* that has expired meanwhile is never renewed.
PaidIsCompleted ==
    \A p \in Payments : treasury[p] = "paid" ~> pay[p] = "completed" \/ sub_status # "active"

\* Each payment buys its period once, and no period is lost.
PaidTimeKept == ExtendedOnce /\ NoPaidTimeLost

\* What a payment says has happened has happened.
RenewalInv == RenewalTypeOK /\ CompletedWasPaid /\ CompletedIsRenewed
=============================================================================
