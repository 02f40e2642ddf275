--------------------------- MODULE HotspotVoucher ---------------------------
(***************************************************************************)
(* Hotspot vouchers: how they are issued (generated in the dashboard or    *)
(* bought online), redeemed, used to log in and edited, and how the expiry *)
(* reconciler ends the access they give.                                   *)
(*                                                                         *)
(* The access itself is an account on the organization's router.  It is    *)
(* changed by a direct API call or, when the router has the polling agent, *)
(* by queued commands.  A voucher row and its account are related only by  *)
(* what these operations do to both.                                       *)
(***************************************************************************)
EXTENDS Naturals, Sequences, FiniteSets, SequencesExt

CONSTANTS
    Vouchers,     \* rows of voucher_codes (and the account of each)
    Handlers,     \* portal requests that can be under way at once
    Window,       \* per voucher: its plan's access_window_hours(); 0: none
    Churn,        \* _churn_days_for_org, the window of a plan without one
    Shelf,        \* how far ahead expires_at lies (expires_in_days, 30 days)
    Grace,        \* grace_period_minutes
    BatchSize,    \* batch_size of the reconciler
    Presented,    \* bound: the vouchers that portal and dashboard deal with;
                  \* the others are bought and fill the reconciler's batch
    MaxTime,      \* bound on the clock
    MaxQueued,    \* bound on the commands that wait for a router account
    MaxFaults,    \* bound on router failures and crashes
    MaxEdits      \* bound on edits in the dashboard

NULL == 9999                   \* a DateTime column that is not set

VoucherConstants ==
    /\ IsFiniteSet(Vouchers) /\ Window \in [Vouchers -> Nat]
    /\ Churn \in Nat \ {0} /\ Shelf \in Nat \ {0} /\ Grace \in Nat
    /\ BatchSize \in Nat \ {0}
    /\ MaxTime \in Nat \ {0} /\ MaxTime + Shelf < NULL
    /\ MaxQueued \in Nat /\ MaxFaults \in Nat /\ MaxEdits \in Nat
    /\ Presented \subseteq Vouchers /\ "none" \notin Vouchers

ASSUME VoucherAssumption == VoucherConstants

VARIABLES
    status,      \* VoucherCode.status; "none" and "deleted": no such row
    is_used,     \* VoucherCode.is_used
    used_at,     \* VoucherCode.used_at
    expires_at,  \* VoucherCode.expires_at, the date to redeem it by
    bought,      \* completed_at of the purchase the voucher belongs to
    agent,       \* router.agent_installed and router.agent_token
    account,     \* the hotspot user on the router
    queued,      \* commands for that user that the router has not executed
    req,         \* portal requests under way
    task,        \* the run of process_expired_hotspot_users under way
    now, faults, edits,
    redemptions, \* customer_sessions rows that redemptions have created
    raced,       \* vouchers a request loaded while another was redeeming them
    untracked    \* vouchers whose account the reconciler may not know of

rowVars    == <<status, is_used, used_at, expires_at, bought>>
routerVars == <<account, queued>>
auxVars    == <<redemptions, raced, untracked>>
vars == <<rowVars, agent, routerVars, req, task, now, faults, edits, auxVars>>

Time   == 0 .. MaxTime + Shelf
Idle   == [pc |-> "idle", of |-> "none", status |-> "none", at |-> 0]
NoTask == [pc |-> "idle", at |-> 0, todo |-> <<>>, done |-> <<>>]
VoucherTypeOK ==
    /\ status \in [Vouchers -> {"none", "active", "used", "expired", "deleted"}]
    /\ is_used \in [Vouchers -> BOOLEAN]
    /\ used_at \in [Vouchers -> Time \cup {NULL}]
    /\ expires_at \in [Vouchers -> Time \cup {NULL}]
    /\ bought \in [Vouchers -> Time \cup {NULL}]
    /\ agent \in BOOLEAN
    /\ account \in [Vouchers -> {"absent", "enabled", "disabled"}]
    /\ \A v \in Vouchers : agent \/ queued[v] = <<>>
    /\ \A h \in Handlers : req[h].pc \in {"idle", "expire", "redeem", "login"}
    \* only what the task has put behind it has been expired by it
    /\ task.pc = "idle" => task.todo = <<>> /\ task.done = <<>>
    /\ untracked \subseteq Vouchers

Init ==
    /\ status = [v \in Vouchers |-> "none"]
    /\ is_used = [v \in Vouchers |-> FALSE]
    /\ used_at = [v \in Vouchers |-> NULL]
    /\ expires_at = [v \in Vouchers |-> NULL]
    /\ bought = [v \in Vouchers |-> NULL]
    /\ agent \in BOOLEAN
    /\ account = [v \in Vouchers |-> "absent"]
    /\ queued = [v \in Vouchers |-> <<>>]
    /\ req = [h \in Handlers |-> Idle]
    /\ task = NoTask
    /\ now = 1 /\ faults = 0 /\ edits = 0
    /\ redemptions = [v \in Vouchers |-> 0]
    /\ raced = {}
    /\ untracked = {}

Exists(v) == status[v] \notin {"none", "deleted"}

\* Bound: a window is only opened when there is time left for it to end.
Room(v) == now + (IF Window[v] > 0 THEN Window[v] ELSE Churn) + Grace < MaxTime

\* Bounds: faults and edits only happen while no other voucher is around.
Alone    == \A v \in Vouchers \ Presented : status[v] = "none"
MayFail  == faults < MaxFaults /\ Alone
MayEdit  == edits < MaxEdits /\ Alone
MayBuy(v) == v \in Presented \/ (faults = 0 /\ edits = 0)

-----------------------------------------------------------------------------
(***************************************************************************)
(* The router.                                                             *)
(***************************************************************************)

\* Creating leaves an account that exists as it is (the script looks first,
\* the API refuses a second add); disabling finds nothing if it is absent.
Effect(action, a) ==
    CASE action = "create"  -> IF a = "absent" THEN "enabled" ELSE a
      [] action = "disable" -> IF a = "absent" THEN "absent" ELSE "disabled"

\* What becomes of an account once the commands of q have been executed: the
\* first create that finds none makes it, and a disable after that ends it.
Outcome(a, q) ==
    LET Disables(i) == \E j \in DOMAIN q : j > i /\ q[j] = "disable"
        Creates     == {i \in DOMAIN q : q[i] = "create"}
    IN  IF a = "absent"
        THEN IF Creates = {} THEN "absent"
             ELSE IF \E i \in Creates : Disables(i) THEN "disabled" ELSE "enabled"
        ELSE IF Disables(0) THEN "disabled" ELSE a

\* The account once everything that is queued has been executed.
Outlook(v) == Outcome(account[v], queued[v])

\* _sync_hotspot_user_to_router: queue a create_user with the transaction, or
\* call the router; a router that is not reached changes nothing.
SyncUser(v, reached) ==
    IF agent
    THEN /\ reached /\ Len(queued[v]) < MaxQueued
         /\ queued' = [queued EXCEPT ![v] = Append(@, "create")]
         /\ UNCHANGED <<account, faults>>
    ELSE /\ account' = [account EXCEPT ![v] = IF reached THEN Effect("create", @) ELSE @]
         /\ reached \/ MayFail
         /\ faults' = IF reached THEN faults ELSE faults + 1
         /\ UNCHANGED queued

\* The commands of an account reach the router in the order they were queued.
RouterExecutes(v) ==
    /\ queued[v] # <<>>
    /\ account' = [account EXCEPT ![v] = Effect(Head(queued[v]), @)]
    /\ queued' = [queued EXCEPT ![v] = Tail(@)]
    /\ UNCHANGED <<rowVars, agent, req, task, now, faults, edits, auxVars>>

\* A command expires, uses up its retries, or fails and is sent again after
\* the one that was behind it.
RouterFails(v) ==
    /\ queued[v] # <<>> /\ MayFail
    /\ \/ queued' = [queued EXCEPT ![v] = Tail(@)]
       \/ /\ Len(queued[v]) > 1
          /\ queued' = [queued EXCEPT ![v] =
                           <<@[2], @[1]>> \o SubSeq(@, 3, Len(@))]
    /\ faults' = faults + 1
    /\ untracked' = untracked \cup {v}
    /\ UNCHANGED <<rowVars, agent, account, req, task, now, edits, redemptions, raced>>

-----------------------------------------------------------------------------
(***************************************************************************)
(* Issuing and editing.                                                    *)
(***************************************************************************)

\* The reconciler has flushed this row: writers wait for its transaction.
RowFree(v) == v \notin ToSet(task.done)

\* generate_vouchers, for one voucher of the batch.
generate_vouchers(v, shelf) ==
    /\ status[v] = "none"
    /\ status' = [status EXCEPT ![v] = "active"]
    /\ expires_at' = [expires_at EXCEPT ![v] = shelf]
    /\ UNCHANGED <<is_used, used_at, bought, agent, routerVars, req, task, now,
                   faults, edits, auxVars>>

\* The voucher of an online purchase: used from the start.
_process_successful_payment(v, reached) ==
    /\ status[v] = "none" /\ Room(v) /\ MayBuy(v)
    /\ status' = [status EXCEPT ![v] = "used"]
    /\ is_used' = [is_used EXCEPT ![v] = TRUE]
    /\ used_at' = [used_at EXCEPT ![v] = now]
    /\ expires_at' = [expires_at EXCEPT ![v] = now + Shelf]
    /\ bought' = [bought EXCEPT ![v] = now]
    /\ SyncUser(v, reached)
    /\ UNCHANGED <<agent, req, task, now, edits, auxVars>>

\* update_voucher: any status (there is no "disabled" in VoucherStatus, the
\* request for it fails), any date to redeem it by, or both; nothing else changes
\* and the router is not told.
update_voucher(v, st, shelf) ==
    /\ Exists(v) /\ RowFree(v) /\ MayEdit
    /\ st # status[v] \/ shelf # expires_at[v]
    /\ status' = [status EXCEPT ![v] = st]
    /\ expires_at' = [expires_at EXCEPT ![v] = shelf]
    /\ edits' = edits + 1
    /\ untracked' = IF st # status[v] THEN untracked \cup {v} ELSE untracked
    /\ UNCHANGED <<is_used, used_at, bought, agent, routerVars, req,
                   task, now, faults, redemptions, raced>>

\* delete_voucher: the row goes, the account stays.
delete_voucher(v) ==
    /\ Exists(v) /\ RowFree(v) /\ MayEdit
    /\ status' = [status EXCEPT ![v] = "deleted"]
    /\ bought' = [bought EXCEPT ![v] = NULL]
    /\ edits' = edits + 1
    /\ untracked' = untracked \cup {v}
    /\ UNCHANGED <<is_used, used_at, expires_at, agent, routerVars, req,
                   task, now, faults, redemptions, raced>>

-----------------------------------------------------------------------------
(***************************************************************************)
(* The portal.                                                             *)
(***************************************************************************)

PastDeadline(v) == expires_at[v] # NULL /\ now > expires_at[v]

\* Mutation: the check of is_used and of the status is left to the caller.
RedeemableUnchecked(v) == Exists(v)

\* The checks of redeem_voucher before it looks at the deadline.
Redeemable(v) == status[v] = "active" /\ ~ is_used[v]

Redeeming(v) == {h \in Handlers : req[h].pc = "redeem" /\ req[h].of = v}

\* redeem_voucher up to its plan; a voucher past its deadline will be expired.
RedeemLoad(h, v) ==
    /\ req[h] = Idle /\ Redeemable(v) /\ Room(v)
    /\ req' = [req EXCEPT ![h] =
                  [pc |-> IF PastDeadline(v) THEN "expire" ELSE "redeem",
                   of |-> v, status |-> status[v], at |-> now]]
    /\ raced' = IF Redeeming(v) # {} THEN raced \cup {v} ELSE raced
    /\ UNCHANGED <<rowVars, agent, routerVars, task, now, faults, edits,
                   redemptions, untracked>>

\* hotspot_login finds the voucher by its credentials, whatever its status.
LoginLoad(h, v) ==
    /\ req[h] = Idle /\ Exists(v)
    /\ req' = [req EXCEPT ![h] =
                  [pc |-> IF status[v] = "expired" \/ PastDeadline(v)
                          THEN "expire" ELSE "login",
                   of |-> v, status |-> status[v], at |-> 0]]
    /\ UNCHANGED <<rowVars, agent, routerVars, task, now, faults, edits, auxVars>>

\* Both mark a voucher past its deadline EXPIRED and refuse; the column is
\* only written when it was loaded with another value.
ExpireByRequest(h) ==
    LET v == req[h].of IN
    /\ req[h].pc = "expire" /\ RowFree(v)
    /\ req' = [req EXCEPT ![h] = Idle]
    /\ IF req[h].status = "expired" \/ ~ Exists(v)
       THEN UNCHANGED <<status, untracked>>
       ELSE /\ status' = [status EXCEPT ![v] = "expired"]
            /\ untracked' = untracked \cup {v}
    /\ UNCHANGED <<is_used, used_at, expires_at, bought, agent, routerVars, task,
                   now, faults, edits, redemptions, raced>>

\* The rest of redeem_voucher: one transaction, with the router sync in it.
RedeemCommit(h, reached) ==
    LET v == req[h].of IN
    /\ req[h].pc = "redeem" /\ RowFree(v)
    /\ req' = [req EXCEPT ![h] = Idle]
    /\ IF ~ Exists(v)                   \* deleted meanwhile: the flush fails
       THEN UNCHANGED <<status, is_used, used_at, routerVars, faults, redemptions>>
       ELSE /\ status' = [status EXCEPT ![v] = "used"]
            /\ is_used' = [is_used EXCEPT ![v] = TRUE]
            /\ used_at' = [used_at EXCEPT ![v] = req[h].at]
            /\ redemptions' = [redemptions EXCEPT ![v] = @ + 1]
            /\ SyncUser(v, reached)
    /\ UNCHANGED <<expires_at, bought, agent, task, now, edits, raced, untracked>>

\* The rest of hotspot_login: the account is synced, the voucher is not touched.
LoginCommit(h, reached) ==
    LET v == req[h].of IN
    /\ req[h].pc = "login"
    /\ req' = [req EXCEPT ![h] = Idle]
    /\ SyncUser(v, reached)
    /\ untracked' = IF \/ req[h].status = "active"      \* never redeemed
                        \/ status[v] # req[h].status     \* expired meanwhile
                        \/ ~ RowFree(v)                  \* about to be
                    THEN untracked \cup {v} ELSE untracked
    /\ UNCHANGED <<rowVars, agent, task, now, edits, redemptions, raced>>

\* The request dies; on the direct path perhaps after its call to the router.
RequestDies(h, called) ==
    LET v == req[h].of IN
    /\ req[h].pc # "idle" /\ MayFail
    /\ called => ~ agent /\ req[h].pc \in {"redeem", "login"}
    /\ req' = [req EXCEPT ![h] = Idle]
    /\ account' = [account EXCEPT ![v] = IF called THEN Effect("create", @) ELSE @]
    /\ untracked' = IF called THEN untracked \cup {v} ELSE untracked
    /\ faults' = faults + 1
    /\ UNCHANGED <<rowVars, agent, queued, task, now, edits, redemptions, raced>>

-----------------------------------------------------------------------------
(***************************************************************************)
(* The expiry reconciler.                                                  *)
(***************************************************************************)

\* Mutation: a plan without a duration is left to the router's own limits.
AccessExpiryNoChurn(v, activated) ==
    IF Window[v] > 0 THEN activated + Window[v] ELSE NULL

\* ServicePlan.access_expiry_from with the organization's churn window.
access_expiry_from(v, activated) ==
    activated + (IF Window[v] > 0 THEN Window[v] ELSE Churn)

\* When the reconciler takes the access of v to have begun.
Activated(v) == IF status[v] = "used" THEN used_at[v] ELSE bought[v]

\* Its two selects: redeemed vouchers, and purchases left ACTIVE.
UsedRows   == {v \in Vouchers : status[v] = "used" /\ used_at[v] # NULL}
BoughtRows == {v \in Vouchers : status[v] = "active" /\ bought[v] # NULL}

\* s holds the oldest BatchSize rows of UsedRows, in order.
OldestUsed(s) ==
    /\ IsInjective(s) /\ ToSet(s) \subseteq UsedRows
    /\ Len(s) = IF Cardinality(UsedRows) < BatchSize
                THEN Cardinality(UsedRows) ELSE BatchSize
    /\ \A i, j \in DOMAIN s : i < j => used_at[s[i]] <= used_at[s[j]]
    /\ \A v \in ToSet(s), w \in UsedRows \ ToSet(s) : used_at[v] <= used_at[w]

\* process_expired_hotspot_users up to its loop.
ReconcileSelect ==
    /\ task.pc = "idle"
    /\ \E s \in BoundedSeq(UsedRows, BatchSize) :
       \E b \in SUBSET BoughtRows :
          /\ OldestUsed(s)
          /\ b = BoughtRows \/ Cardinality(b) = BatchSize
          /\ s # <<>> \/ b # {}
          /\ LET all == s \o SetToSeq(b) IN
             task' = [pc |-> "loop", at |-> now, done |-> <<>>,
                      todo |-> [i \in DOMAIN all |-> <<all[i], Activated(all[i])>>]]
    /\ UNCHANGED <<rowVars, agent, routerVars, req, now, faults, edits, auxVars>>

\* _expire_hotspot_user_on_router.  With the agent its two commands are rows
\* of the task's own transaction, so they only count once that commits.
_expire_hotspot_user_on_router(v, reached) ==
    IF agent
    THEN reached /\ UNCHANGED <<account, faults, untracked>>
    ELSE /\ reached \/ MayFail
         /\ account' = [account EXCEPT ![v] = IF reached THEN Effect("disable", @) ELSE @]
         /\ faults' = IF reached THEN faults ELSE faults + 1
         /\ untracked' = IF reached THEN untracked ELSE untracked \cup {v}

\* Mutation: the window ends one unit early.
DueEarly(c) == task.at >= access_expiry_from(c[1], c[2]) + Grace

\* The test in the loop, on what was loaded.
Due(c) == task.at > access_expiry_from(c[1], c[2]) + Grace

\* One candidate that is not due: the loop goes on.
ReconcileSkip ==
    /\ task.pc = "loop" /\ task.todo # <<>> /\ ~ Due(Head(task.todo))
    /\ task' = [task EXCEPT !.todo = Tail(@)]
    /\ UNCHANGED <<rowVars, agent, routerVars, req, now, faults, edits, auxVars>>

\* One candidate that is due: the router call, then the row, whatever the
\* router said; the next statement flushes the row and so locks it.
ReconcileExpire(reached) ==
    /\ task.pc = "loop" /\ task.todo # <<>> /\ Due(Head(task.todo))
    /\ LET v == Head(task.todo)[1] IN
       /\ _expire_hotspot_user_on_router(v, reached)
       /\ task' = [task EXCEPT !.todo = Tail(@), !.done = Append(@, v)]
    /\ UNCHANGED <<rowVars, agent, queued, req, now, edits, redemptions, raced>>

\* The commit at the end.  A row that was deleted fails the flush, and with it
\* the whole transaction.
ReconcileCommit ==
    /\ task.pc = "loop" /\ task.todo = <<>>
    /\ task' = NoTask
    /\ IF \E v \in ToSet(task.done) : ~ Exists(v)
       THEN UNCHANGED <<status, queued>>
       ELSE /\ status' = [v \in Vouchers |->
                             IF v \in ToSet(task.done) THEN "expired" ELSE status[v]]
            /\ queued' = [v \in Vouchers |->
                             IF agent /\ v \in ToSet(task.done)
                             THEN Append(queued[v], "disable") ELSE queued[v]]
    /\ UNCHANGED <<is_used, used_at, expires_at, bought, agent, account, req, now,
                   faults, edits, auxVars>>

\* The task dies and its transaction is rolled back.
ReconcileDies ==
    /\ task.pc = "loop" /\ MayFail
    /\ task' = NoTask
    /\ faults' = faults + 1
    /\ UNCHANGED <<rowVars, agent, routerVars, req, now, edits, auxVars>>

Tick ==
    /\ now < MaxTime
    /\ now' = now + 1
    /\ UNCHANGED <<rowVars, agent, routerVars, req, task, faults, edits, auxVars>>

-----------------------------------------------------------------------------
\* The date an edit leaves.  Bound: as it was, or now: not past yet, but after a tick.
EditedDates(v) == {expires_at[v], now}

Issue(v) ==
    \/ v \in Presented /\ \E shelf \in {NULL, now + Shelf} : generate_vouchers(v, shelf)
    \/ \E reached \in BOOLEAN : _process_successful_payment(v, reached)

Edit(v) ==
    \/ \E st \in {"active", "used", "expired"}, shelf \in EditedDates(v) :
          update_voucher(v, st, shelf)
    \/ delete_voucher(v)

Portal(h) ==
    \/ \E v \in Presented : RedeemLoad(h, v) \/ LoginLoad(h, v)
    \/ ExpireByRequest(h)
    \/ \E reached \in BOOLEAN : RedeemCommit(h, reached) \/ LoginCommit(h, reached)
    \/ \E called \in BOOLEAN : RequestDies(h, called)

Reconcile ==
    \/ ReconcileSelect
    \/ ReconcileSkip
    \/ \E reached \in BOOLEAN : ReconcileExpire(reached)
    \/ ReconcileCommit

Next ==
    \/ \E v \in Vouchers : Issue(v) \/ RouterExecutes(v) \/ RouterFails(v)
    \/ \E v \in Presented : Edit(v)
    \/ \E h \in Handlers : Portal(h)
    \/ Reconcile
    \/ ReconcileDies
    \/ Tick

Spec == Init /\ [][Next]_vars

\* Time passes, beat keeps starting the task, and a run comes to its end.
FairSpec == Spec /\ WF_vars(Tick) /\ WF_vars(Reconcile)

-----------------------------------------------------------------------------
(***************************************************************************)
(* Properties.                                                             *)
(***************************************************************************)

\* The reconciler will come to this voucher.
Tracked(v) == v \in UsedRows \cup BoughtRows

\* Access that is on, or will be once the router has caught up, belongs to a
\* voucher that the reconciler will come to, unless one of the known gaps let
\* it slip: a router that could not be reached or lost a command, a deadline
\* applied by the portal, an edit in the dashboard, a login with a voucher
\* that was never redeemed, a login under way while the voucher expires, a
\* request that died after calling the router.
\* A voucher it is about to expire counts: the disable comes with its commit.
AccessIsTracked ==
    \A v \in Vouchers :
        Outlook(v) = "enabled" => Tracked(v) \/ v \in untracked

\* A voucher is redeemed at most once, unless two requests had both loaded it
\* before either committed (redeem_voucher takes no lock on the row).
RedeemedOnceUnlessRaced ==
    \A v \in Vouchers : redemptions[v] > 1 => v \in raced

\* The reconciler never takes access away, on the router or by a command that
\* waits for it, before the window has passed that began when the voucher was
\* used.
WindowIsHonoured ==
    [][\A v \in Vouchers :
          Outlook(v) = "enabled" /\ Outlook(v)' = "disabled"
          => \/ now > access_expiry_from(v, used_at[v]) + Grace
             \/ v \in raced]_vars

\* Every used voucher leaves that status in the end, however long the windows
\* of the older ones that fill the reconciler's batch.
AccessEnds == \A v \in Vouchers : v \in UsedRows ~> v \notin UsedRows

\* What a voucher was redeemed for is accounted for, on the router too.
RedeemInv == VoucherTypeOK /\ RedeemedOnceUnlessRaced /\ AccessIsTracked
=============================================================================
