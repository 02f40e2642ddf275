----------------------- MODULE SubscriptionRouterSync -----------------------
(***************************************************************************)
(* Subscriptions, the account each one has on its router, and the ways a   *)
(* change of a subscription reaches that account: through the command      *)
(* queue (RouterCommandQueue) when the router has the polling agent, or by *)
(* a direct API call when it has not.                                      *)
(*                                                                         *)
(* A request handler loads a subscription, changes it in memory, commits,  *)
(* reads the row again and then syncs the router with the status it holds  *)
(* in memory; a beat task loads its whole batch first and gets to a row    *)
(* only after the router calls for the rows before it.  Only an expiry on  *)
(* the direct path locks its row, from its flush to its commit; everything *)
(* else can happen between these steps.                                    *)
(***************************************************************************)
EXTENDS RouterCommandQueue, FiniteSets

CONSTANTS
    Subscriptions,    \* rows of the subscriptions table (of this router)
    Handlers,         \* requests and tasks that can be under way at once
    Agents,           \* whether the router may, or may not, have the agent
    Period,           \* a request's end date lies at most this far ahead
    Prune,            \* prune_inactive_users_days
    Purge,            \* hard_purge_days
    Operations,       \* the requests and tasks that there are, with and
                      \*   without the agent (bound)
    MaxOps            \* bound on the operations that are started

VARIABLES
    AgentInstalled, \* router.agent_installed and router.agent_token
    sub,        \* Subscription.status; "none": there is no such row
    end_date,   \* Subscription.end_date
    synced,     \* Subscription.is_router_synced
    user,       \* the account on the router
    command,    \* what each row of router_commands asks for
    synced_seen,\* is_router_synced as a report handler has loaded it
    req,        \* the handlers
    ops,        \* how many operations were started (bound)
    \* history, sets of subscriptions:
    misreported,\* is_router_synced was set, or left set, for the wrong reason
    ignored,    \* the router did not make the last change it was asked for,
                \*   and the error was swallowed
    crossed,    \* a direct call was made, or is under way, for another state
    renewed     \* the last renewal met an expiry or a churn-mark under way

flawVars == <<misreported, ignored, crossed, renewed>>
subVars  == <<sub, end_date, synced, user, command, synced_seen, req, ops, flawVars>>
allVars  == <<vars, AgentInstalled, subVars>>

SubscriptionStatus ==
    {"active", "inactive", "suspended", "expired", "cancelled", "pending"}
Blocked   == {"expired", "suspended", "cancelled"}
Account   == {"absent", "enabled", "disabled"}
Requests  == {"activate", "suspend", "cancel", "delete", "renew"}
Tasks     == {"expire", "churn", "purge"}
Enforced  == Blocked \cup {"active"}    \* what the sync has an action for
Actions   == {"create_user", "disable_user", "remove_user"}
NoCommand == [action |-> "none", of |-> "none", sync |-> FALSE, seq |-> 0,
              amid |-> {}]
NoRequest == [pc |-> "idle", op |-> "none", of |-> "none",
              status |-> "none", synced |-> FALSE, ok |-> FALSE]

ASSUME SyncAssumption ==
    /\ Agents \subseteq BOOLEAN /\ {2, 3} \subseteq Priorities /\ "none" \notin Subscriptions
    /\ Period \in Nat /\ Prune \in Nat /\ Purge \in Nat /\ MaxOps \in Nat
    /\ Operations \in [BOOLEAN -> SUBSET (Requests \cup Tasks)]

SyncTypeOK ==
    /\ sub \in [Subscriptions -> SubscriptionStatus \cup {"none"}]
    /\ end_date \in [Subscriptions -> Nat]
    /\ synced \in [Subscriptions -> BOOLEAN]
    /\ user \in [Subscriptions -> Account]
    /\ synced_seen \in [Runs -> BOOLEAN]
    /\ \A c \in Commands : command[c] = NoCommand <=> status[c] = "none"
    /\ ops \in 0 .. MaxOps
    /\ \A h \in Handlers : req[h].pc \in {"idle", "loaded", "committed", "sync", "flag"}
    \* only the direct path has a flag to write after its call to the router
    /\ \A h \in Handlers : req[h].pc = "flag" => ~ AgentInstalled

SyncInit ==
    /\ Init
    /\ AgentInstalled \in Agents
    /\ sub = [s \in Subscriptions |-> "none"]
    /\ end_date = [s \in Subscriptions |-> 0]
    /\ synced = [s \in Subscriptions |-> FALSE]
    /\ user = [s \in Subscriptions |-> "absent"]
    /\ command = [c \in Commands |-> NoCommand]
    /\ synced_seen = [r \in Runs |-> FALSE]
    /\ req = [h \in Handlers |-> NoRequest]
    /\ ops = 0
    /\ misreported = {} /\ ignored = {} /\ crossed = {} /\ renewed = {}

-----------------------------------------------------------------------------
(***************************************************************************)
(* What the operations do to a subscription.                               *)
(***************************************************************************)

NewStatus(op) ==
    CASE op \in {"activate", "renew"}  -> "active"
      [] op = "suspend"                -> "suspended"
      [] op \in {"cancel", "delete"}   -> "cancelled"
      [] op = "expire"                 -> "expired"
      [] op = "churn"                  -> "inactive"

\* The operations that mark the subscription for sync.
Marks(op) == op \in {"activate", "suspend", "cancel", "renew"}

\* The operations that call the router sync after their commit.
SyncsAfter(op, old) ==
    \/ op \in {"activate", "suspend", "cancel"}
    \/ op = "renew" /\ old # "active"

\* The rows a beat task selects.
Selects(op, s) ==
    CASE op = "expire" -> sub[s] = "active" /\ end_date[s] <= now
      [] op = "churn"  -> sub[s] = "expired" /\ end_date[s] + Prune < now
      [] op = "purge"  -> /\ sub[s] \in {"inactive", "expired", "cancelled"}
                          /\ end_date[s] + Purge < now

CommandsOf(s) == {c \in Commands : command[c].of = s}

\* A command that can still reach the router.
Live(c) == status[c] \in Open \/ \E r \in Runs : c \in Range(batch[r])

\* The most recent command queued for s.
Latest(s, c) == /\ c \in CommandsOf(s)
                /\ \A d \in CommandsOf(s) : command[d].seq <= command[c].seq

\* s is, or is not, in a set from now on.
Noted(set, s, cond) == IF cond THEN set \cup {s} ELSE set \ {s}

-----------------------------------------------------------------------------
(***************************************************************************)
(* The router account.                                                     *)
(***************************************************************************)

\* Mutation: disable_user reports a success and leaves the account alone.
AgentEffectKeepsEnabled(action, account) ==
    CASE action = "create_user"  -> IF account = "absent" THEN "enabled" ELSE account
      [] action = "disable_user" -> account
      [] action = "remove_user"  -> "absent"

\* What the agent script does for a command it executes without an error:
\* create_user leaves an existing account as it is, disabled or not.
AgentEffect(action, account) ==
    CASE action = "create_user"  -> IF account = "absent" THEN "enabled" ELSE account
      [] action = "disable_user" -> IF account = "absent" THEN "absent" ELSE "disabled"
      [] action = "remove_user"  -> "absent"

\* Mutation: an account that exists is taken to be in order.
DirectEffectKeepsDisabled(st, account) ==
    CASE st = "active"   -> IF account = "absent" THEN "enabled" ELSE account
      [] st \in Blocked  -> IF account = "absent" THEN "absent" ELSE "disabled"

\* What the direct API path does: _ensure_user_on_router or
\* _disable_user_on_router, by the status the handler holds.
DirectEffect(st, account) ==
    CASE st = "active"   -> "enabled"
      [] st \in Blocked  -> IF account = "absent" THEN "absent" ELSE "disabled"

-----------------------------------------------------------------------------
(***************************************************************************)
(* Handlers.                                                               *)
(***************************************************************************)

\* A customer comes, or comes back after a purge: a row with an id of its own, so
\* that the reports of older commands no longer concern it.  Bound: whoever still
\* holds the deleted row has come to its end.
create_subscription(s) ==
    /\ sub[s] = "none"
    /\ now + Period < MaxTime
    /\ \A h \in Handlers : req[h].of # s
    /\ \A r \in Runs : pc[r] = "loaded" => command[Head(batch[r])].of # s
    /\ sub' = [sub EXCEPT ![s] = "pending"]
    /\ \E d \in 0 .. Period : end_date' = [end_date EXCEPT ![s] = now + d]
    /\ synced' = [synced EXCEPT ![s] = FALSE]
    /\ command' = [c \in Commands |->
                      IF command[c].of = s THEN [command[c] EXCEPT !.sync = FALSE] ELSE command[c]]
    /\ misreported' = misreported \ {s} /\ crossed' = crossed \ {s} /\ renewed' = renewed \ {s}
    /\ UNCHANGED <<vars, user, synced_seen, req, ops, ignored>>

Load(h, op, s) ==
    /\ req[h].pc = "idle"
    /\ sub[s] # "none"
    /\ op \in Tasks => Selects(op, s)
    /\ req' = [req EXCEPT ![h] = [pc |-> "loaded", op |-> op, of |-> s, ok |-> FALSE,
                                  status |-> sub[s], synced |-> synced[s]]]
    /\ ops < MaxOps /\ ops' = ops + 1
    /\ UNCHANGED <<vars, sub, end_date, synced, user, command, synced_seen, flawVars>>

Done(h) == req' = [req EXCEPT ![h] = NoRequest]

\* An expiry has flushed its status and waits for the router.
Locked(s) == \E h \in Handlers :
                req[h].pc = "flag" /\ req[h].op = "expire" /\ req[h].of = s

\* queue_command for a subscription, in the transaction of the caller.  History:
\* seq is the place of the command in the order of queueing, amid are the actions
\* of the subscription's commands that could still reach the router.
QueueFor(s, action, p, sync) ==
    \E c \in Commands :
        /\ queue_command(c, p)
        /\ command' = [command EXCEPT ![c] =
              [action |-> action, of |-> s, sync |-> sync,
               seq |-> Cardinality({d \in Commands : status[d] # "none"}),
               amid |-> {command[d].action : d \in {e \in CommandsOf(s) : Live(e)}}]]

\* _sync_via_agent_queue for the status the handler holds.
_sync_via_agent_queue(s, st) ==
    \/ st = "active" /\ QueueFor(s, "create_user", 3, TRUE)
    \/ st \in Blocked /\ QueueFor(s, "disable_user", 2, TRUE)
    \/ st \notin Enforced /\ UNCHANGED <<vars, command>>

\* The commit of a service request: only the changed columns are written.
Commit(h) ==
    LET s == req[h].of  op == req[h].op  old == req[h] IN
    /\ req[h].pc = "loaded" /\ op \in Requests /\ sub[s] # "none" /\ ~ Locked(s)
    /\ op = "renew" => now + Period < MaxTime
    /\ sub' = [sub EXCEPT ![s] = Flush(@, old.status, NewStatus(op))]
    /\ synced' = [synced EXCEPT ![s] =
                    IF Marks(op) THEN Flush(@, old.synced, FALSE) ELSE @]
    /\ \E d \in 0 .. Period :
          end_date' = [end_date EXCEPT ![s] = IF op = "renew" THEN now + d ELSE @]
    /\ IF SyncsAfter(op, old.status) THEN req' = [req EXCEPT ![h].pc = "committed"]
                                     ELSE Done(h)
    /\ misreported' = IF Marks(op) THEN Noted(misreported, s, synced'[s]) ELSE misreported
    /\ crossed' = IF Marks(op) /\ sub'[s] = "active"
                  THEN Noted(crossed, s, \/ synced'[s]
                                         \/ \E g \in Handlers \ {h} :
                                              req[g].of = s /\ req[g].pc \in {"sync", "flag"})
                  ELSE crossed
    /\ renewed' = IF op = "renew"
                  THEN Noted(renewed, s, \/ sub'[s] # "active"
                                         \/ \E g \in Handlers \ {h} :
                                              req[g].of = s /\ req[g].op \in {"expire", "churn"})
                  ELSE renewed
    /\ UNCHANGED <<vars, user, command, synced_seen, ops, ignored>>

\* db.refresh after the commit: the sync will use what the row says now.
Refresh(h) ==
    LET s == req[h].of IN
    /\ req[h].pc = "committed" /\ sub[s] # "none"
    /\ req' = [req EXCEPT ![h].pc = "sync", ![h].status = sub[s], ![h].synced = synced[s]]
    /\ UNCHANGED <<vars, sub, end_date, synced, user, command, synced_seen, ops, flawVars>>

\* sync_subscription_to_router after the commit, through the queue.
SyncViaQueue(h) ==
    /\ AgentInstalled /\ req[h].pc = "sync"
    /\ _sync_via_agent_queue(req[h].of, req[h].status)
    /\ Done(h)
    /\ UNCHANGED <<sub, end_date, synced, user, synced_seen, ops, flawVars>>

\* process_expired_subscriptions for one loaded row: the commit inside the sync
\* writes the status and the command together, and not the flag.
ExpireCommit(h) ==
    LET s == req[h].of IN
    /\ AgentInstalled /\ req[h].pc = "loaded" /\ req[h].op = "expire"
    /\ sub[s] # "none"
    /\ sub' = [sub EXCEPT ![s] = "expired"]
    /\ _sync_via_agent_queue(s, "expired")
    /\ Done(h)
    /\ UNCHANGED <<end_date, synced, user, synced_seen, ops, flawVars>>

\* process_churn_mark for one loaded row.
ChurnCommit(h) ==
    LET s == req[h].of IN
    /\ req[h].pc = "loaded" /\ req[h].op = "churn" /\ sub[s] # "none" /\ ~ Locked(s)
    /\ sub' = [sub EXCEPT ![s] = "inactive"]
    /\ IF AgentInstalled THEN QueueFor(s, "remove_user", 3, FALSE)
                         ELSE UNCHANGED <<vars, command>>
    /\ Done(h)
    /\ UNCHANGED <<end_date, synced, user, synced_seen, ops, flawVars>>

\* process_hard_purge for one loaded row: a DELETE by id.
PurgeCommit(h) ==
    LET s == req[h].of IN
    /\ req[h].pc = "loaded" /\ req[h].op = "purge" /\ ~ Locked(s)
    /\ sub' = [sub EXCEPT ![s] = "none"]
    /\ end_date' = [end_date EXCEPT ![s] = 0]
    /\ synced' = [synced EXCEPT ![s] = FALSE]
    /\ IF AgentInstalled THEN QueueFor(s, "remove_user", 3, FALSE)
                         ELSE UNCHANGED <<vars, command>>
    /\ Done(h)
    /\ UNCHANGED <<user, synced_seen, ops, flawVars>>

\* The handler dies, or finds that its row has been deleted.
Crash(h) ==
    /\ req[h].pc # "idle"
    /\ Done(h)
    /\ UNCHANGED <<vars, sub, end_date, synced, user, command, synced_seen, ops, flawVars>>

-----------------------------------------------------------------------------
(***************************************************************************)
(* The direct API path.                                                    *)
(***************************************************************************)

\* The call to the router: whether the change is made, and whether the handler is
\* told so.  Errors of a call for an account that exists and shall be enabled are
\* swallowed (_update_user_profile); any other call that raises is a failure,
\* whether or not the router has made the change.  An expiry calls before its
\* commit, the other operations after theirs.
DirectCall(h, done, told) ==
    LET s       == req[h].of
        expiry  == req[h].pc = "loaded"
        st      == IF expiry THEN "expired" ELSE req[h].status
        updates == st = "active" /\ user[s] # "absent"
    IN
    /\ ~ AgentInstalled
    /\ \/ req[h].pc = "sync"
       \/ expiry /\ req[h].op = "expire" /\ sub[s] # "none" /\ ~ Locked(s)
    /\ done \/ told => st \in Enforced
    /\ told /\ ~ done => updates
    /\ done /\ ~ told => ~ updates
    /\ user' = [user EXCEPT ![s] = IF done THEN DirectEffect(st, @) ELSE @]
    /\ req' = [req EXCEPT ![h].pc = "flag", ![h].ok = told, ![h].status = st]
    /\ ignored' = IF done \/ told THEN Noted(ignored, s, ~ done) ELSE ignored
    /\ crossed' = IF expiry /\ end_date[s] > now THEN crossed \cup {s} ELSE crossed
    /\ UNCHANGED <<vars, sub, end_date, synced, command, synced_seen, ops, misreported, renewed>>

\* The commit that follows the call writes the flag, and an expiry's status.
DirectCommit(h) ==
    LET s == req[h].of  old == req[h] IN
    /\ old.pc = "flag" /\ sub[s] # "none"
    /\ old.op # "expire" => ~ Locked(s)
    /\ synced' = [synced EXCEPT ![s] = Flush(@, old.synced, old.ok)]
    /\ sub' = IF old.op = "expire" THEN [sub EXCEPT ![s] = "expired"] ELSE sub
    /\ Done(h)
    /\ UNCHANGED <<vars, end_date, user, command, synced_seen, ops, flawVars>>

\* The router cannot be reached: the sync gives up without touching the flag,
\* and an expiry commits its status all the same.
DirectUnreachable(h) ==
    LET s == req[h].of IN
    /\ ~ AgentInstalled
    /\ \/ req[h].pc = "sync" /\ UNCHANGED sub
       \/ /\ req[h].pc = "loaded" /\ req[h].op = "expire"
          /\ sub[s] # "none" /\ ~ Locked(s)
          /\ sub' = [sub EXCEPT ![s] = "expired"]
    /\ Done(h)
    /\ UNCHANGED <<vars, end_date, synced, user, command, synced_seen, ops, flawVars>>

-----------------------------------------------------------------------------
(***************************************************************************)
(* The queue's own steps, with what they mean for subscriptions.           *)
(***************************************************************************)

\* Every line of remove_user ignores its errors: it reports a success whether or
\* not the account is gone.
ExecuteOnRouter(r, o, done) ==
    LET c == command[Head(batch[r])] IN
    /\ Execute(r, o)
    /\ c.action = "remove_user" => o = "success"
    /\ c.action # "remove_user" => done = (o = "success")
    /\ user' = IF done THEN [user EXCEPT ![c.of] = AgentEffect(c.action, @)] ELSE user
    /\ ignored' = IF c.action = "remove_user"
                  THEN Noted(ignored, c.of, ~ done /\ user[c.of] # "absent") ELSE ignored
    /\ UNCHANGED <<sub, end_date, synced, command, synced_seen, ops, req,
                   misreported, crossed, renewed>>

\* A report's handler loads the subscription along with the command, if there is one.
ReportLoadSub(r) ==
    LET c == Head(batch[r]) IN
    /\ ReportLoad(r)
    /\ synced_seen' = [synced_seen EXCEPT ![r] = synced[command[c].of]]
    /\ command' = [command EXCEPT ![c].sync = @ /\ sub[command[c].of] # "none"]
    /\ UNCHANGED <<sub, end_date, synced, user, req, ops, flawVars>>

\* _update_subscription_sync_status, in the transaction of the report.  If the row
\* it has loaded was deleted meanwhile the transaction fails.
ReportCommitSub(r) ==
    LET c == Head(batch[r])  s == command[c].of
        marks == outcome[r] = "success" /\ command[c].sync
    IN
    /\ ReportCommit(r)
    /\ marks => sub[s] # "none"
    /\ synced' = IF marks THEN [synced EXCEPT ![s] = Flush(@, synced_seen[r], TRUE)] ELSE synced
    /\ misreported' = IF synced' # synced
                      THEN Noted(misreported, s,
                                 ~ (Latest(s, c) /\ (sub[s] = "active" => command[c].action = "create_user")))
                      ELSE misreported
    /\ synced_seen' = [synced_seen EXCEPT ![r] = FALSE]
    /\ UNCHANGED <<sub, end_date, user, command, req, ops, ignored, crossed, renewed>>

QueueStep ==
    /\ \/ \E r \in Runs :
            \/ PollSelect(r)
            \/ \E answered \in BOOLEAN : PollCommit(r, answered)
            \/ PollAbort(r)
            \/ Reboot(r)
       \/ Cleanup
       \/ Tick
    /\ UNCHANGED subVars

ReportLostSub(r) ==
    /\ ReportLost(r)
    /\ synced_seen' = [synced_seen EXCEPT ![r] = FALSE]
    /\ UNCHANGED <<sub, end_date, synced, user, command, req, ops, flawVars>>

RouterStep(r) ==
    \/ \E o \in Outcomes, done \in BOOLEAN : ExecuteOnRouter(r, o, done)
    \/ ReportLoadSub(r)
    \/ ReportCommitSub(r)
    \/ ReportLostSub(r)

HandlerStep(h) ==
    \/ Commit(h) \/ Refresh(h) \/ SyncViaQueue(h)
    \/ ExpireCommit(h) \/ ChurnCommit(h) \/ PurgeCommit(h)
    \/ \E done, told \in BOOLEAN : DirectCall(h, done, told)
    \/ DirectCommit(h) \/ DirectUnreachable(h)
    \/ Crash(h)

SyncNext ==
    /\ \/ \E s \in Subscriptions : create_subscription(s)
       \/ \E h \in Handlers, op \in Operations[AgentInstalled], s \in Subscriptions : Load(h, op, s)
       \/ \E h \in Handlers : HandlerStep(h)
       \/ \E r \in Runs : RouterStep(r)
       \/ QueueStep
    /\ UNCHANGED AgentInstalled

SyncSpec == SyncInit /\ [][SyncNext]_allVars

-----------------------------------------------------------------------------
(***************************************************************************)
(* Properties.                                                             *)
(***************************************************************************)

\* The youngest command that the router has executed for a customer decides what
\* the account is like, whatever is retried, reset, resent or reported late: a
\* disable_user takes away access, a remove_user the account, a create_user
\* provides one.  It takes an older command with the opposite effect that could
\* still reach the router when it was queued to undo it, or a removal whose
\* failure the script ignored.
LatestCommandDecides ==
    \A s \in Subscriptions, c \in Commands :
        Latest(s, c) /\ c \in executed =>
            CASE command[c].action = "disable_user" ->
                    user[s] # "enabled" \/ "create_user" \in command[c].amid
              [] command[c].action = "remove_user" ->
                    \/ user[s] = "absent"
                    \/ s \in ignored \/ "create_user" \in command[c].amid
              [] command[c].action = "create_user" ->
                    user[s] # "absent" \/ "remove_user" \in command[c].amid

\* With the agent, an active subscription that is marked synced has an account on
\* the router, unless a report of another command set the flag, or a removal could
\* still reach the router when the account was asked for.
ActiveSyncedPresent ==
    AgentInstalled =>
        \A s \in Subscriptions :
            sub[s] = "active" /\ synced[s] /\ s \notin misreported =>
                \/ user[s] # "absent"
                \/ \E c \in CommandsOf(s) : /\ command[c].action = "create_user"
                                            /\ "remove_user" \in command[c].amid

\* Subscription.is_active
is_active(s) == sub[s] = "active" /\ end_date[s] > now

\* Without the agent, an active subscription whose time runs and which is marked
\* synced can use the router, whichever calls fail: the account is there, and it
\* is enabled unless the router refused that and the error was swallowed.  The
\* exception is an activation or renewal that commits while the direct call of
\* another operation is under way or between the load and the call of an expiry.
EnabledWithoutAgent ==
    ~ AgentInstalled =>
        \A s \in Subscriptions :
            is_active(s) /\ synced[s] /\ s \notin crossed =>
                user[s] = "enabled" \/ (user[s] = "disabled" /\ s \in ignored)

\* A subscription is expired or churned only when its end date has passed, unless
\* the renewal that moved it met an expiry or a churn-mark under way.
ExpiredMeansPastEnd ==
    \A s \in Subscriptions :
        sub[s] \in {"expired", "inactive"} => end_date[s] <= now \/ s \in renewed

\* What a row says of its customer is true of the router and of the clock: the
\* conditions are those of the three parts.
SyncInv == SyncTypeOK /\ ActiveSyncedPresent /\ EnabledWithoutAgent /\ ExpiredMeansPastEnd

\* A subscription that is active, runs and is marked synced by the report of its
\* youngest command can use the router: its account is not disabled, whatever it
\* was before ("re-enable user if was expired/suspended").  No command that could
\* interfere was under way, no error was swallowed.
ActiveSyncedEnabled ==
    \A s \in Subscriptions, c \in Commands :
        /\ is_active(s) /\ synced[s] /\ s \notin misreported \cup ignored
        /\ Latest(s, c) /\ command[c].amid = {}
        => user[s] = "enabled"
=============================================================================
