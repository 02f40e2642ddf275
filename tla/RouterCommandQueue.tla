------------------------- MODULE RouterCommandQueue -------------------------
(***************************************************************************)
(* The command queue of one router and the polling agent that drains it.   *)
(*                                                                         *)
(* The cloud cannot reach a router behind NAT, so every change to a router *)
(* is a row of router_commands.  The agent script on the router polls the  *)
(* backend, is handed a batch of pending rows, executes the batch in order *)
(* and posts one report per command.  A Celery beat task expires old rows  *)
(* and resets rows whose report never came.                                *)
(*                                                                         *)
(* No handler locks a row.  A poll is two statements (select, then update  *)
(* and commit), a report is two (load, then the ORM's update and commit),  *)
(* and the cleanup task is two transactions, so each of them is two        *)
(* actions here and everything may happen in between.  Runs is the set of  *)
(* agent executions that can overlap: one when every execution ends before *)
(* the scheduler's next tick, more when it does not.                       *)
(***************************************************************************)
EXTENDS Integers, Sequences, Functions

CONSTANTS
    Commands,     \* ids a row of router_commands can have
    Runs,         \* concurrently live executions of the agent script
    Priorities,   \* values of the priority column (1 is the most urgent)
    MaxRetries,   \* RouterCommand.max_retries
    MaxPerPoll,   \* settings.agent_max_commands_per_poll
    Expiry,       \* settings.agent_command_expiry_hours, in clock units
    Stale,        \* stale_threshold_minutes, in clock units
    MaxTime       \* bound on the clock

ASSUME QueueAssumption ==
    /\ Priorities \subseteq Nat
    /\ MaxRetries \in Nat \ {0}
    /\ MaxPerPoll \in Nat \ {0}
    /\ Expiry \in Nat
    /\ Stale \in Nat
    /\ MaxTime \in Nat

VARIABLES
    now,          \* datetime.utcnow()
    status,       \* the columns of router_commands, by command id;
    priority,     \*   status "none": there is no such row (yet)
    created_at,
    sent_at,
    retry_count,
    pc,           \* where each agent run is
    batch,        \* what is left of the batch the run was handed
    outcome,      \* the result of the command the run has just executed
    loaded,       \* the row as its report handler has loaded it
    cleaner,      \* where the cleanup task is
    executed,     \* history: the commands some run has executed with success
    shared        \* history: the commands two runs have held at the same time

rowVars   == <<status, priority, created_at, sent_at, retry_count>>
agentVars == <<pc, batch, outcome, loaded>>
vars      == <<now, rowVars, agentVars, cleaner, executed, shared>>

NULL == -1        \* SQL NULL in a time column

CommandStatus == {"pending", "sent", "success", "failed", "expired"}
Open          == {"pending", "sent"}
Outcomes      == {"success", "failed"}
Row           == [status      : CommandStatus \cup {"none"},
                  sent_at     : Nat \cup {NULL},
                  retry_count : Nat]

TypeOK ==
    /\ now \in 0 .. MaxTime
    /\ status \in [Commands -> CommandStatus \cup {"none"}]
    /\ priority \in [Commands -> Priorities \cup {0}]
    /\ created_at \in [Commands -> Nat]
    /\ sent_at \in [Commands -> Nat \cup {NULL}]
    /\ retry_count \in [Commands -> Nat]
    /\ pc \in [Runs -> {"idle", "selected", "executing", "executed", "loaded"}]
    /\ batch \in [Runs -> Seq(Commands)]
    /\ outcome \in [Runs -> Outcomes]
    /\ loaded \in [Runs -> Row]
    /\ cleaner \in {"idle", "reset"}
    /\ executed \subseteq Commands
    /\ shared \subseteq Commands
    \* a run that is past its poll has a command in hand
    /\ \A r \in Runs : pc[r] # "idle" => batch[r] # << >>

NoRow == [status |-> "none", sent_at |-> NULL, retry_count |-> 0]

Init ==
    /\ now = 0
    /\ status = [c \in Commands |-> "none"]
    /\ priority = [c \in Commands |-> 0]
    /\ created_at = [c \in Commands |-> 0]
    /\ sent_at = [c \in Commands |-> NULL]
    /\ retry_count = [c \in Commands |-> 0]
    /\ pc = [r \in Runs |-> "idle"]
    /\ batch = [r \in Runs |-> << >>]
    /\ outcome = [r \in Runs |-> "failed"]
    /\ loaded = [r \in Runs |-> NoRow]
    /\ cleaner = "idle"
    /\ executed = {}
    /\ shared = {}

-----------------------------------------------------------------------------
(***************************************************************************)
(* Queueing.                                                               *)
(***************************************************************************)

expires_at(c) == created_at[c] + Expiry

\* queue_command and its caller's commit.  The bound on the clock leaves every
\* row the time to expire.
queue_command(c, p) ==
    /\ status[c] = "none"
    /\ now + Expiry < MaxTime
    /\ status' = [status EXCEPT ![c] = "pending"]
    /\ priority' = [priority EXCEPT ![c] = p]
    /\ created_at' = [created_at EXCEPT ![c] = now]
    /\ UNCHANGED <<now, sent_at, retry_count, agentVars, cleaner, executed, shared>>

-----------------------------------------------------------------------------
(***************************************************************************)
(* Polling.                                                                *)
(***************************************************************************)

\* The WHERE clause of get_pending_commands.
Pollable == {c \in Commands : status[c] = "pending" /\ expires_at(c) > now}

\* Its ORDER BY clause; rows that tie come in any order.
OrderedBefore(c, d) ==
    \/ priority[c] < priority[d]
    \/ priority[c] = priority[d] /\ created_at[c] < created_at[d]

\* What the select may return: the first MaxPerPoll pollable rows.
get_pending_commands(s) ==
    /\ IsInjective(s)
    /\ Range(s) \subseteq Pollable
    /\ Len(s) = MaxPerPoll \/ Range(s) = Pollable
    /\ \A i, j \in DOMAIN s : i < j => ~ OrderedBefore(s[j], s[i])
    /\ \A c \in Pollable \ Range(s), i \in DOMAIN s : ~ OrderedBefore(c, s[i])

Batches == UNION {[1 .. n -> Commands] : n \in 1 .. MaxPerPoll}

\* The commands that are still in the hands of other runs.
HeldByOthers(r) == UNION {Range(batch[q]) : q \in Runs \ {r}}

\* handle_poll up to the select.  A poll that finds nothing changes no row.
PollSelect(r) ==
    /\ pc[r] = "idle"
    /\ \E s \in Batches :
          /\ get_pending_commands(s)
          /\ batch' = [batch EXCEPT ![r] = s]
          /\ shared' = shared \cup (Range(s) \cap HeldByOthers(r))
    /\ pc' = [pc EXCEPT ![r] = "selected"]
    /\ UNCHANGED <<now, rowVars, outcome, loaded, cleaner, executed>>

\* mark_commands_sent: an UPDATE by id that does not look at the status.
mark_commands_sent(ids) ==
    /\ status' = [c \in Commands |-> IF c \in ids THEN "sent" ELSE status[c]]
    /\ sent_at' = [c \in Commands |-> IF c \in ids THEN now ELSE sent_at[c]]

\* The rest of handle_poll: mark, commit, answer.  The answer may be lost on
\* its way to the router, which then has nothing to execute.
PollCommit(r, answered) ==
    /\ pc[r] = "selected"
    /\ mark_commands_sent(Range(batch[r]))
    /\ pc' = [pc EXCEPT ![r] = IF answered THEN "executing" ELSE "idle"]
    /\ batch' = [batch EXCEPT ![r] = IF answered THEN @ ELSE << >>]
    /\ UNCHANGED <<now, priority, created_at, retry_count, outcome, loaded,
                   cleaner, executed, shared>>

\* The handler dies between its select and its commit.
PollAbort(r) ==
    /\ pc[r] = "selected"
    /\ pc' = [pc EXCEPT ![r] = "idle"]
    /\ batch' = [batch EXCEPT ![r] = << >>]
    /\ UNCHANGED <<now, rowVars, outcome, loaded, cleaner, executed, shared>>

-----------------------------------------------------------------------------
(***************************************************************************)
(* The agent script and its reports.                                       *)
(***************************************************************************)

\* The run goes on to the next command of its batch, or ends.  Its locals, and
\* those of its report handler, are gone.
NextCommand(r) ==
    /\ batch' = [batch EXCEPT ![r] = Tail(@)]
    /\ pc' = [pc EXCEPT ![r] = IF Len(batch[r]) = 1 THEN "idle" ELSE "executing"]
    /\ outcome' = [outcome EXCEPT ![r] = "failed"]
    /\ loaded' = [loaded EXCEPT ![r] = NoRow]

\* The script executes the command at the head of its batch.
Execute(r, o) ==
    /\ pc[r] = "executing"
    /\ outcome' = [outcome EXCEPT ![r] = o]
    /\ executed' = IF o = "success" THEN executed \cup {Head(batch[r])}
                                    ELSE executed
    /\ pc' = [pc EXCEPT ![r] = "executed"]
    /\ UNCHANGED <<now, rowVars, batch, loaded, cleaner, shared>>

\* process_command_result loads the row the report names.
ReportLoad(r) ==
    /\ pc[r] = "executed"
    /\ LET c == Head(batch[r]) IN
          loaded' = [loaded EXCEPT ![r] = [status      |-> status[c],
                                           sent_at     |-> sent_at[c],
                                           retry_count |-> retry_count[c]]]
    /\ pc' = [pc EXCEPT ![r] = "loaded"]
    /\ UNCHANGED <<now, rowVars, batch, outcome, cleaner, executed, shared>>

\* The ORM writes a column only if its value differs from the loaded one.
Flush(current, old, new) == IF new = old THEN current ELSE new

\* Mutation: > instead of >= in the comparison with max_retries.
process_command_resultOneMore(row, result) ==
    IF result = "success"
    THEN [row EXCEPT !.status = "success"]
    ELSE IF row.retry_count + 1 > MaxRetries
         THEN [status |-> "failed", sent_at |-> row.sent_at,
               retry_count |-> row.retry_count + 1]
         ELSE [status |-> "pending", sent_at |-> NULL,
               retry_count |-> row.retry_count + 1]

\* Mutation: a result is taken for a success whatever it says.
process_command_resultDefaultsToSuccess(row, result) ==
    [row EXCEPT !.status = "success"]

\* The row process_command_result leaves in memory for the loaded row and the
\* reported result.
process_command_result(row, result) ==
    IF result = "success"
    THEN [row EXCEPT !.status = "success"]
    ELSE IF row.retry_count + 1 >= MaxRetries
         THEN [status |-> "failed", sent_at |-> row.sent_at,
               retry_count |-> row.retry_count + 1]
         ELSE [status |-> "pending", sent_at |-> NULL,
               retry_count |-> row.retry_count + 1]

\* handle_report's flush and commit; the script then turns to the next line.
ReportCommit(r) ==
    /\ pc[r] = "loaded"
    /\ LET c   == Head(batch[r])
           old == loaded[r]
           new == process_command_result(old, outcome[r])
       IN  /\ status' = [status EXCEPT ![c] = Flush(@, old.status, new.status)]
           /\ sent_at' = [sent_at EXCEPT ![c] = Flush(@, old.sent_at, new.sent_at)]
           /\ retry_count' = [retry_count EXCEPT
                                ![c] = Flush(@, old.retry_count, new.retry_count)]
    /\ NextCommand(r)
    /\ UNCHANGED <<now, priority, created_at, cleaner, executed, shared>>

\* The report does not arrive, or its handler dies before the commit.  The
\* script ignores the error (on-error={}) and never reports this result again.
ReportLost(r) ==
    /\ pc[r] \in {"executed", "loaded"}
    /\ NextCommand(r)
    /\ UNCHANGED <<now, rowVars, cleaner, executed, shared>>

\* The router reboots, or the script stops at a line it cannot parse: the rest
\* of the batch is forgotten.
Reboot(r) ==
    /\ pc[r] \in {"executing", "executed"}
    /\ pc' = [pc EXCEPT ![r] = "idle"]
    /\ batch' = [batch EXCEPT ![r] = << >>]
    /\ outcome' = [outcome EXCEPT ![r] = "failed"]
    /\ UNCHANGED <<now, rowVars, loaded, cleaner, executed, shared>>

-----------------------------------------------------------------------------
(***************************************************************************)
(* The beat task cleanup_expired_commands: two transactions.               *)
(***************************************************************************)

\* Mutation: only pending rows are expired.
ExpirablePendingOnly(c) == status[c] = "pending" /\ expires_at(c) < now

Expirable(c) == status[c] \in Open /\ expires_at(c) < now

cleanup_expired_commands ==
    /\ cleaner = "idle"
    /\ status' = [c \in Commands |->
                    IF Expirable(c) THEN "expired" ELSE status[c]]
    /\ cleaner' = "reset"
    /\ UNCHANGED <<now, priority, created_at, sent_at, retry_count, agentVars,
                   executed, shared>>

\* Mutation: the stale reset does not look at the status.
StaleSentAnyStatus(c) ==
    /\ status[c] # "none"
    /\ sent_at[c] # NULL
    /\ sent_at[c] + Stale < now
    /\ retry_count[c] < MaxRetries

StaleSent(c) ==
    /\ status[c] = "sent"
    /\ sent_at[c] # NULL
    /\ sent_at[c] + Stale < now
    /\ retry_count[c] < MaxRetries

reset_stale_sent_commands ==
    /\ cleaner = "reset"
    /\ status' = [c \in Commands |->
                    IF StaleSent(c) THEN "pending" ELSE status[c]]
    /\ sent_at' = [c \in Commands |->
                    IF StaleSent(c) THEN NULL ELSE sent_at[c]]
    /\ cleaner' = "idle"
    /\ UNCHANGED <<now, priority, created_at, retry_count, agentVars, executed, shared>>

\* The task fails between its transactions; its retry starts from the top.
CleanupFails ==
    /\ cleaner = "reset"
    /\ cleaner' = "idle"
    /\ UNCHANGED <<now, rowVars, agentVars, executed, shared>>

Tick ==
    /\ now < MaxTime
    /\ now' = now + 1
    /\ UNCHANGED <<rowVars, agentVars, cleaner, executed, shared>>

-----------------------------------------------------------------------------
Cleanup == cleanup_expired_commands \/ reset_stale_sent_commands \/ CleanupFails

\* What a run does once it has been handed a batch.
RunStep(r) ==
    \/ \E answered \in BOOLEAN : PollCommit(r, answered)
    \/ PollAbort(r)
    \/ \E o \in Outcomes : Execute(r, o)
    \/ ReportLoad(r)
    \/ ReportCommit(r)
    \/ ReportLost(r)
    \/ Reboot(r)

Next ==
    \/ \E c \in Commands, p \in Priorities : queue_command(c, p)
    \/ \E r \in Runs : PollSelect(r) \/ RunStep(r)
    \/ Cleanup
    \/ Tick

Spec == Init /\ [][Next]_vars

\* Time passes, beat keeps starting the cleanup task, and a run that was handed
\* a batch comes to its end, whatever the result.  Nothing forces a router to
\* poll, a command to succeed or a report to arrive.
Fairness ==
    /\ WF_vars(Tick)
    /\ WF_vars(cleanup_expired_commands)
    /\ WF_vars(reset_stale_sent_commands \/ CleanupFails)
    /\ \A r \in Runs : WF_vars(RunStep(r))

FairSpec == Spec /\ Fairness

-----------------------------------------------------------------------------
(***************************************************************************)
(* Properties.                                                             *)
(***************************************************************************)

\* A row says "success" only for a command that a run really executed, however
\* polls, stale resets, late reports and cleanups are interleaved.
SuccessMeansExecuted ==
    \A c \in Commands : status[c] = "success" => c \in executed

\* When agent runs do not overlap, the retry counter bounds the attempts: an
\* open row always has an attempt left, and a row is failed exactly when its
\* attempts are used up (process_command_result, reset_stale_sent_commands).
RetryBudget ==
    \A c \in Commands :
        /\ status[c] \in Open => retry_count[c] < MaxRetries
        /\ status[c] = "failed" <=> retry_count[c] = MaxRetries

\* When agent runs do not overlap, a recorded success or permanent failure is
\* never revised: no poll, report, reset or cleanup touches the row again.
ResultIsFinal ==
    [][\A c \in Commands : status[c] \in {"success", "failed"} =>
           status'[c] = status[c] /\ retry_count'[c] = retry_count[c]]_vars

\* However many runs overlap, a recorded success or permanent failure is revised
\* only if two runs have held the command at the same time: neither the UPDATE
\* by id of a poll, nor the report of a command that was reset meanwhile, nor
\* the cleanup reaches a row that only one run at a time has worked on.
OnlySharedIsRevised ==
    [][\A c \in Commands \ shared' : status[c] \in {"success", "failed"} =>
           status'[c] = status[c] /\ retry_count'[c] = retry_count[c]]_vars

\* What is on record about a command, as its caller understands it.
Verdict == [c \in Commands |-> IF status[c] \in Open THEN "open" ELSE status[c]]

Delivery == INSTANCE CommandDelivery
                WITH verdict <- Verdict, tries <- retry_count, done <- executed

\* When agent runs do not overlap, the queue with its polls, stale resets, lost
\* answers, late reports and cleanups is an implementation of CommandDelivery:
\* one verdict per command, earned, final, and within the retry budget.
DeliversAsPromised == Delivery!Spec

\* No row stays open for ever: whatever is lost, retried, reset or resent, every
\* command ends as success, failed or expired and stays there.
EventuallySettled ==
    <>[](\A c \in Commands : status[c] \notin Open)

=============================================================================
