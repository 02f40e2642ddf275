------------------------- MODULE RouterProvisioning -------------------------
(***************************************************************************)
(* Provisioning sessions of one router: how they are created, started,     *)
(* carried out over the router's API or by a script that the polling agent *)
(* fetches, reported complete by the router, cancelled, retried, timed out *)
(* and rolled back.                                                        *)
(*                                                                         *)
(* Every request, background task and Celery task works on its own copy of *)
(* the session row, loaded once and not read again: status is written from *)
(* that copy, whatever has become of the row.  Step logs and progress are  *)
(* left out, as nothing decides by them.                                   *)
(***************************************************************************)
EXTENDS Naturals, FiniteSets

CONSTANTS
    Sessions,    \* rows of provisioning_sessions, all of one router
    Jobs,        \* requests and tasks that can be under way at once
    Commands,    \* the commands of a session, in order: 1 .. n
    Critical,    \* those whose failure ends the session
    Reversible,  \* those with a rollback command
    Verified,    \* those whose effect the verification looks for
    MaxRetries,  \* ProvisioningCommand.max_retries
    MaxOps,      \* bound on the requests that are made
    MaxEvents    \* bound on crashes, router failures and router reports

ASSUME ProvisioningAssumption ==
    /\ IsFiniteSet(Commands) /\ Commands # {} /\ Commands = 1 .. Cardinality(Commands)
    /\ Critical \subseteq Commands /\ Reversible \subseteq Commands
    /\ Verified \subseteq Critical
    /\ {MaxRetries, MaxOps, MaxEvents} \subseteq Nat

VARIABLES
    agent,     \* router.agent_installed and router.agent_token
    nat,       \* the router's address is private
    marked,    \* router.provisioning_status = "provisioned"
    conf,      \* commands whose effect is on the router
    checkin,   \* ping_monitor.pending_checkins has an entry for the router
    status,    \* ProvisioningSession.status; "none", "gone": no such row
    late,      \* sessions past timeout_at
    rbReq,     \* rollback_required
    rbDone,    \* rollback_completed
    recorded,  \* ProvisioningCommand rows with success = True
    script,    \* sessions whose fetch_import is queued, and whose script ran
    job,       \* requests and tasks under way
    mon,       \* the run of monitor_provisioning_sessions under way
    rbq,       \* rollback_provisioning_session tasks that wait for a worker
    ops, faults, reports,
    overlap,   \* how the router came to have two active sessions, if it did
    dirty,     \* sessions whose rollback was incomplete or built over
    missed,    \* timed-out sessions whose rollback was given up
    heard      \* sessions the router has reported on; NoSession: on none

routerVars == <<agent, nat, marked, conf, checkin>>
rowVars    == <<status, late, rbReq, rbDone, recorded>>
counters   == <<ops, faults, reports>>
auxVars    == <<overlap, dirty, missed, heard>>
vars == <<routerVars, rowVars, script, job, mon, rbq, counters, auxVars>>

ActiveStatus == {"pending", "in_progress"}
Final        == {"completed", "cancelled", "timeout"}
NoSession    == "nobody"
Idle         == [pc |-> "idle", s |-> NoSession, mem |-> "none", cmd |-> 0,
                 try |-> 0, flag |-> FALSE, todo |-> {}]
NoRun        == [pc |-> "idle", of |-> {}]
Working      == {"connect", "run", "verify"}

Exists(s) == status[s] \notin {"none", "gone"}
Active    == {s \in Sessions : status[s] \in ActiveStatus}

ProvisioningTypeOK ==
    /\ status \in [Sessions -> ActiveStatus \cup Final \cup {"failed", "none", "gone"}]
    /\ conf \subseteq Commands
    /\ recorded \in [Sessions -> SUBSET Commands]
    /\ {late, rbReq, rbDone, rbq, dirty, missed} \subseteq SUBSET Sessions
    \* a job that works on the router was started on a row of its own
    /\ \A j \in Jobs : job[j].pc \in Working => status[job[j].s] # "none"
    /\ \A j \in Jobs : job[j].pc = "run" => job[j].cmd \in Commands /\ job[j].try \in 0 .. MaxRetries
    /\ rbDone \subseteq {s \in Sessions : status[s] # "none"}

\* A session (whichever, they are alike) may have failed before it reached the
\* router.
Init ==
    /\ agent \in BOOLEAN /\ nat \in BOOLEAN
    /\ marked = FALSE /\ conf = {} /\ checkin = FALSE
    /\ \E failed \in SUBSET Sessions :
          /\ failed \subseteq {CHOOSE s \in Sessions : TRUE}
          /\ status = [s \in Sessions |-> IF s \in failed THEN "failed" ELSE "none"]
          /\ rbReq = failed
    /\ late = {} /\ rbDone = {}
    /\ recorded = [s \in Sessions |-> {}]
    /\ script = [s \in Sessions |-> "none"]
    /\ job = [j \in Jobs |-> Idle]
    /\ mon = NoRun /\ rbq = {}
    /\ ops = 0 /\ faults = 0 /\ reports = 0
    /\ overlap = {} /\ dirty = {} /\ missed = {} /\ heard = {}

\* Bound: something out of the ordinary happens; commands that fail again and
\* again count once.  Once two sessions are active, no more happens to them.
MayFail == faults + reports < MaxEvents /\ overlap = {}
MayAsk  == ops < MaxOps /\ overlap = {}

\* Any idle job will do for a new request or task, and any unused row for a new
\* session: they are alike.
Free   == CHOOSE j \in Jobs : job[j] = Idle
Unused == CHOOSE s \in Sessions : status[s] = "none"

\* A request comes in, a task goes on, a task is over.
Request(j, r) ==
    /\ job[j] = Idle /\ j = Free /\ MayAsk
    /\ ops' = ops + 1 /\ job' = [job EXCEPT ![j] = r]
    /\ UNCHANGED <<faults, reports>>
Goto(j, pc) == job' = [job EXCEPT ![j].pc = pc] /\ UNCHANGED counters
End(j)      == job' = [job EXCEPT ![j] = Idle] /\ UNCHANGED counters

\* A commit of the copy: a row that has been deleted fails the flush.
Write(s, to) == status' = IF Exists(s) THEN [status EXCEPT ![s] = to] ELSE status

\* The sessions whose rollback has begun.
Undone == rbDone \cup {job[j].s : j \in {k \in Jobs : job[k].pc = "undo"}}

-----------------------------------------------------------------------------
(***************************************************************************)
(* Creating and starting.                                                  *)
(***************************************************************************)

\* Mutation: a session that is only pending does not count as active.
GetActiveInProgress == {s \in Sessions : status[s] = "in_progress"}

_get_active_session == Active

\* create_provisioning_session up to the insert, for POST /sessions (only) or
\* POST /workflow.  More than one active session is refused as well.
CreateCheck(j, only) ==
    /\ _get_active_session = {}
    /\ Request(j, [Idle EXCEPT !.pc = "create", !.flag = only,
                               !.mem = IF Active = {} THEN "alone" ELSE "none"])
    /\ UNCHANGED <<routerVars, rowVars, script, mon, rbq, auxVars>>

create_provisioning_session(j, s) ==
    /\ job[j].pc = "create" /\ status[s] = "none" /\ s = Unused
    /\ status' = [status EXCEPT ![s] = "pending"]
    /\ job' = [job EXCEPT ![j] = IF job[j].flag THEN Idle ELSE [Idle EXCEPT !.pc = "start", !.s = s]]
    /\ overlap' = IF job[j].mem = "alone" /\ Active # {} THEN overlap \cup {"created"} ELSE overlap
    /\ UNCHANGED <<routerVars, late, rbReq, rbDone, recorded, script, mon, rbq,
                   counters, dirty, missed, heard>>

\* retry_provisioning reads the session, resets it and goes on to start it.
RetryLoad(j, s) ==
    /\ status[s] = "failed"
    /\ Request(j, [Idle EXCEPT !.pc = "retry", !.s = s, !.mem = "failed"])
    /\ UNCHANGED <<routerVars, rowVars, script, mon, rbq, auxVars>>

retry_provisioning(j) ==
    LET s == job[j].s IN
    /\ job[j].pc = "retry"
    /\ Write(s, "pending")
    /\ rbReq' = rbReq \ {s} /\ rbDone' = rbDone \ {s}
    /\ IF Exists(s) THEN Goto(j, "start") ELSE End(j)
    /\ overlap' = IF Active \ {s} # {} \/ \E k \in Jobs \ {j} : job[k].s = s
                  THEN overlap \cup {"retried"} ELSE overlap
    /\ UNCHANGED <<routerVars, late, recorded, script, mon, rbq, dirty, missed, heard>>

\* start_provisioning reads the session, which must be pending.
StartLoad(j) ==
    /\ job[j].pc = "start"
    /\ IF status[job[j].s] = "pending"
       THEN job' = [job EXCEPT ![j].pc = "begin", ![j].mem = "pending"] /\ UNCHANGED counters
       ELSE End(j)
    /\ UNCHANGED <<routerVars, rowVars, script, mon, rbq, auxVars>>

StartCommit(j) ==
    /\ job[j].pc = "begin"
    /\ Write(job[j].s, "in_progress")
    /\ IF Exists(job[j].s)
       THEN job' = [job EXCEPT ![j].pc = "route", ![j].mem = "in_progress"] /\ UNCHANGED counters
       ELSE End(j)
    /\ overlap' = IF status[job[j].s] # "pending" THEN overlap \cup {"revived"} ELSE overlap
    /\ UNCHANGED <<routerVars, late, rbReq, rbDone, recorded, script, mon, rbq, dirty, missed, heard>>

\* The rest of start_provisioning decides how the session is carried out.
\* Through the agent, which will fetch a script:
ByAgent(j) == agent /\ ~ job[j].flag

StartByAgent(j) ==
    /\ job[j].pc = "route" /\ ByAgent(j)
    /\ script' = [script EXCEPT ![job[j].s] = "queued"]
    /\ End(j)
    /\ UNCHANGED <<routerVars, rowVars, mon, rbq, auxVars>>

\* unless that raises, before or after the command is queued: then as if there
\* were no agent.
AgentPathFails(j, queued) ==
    /\ job[j].pc = "route" /\ ByAgent(j) /\ MayFail
    /\ script' = IF queued THEN [script EXCEPT ![job[j].s] = "queued"] ELSE script
    /\ job' = [job EXCEPT ![j].flag = TRUE]
    /\ faults' = faults + 1
    /\ UNCHANGED <<routerVars, rowVars, mon, rbq, ops, reports, auxVars>>

\* Not at all, as the router has reported before:
StartByCheckin(j) ==
    /\ job[j].pc = "route" /\ ~ ByAgent(j) /\ checkin
    /\ checkin' = FALSE
    /\ Write(job[j].s, "completed")
    /\ heard' = heard \cup {job[j].s}
    /\ End(j)
    /\ UNCHANGED <<agent, nat, marked, conf, late, rbReq, rbDone, recorded, script,
                   mon, rbq, overlap, dirty, missed>>

\* Not at all, as nobody can reach the router, whose address is private:
StartUnreachable(j) ==
    /\ job[j].pc = "route" /\ ~ ByAgent(j) /\ ~ checkin /\ nat
    /\ Write(job[j].s, "failed")
    /\ End(j)
    /\ UNCHANGED <<routerVars, late, rbReq, rbDone, recorded, script, mon, rbq, auxVars>>

\* Over the router's API, in a background task:
StartDirect(j) ==
    /\ job[j].pc = "route" /\ ~ ByAgent(j) /\ ~ checkin /\ ~ nat
    /\ Goto(j, "connect")
    /\ UNCHANGED <<routerVars, rowVars, script, mon, rbq, auxVars>>

-----------------------------------------------------------------------------
(***************************************************************************)
(* The workflow over the API.                                              *)
(***************************************************************************)

\* _handle_step_error and _handle_provisioning_error: the session fails and
\* asks for a rollback.  The task that is to do it (execute_rollback) calls
\* router_service.get_api, which there is not, and ends there.
StepFails(j) ==
    LET s == job[j].s IN
    /\ Write(s, "failed")
    /\ rbReq' = IF Exists(s) THEN rbReq \cup {s} ELSE rbReq
    /\ job' = [job EXCEPT ![j] = Idle]

\* A connection is refused, a call fails, a verification does not find its
\* object: anything in a step that raises.
StepRaises(j) ==
    /\ job[j].pc \in Working /\ MayFail
    /\ StepFails(j)
    /\ faults' = faults + 1
    /\ UNCHANGED <<routerVars, late, rbDone, recorded, script, mon, rbq, ops, reports, auxVars>>

\* The connection step, and the cleanup that opens the configuration step;
\* cleanup_existing_provisioning swallows what fails.
cleanup_existing_provisioning(j, ok) ==
    /\ job[j].pc = "connect"
    /\ ok \/ MayFail
    /\ conf' = IF ok THEN {} ELSE conf
    /\ faults' = IF ok THEN faults ELSE faults + 1
    /\ job' = [job EXCEPT ![j].pc = "run", ![j].cmd = 1, ![j].try = 0]
    /\ UNCHANGED <<agent, nat, marked, checkin, rowVars, script, mon, rbq, ops, reports, auxVars>>

NextCommand(r) ==
    IF r.cmd + 1 \in Commands THEN [r EXCEPT !.cmd = @ + 1, !.try = 0]
                              ELSE [r EXCEPT !.pc = "verify"]

\* execute_command_with_retry: the command succeeds; one whose object is on
\* the router already ("already exists") counts as a success.
CommandSucceeds(j) ==
    LET r == job[j] IN
    /\ r.pc = "run"
    /\ conf' = conf \cup {r.cmd}
    /\ recorded' = [recorded EXCEPT ![r.s] = @ \cup {r.cmd}]
    /\ dirty' = dirty \cup Undone
    /\ job' = [job EXCEPT ![j] = NextCommand(r)]
    /\ UNCHANGED <<agent, nat, marked, checkin, status, late, rbReq, rbDone, script,
                   mon, rbq, counters, overlap, missed, heard>>

\* Mutation: the session goes on after a critical command has failed.
GivesUpNever(c) == FALSE

GivesUp(c) == c \in Critical

\* It raises, perhaps after it took effect: tried again, then given up.
CommandFails(j, effect) ==
    LET r == job[j] IN
    /\ r.pc = "run" /\ r.cmd \notin conf /\ (r.try > 0 \/ MayFail)
    /\ conf' = IF effect THEN conf \cup {r.cmd} ELSE conf
    /\ dirty' = IF effect THEN dirty \cup Undone ELSE dirty
    /\ IF r.try < MaxRetries
       THEN job' = [job EXCEPT ![j].try = @ + 1] /\ UNCHANGED <<status, rbReq>>
       ELSE IF GivesUp(r.cmd) THEN StepFails(j)
       ELSE job' = [job EXCEPT ![j] = NextCommand(r)] /\ UNCHANGED <<status, rbReq>>
    /\ faults' = IF r.try > 0 THEN faults ELSE faults + 1
    /\ UNCHANGED <<agent, nat, marked, checkin, late, rbDone, recorded, script,
                   mon, rbq, ops, reports, overlap, missed, heard>>

\* The verification, and what follows the last step.
Verify(j) ==
    /\ job[j].pc = "verify"
    /\ IF Verified \subseteq conf
       THEN /\ Write(job[j].s, "completed")
            /\ IF Exists(job[j].s) THEN Goto(j, "mark") ELSE End(j)
            /\ UNCHANGED rbReq
       ELSE StepFails(j) /\ UNCHANGED counters
    /\ UNCHANGED <<routerVars, late, rbDone, recorded, script, mon, rbq, auxVars>>

\* mark_provisioning_complete, in a transaction of its own.
mark_provisioning_complete(j) ==
    /\ job[j].pc = "mark"
    /\ marked' = TRUE
    /\ End(j)
    /\ UNCHANGED <<agent, nat, conf, checkin, rowVars, script, mon, rbq, auxVars>>

-----------------------------------------------------------------------------
(***************************************************************************)
(* What the router does of its own accord.                                 *)
(***************************************************************************)

\* The agent runs the script: a critical command that fails ends it.
RunScript(s, done) ==
    /\ script[s] = "queued"
    /\ Critical \subseteq done \/ MayFail
    /\ conf' = conf \cup done
    /\ dirty' = dirty \cup Undone
    /\ script' = [script EXCEPT ![s] = "done"]
    /\ faults' = IF Critical \subseteq done THEN faults ELSE faults + 1
    /\ UNCHANGED <<agent, nat, marked, checkin, rowVars, job, mon, rbq, ops, reports,
                   overlap, missed, heard>>

\* provisioning_script_complete: the session becomes what the report says,
\* whatever its status was and whether the script ran or not; on "completed" the
\* router is marked, in a second transaction.
provisioning_script_complete(j, s, word) ==
    /\ Exists(s) /\ job[j] = Idle /\ j = Free /\ MayFail
    /\ Write(s, IF word = "failed" THEN "failed" ELSE "completed")
    /\ job' = [job EXCEPT ![j] = IF word = "completed" THEN [Idle EXCEPT !.pc = "mark", !.s = s]
                                                        ELSE Idle]
    /\ heard' = heard \cup {s}
    /\ reports' = reports + 1
    /\ UNCHANGED <<routerVars, late, rbReq, rbDone, recorded, script, mon, rbq,
                   ops, faults, overlap, dirty, missed>>

\* provisioning_notify, the end of the bootstrap script, names a session, or the
\* active one of the router is found.  First store_router_credentials marks the
\* router provisioned (or its error is swallowed), and commits.
store_router_credentials(j, s, stored) ==
    /\ Exists(s) /\ job[j] = Idle /\ j = Free /\ MayFail
    /\ marked' = (marked \/ stored)
    /\ job' = [job EXCEPT ![j] = [Idle EXCEPT !.pc = "notify", !.s = s, !.mem = status[s]]]
    /\ heard' = heard \cup {s}
    /\ reports' = reports + 1
    /\ UNCHANGED <<agent, nat, conf, checkin, rowVars, script, mon, rbq, ops, faults,
                   overlap, dirty, missed>>

\* Then the session is completed; a copy that says so already is not written.
provisioning_notify(j) ==
    /\ job[j].pc = "notify"
    /\ IF job[j].mem = "completed" THEN UNCHANGED status ELSE Write(job[j].s, "completed")
    /\ End(j)
    /\ UNCHANGED <<routerVars, late, rbReq, rbDone, recorded, script, mon, rbq, auxVars>>

\* No session is found (none is looked for if the router is not): the router is
\* marked if it is known, and the report is kept if it named no session.
register_device_checkin(stored, kept) ==
    /\ MayFail /\ ~ checkin
    /\ stored \/ kept
    /\ stored => Active = {}
    /\ marked' = (marked \/ stored)
    /\ checkin' = kept
    /\ heard' = heard \cup {NoSession}
    /\ reports' = reports + 1
    /\ UNCHANGED <<agent, nat, conf, rowVars, script, job, mon, rbq, ops, faults,
                   overlap, dirty, missed>>

-----------------------------------------------------------------------------
(***************************************************************************)
(* Cancelling, timing out, rolling back.                                   *)
(***************************************************************************)

\* Mutation: whatever its status, a session can be cancelled.
CancelLoadAny(j, s, undo) ==
    /\ Exists(s)
    /\ Request(j, [Idle EXCEPT !.pc = "cancel", !.s = s, !.mem = status[s], !.flag = undo])
    /\ UNCHANGED <<routerVars, rowVars, script, mon, rbq, auxVars>>

\* cancel_provisioning, or cancel_active_sessions_for_router, which does not
\* roll back, reads an active session.
CancelLoad(j, s, undo) ==
    /\ s \in Active
    /\ Request(j, [Idle EXCEPT !.pc = "cancel", !.s = s, !.mem = status[s], !.flag = undo])
    /\ UNCHANGED <<routerVars, rowVars, script, mon, rbq, auxVars>>

cancel_provisioning(j) ==
    /\ job[j].pc = "cancel"
    /\ Write(job[j].s, "cancelled")
    /\ IF job[j].flag /\ Exists(job[j].s) THEN Goto(j, "rollback") ELSE End(j)
    /\ UNCHANGED <<routerVars, late, rbReq, rbDone, recorded, script, mon, rbq, auxVars>>

\* Mutation: it looks for sessions that were never started.
MonitorLoadPending ==
    /\ mon = NoRun
    /\ \E of \in (SUBSET Sessions) \ {{}} :
          /\ of = {s \in Sessions : status[s] = "pending" /\ s \in late}
          /\ mon' = [pc |-> "send", of |-> of]
    /\ UNCHANGED <<routerVars, rowVars, script, job, rbq, counters, auxVars>>

\* monitor_provisioning_sessions: it reads the sessions that are past their
\* time, sends off their rollbacks, and commits.
MonitorLoad ==
    /\ mon = NoRun
    /\ \E of \in (SUBSET Sessions) \ {{}} :
          /\ of = {s \in Sessions : status[s] = "in_progress" /\ s \in late}
          /\ mon' = [pc |-> "send", of |-> of]
    /\ UNCHANGED <<routerVars, rowVars, script, job, rbq, counters, auxVars>>

MonitorSend ==
    /\ mon.pc = "send"
    /\ rbq' = rbq \cup mon.of
    /\ mon' = [mon EXCEPT !.pc = "commit"]
    /\ UNCHANGED <<routerVars, rowVars, script, job, counters, auxVars>>

MonitorCommit ==
    /\ mon.pc = "commit"
    /\ IF \A s \in mon.of : Exists(s)
       THEN /\ status' = [s \in Sessions |-> IF s \in mon.of THEN "timeout" ELSE status[s]]
            /\ rbReq' = rbReq \cup mon.of
       ELSE UNCHANGED <<status, rbReq>>
    /\ mon' = NoRun
    /\ UNCHANGED <<routerVars, late, rbDone, recorded, script, job, rbq, counters, auxVars>>

\* rollback_provisioning_session: skipped if the row does not ask for it, as
\* it does not before the monitor has committed.
RollbackTask(j, s) ==
    /\ s \in rbq /\ job[j] = Idle /\ j = Free
    /\ rbq' = rbq \ {s}
    /\ IF Exists(s) /\ s \in rbReq \ rbDone
       THEN /\ job' = [job EXCEPT ![j] = [Idle EXCEPT !.pc = "rollback", !.s = s]]
            /\ missed' = IF s \in mon.of THEN missed \cup {s} ELSE missed
       ELSE UNCHANGED job /\ missed' = missed \cup {s}
    /\ UNCHANGED <<routerVars, rowVars, script, mon, counters, overlap, dirty, heard>>

\* Mutation: only the critical commands are taken back.
RollbackCommandsCritical(s) == recorded[s] \cap Reversible \cap Critical

RollbackCommands(s) == recorded[s] \cap Reversible

\* _execute_rollback: it reads the commands and connects; that can fail, and
\* then nothing is recorded.
_execute_rollback(j, ok) ==
    LET s == job[j].s IN
    /\ job[j].pc = "rollback"
    /\ ok \/ MayFail
    /\ job' = [job EXCEPT ![j] =
                  IF ok THEN [@ EXCEPT !.pc = "undo", !.todo = RollbackCommands(s)] ELSE Idle]
    /\ faults' = IF ok THEN faults ELSE faults + 1
    /\ missed' = IF ok THEN missed ELSE missed \cup {s}
    /\ UNCHANGED <<routerVars, rowVars, script, mon, rbq, ops, reports, overlap, dirty, heard>>

\* One command, in no order (no command has an execution_order of its own); one
\* that fails is passed over.
Undo(j, c, ok) ==
    LET r == job[j] IN
    /\ r.pc = "undo" /\ c \in r.todo
    /\ ok \/ MayFail
    /\ conf' = IF ok THEN conf \ {c} ELSE conf
    /\ dirty' = IF ok THEN dirty ELSE dirty \cup {r.s}
    /\ faults' = IF ok THEN faults ELSE faults + 1
    /\ job' = [job EXCEPT ![j].todo = @ \ {c}]
    /\ UNCHANGED <<agent, nat, marked, checkin, rowVars, script, mon, rbq, ops, reports,
                   overlap, missed, heard>>

UndoDone(j) ==
    /\ job[j].pc = "undo" /\ job[j].todo = {}
    /\ rbDone' = IF Exists(job[j].s) THEN rbDone \cup {job[j].s} ELSE rbDone
    /\ End(j)
    /\ UNCHANGED <<routerVars, status, late, rbReq, recorded, script, mon, rbq, auxVars>>

\* delete_session and cleanup_old_provisioning_sessions.
delete_session(s) ==
    /\ Exists(s) /\ s \notin Active /\ MayAsk
    /\ status' = [status EXCEPT ![s] = "gone"]
    /\ rbReq' = rbReq \ {s} /\ rbDone' = rbDone \ {s}
    /\ ops' = ops + 1
    /\ UNCHANGED <<routerVars, late, recorded, script, job, mon, rbq, faults, reports, auxVars>>

\* A process dies with the job it was carrying out.
Crash(j) ==
    /\ job[j] # Idle /\ MayFail
    /\ job' = [job EXCEPT ![j] = Idle]
    /\ faults' = faults + 1
    /\ missed' = IF job[j].pc \in {"rollback", "undo"} THEN missed \cup {job[j].s} ELSE missed
    /\ dirty' = IF job[j].pc = "undo" THEN dirty \cup {job[j].s} ELSE dirty
    /\ UNCHANGED <<routerVars, rowVars, script, mon, rbq, ops, reports, overlap, heard>>

\* The time of a session runs out; that matters while it is in progress.
TimePasses(s) ==
    /\ status[s] = "in_progress" /\ s \notin late
    /\ late' = late \cup {s}
    /\ UNCHANGED <<routerVars, status, rbReq, rbDone, recorded, script, job, mon, rbq,
                   counters, auxVars>>

-----------------------------------------------------------------------------
Start(j) ==
    \/ \E only \in BOOLEAN : CreateCheck(j, only)
    \/ \E s \in Sessions : create_provisioning_session(j, s) \/ RetryLoad(j, s)
    \/ retry_provisioning(j) \/ StartLoad(j) \/ StartCommit(j)
    \/ \E queued \in BOOLEAN : AgentPathFails(j, queued)
    \/ StartByAgent(j) \/ StartByCheckin(j) \/ StartUnreachable(j) \/ StartDirect(j)

Workflow(j) ==
    \/ \E ok \in BOOLEAN : cleanup_existing_provisioning(j, ok)
    \/ CommandSucceeds(j)
    \/ \E effect \in BOOLEAN : CommandFails(j, effect)
    \/ Verify(j) \/ mark_provisioning_complete(j) \/ StepRaises(j)

Rollback(j) ==
    \/ \E s \in Sessions, undo \in BOOLEAN : CancelLoad(j, s, undo)
    \/ cancel_provisioning(j)
    \/ \E s \in Sessions : RollbackTask(j, s)
    \/ \E ok \in BOOLEAN : _execute_rollback(j, ok) \/ \E c \in Commands : Undo(j, c, ok)
    \/ UndoDone(j)

RouterReports ==
    \/ \E s \in Sessions : \E done \in SUBSET Commands : RunScript(s, done)
    \/ \E j \in Jobs, s \in Sessions :
          \/ \E word \in {"completed", "failed", "other"} :
                provisioning_script_complete(j, s, word)
          \/ \E stored \in BOOLEAN : store_router_credentials(j, s, stored)
    \/ \E j \in Jobs : provisioning_notify(j)
    \/ \E stored, kept \in BOOLEAN : register_device_checkin(stored, kept)

Monitor == MonitorLoad \/ MonitorSend \/ MonitorCommit

Next ==
    \/ \E j \in Jobs : Start(j) \/ Workflow(j) \/ Rollback(j) \/ Crash(j)
    \/ RouterReports
    \/ Monitor
    \/ \E s \in Sessions : delete_session(s) \/ TimePasses(s)

Spec == Init /\ [][Next]_vars

\* Clocks run, and beat starts the monitor every five minutes.
FairSpec == Spec /\ WF_vars(Monitor) /\ \A s \in Sessions : WF_vars(TimePasses(s))

-----------------------------------------------------------------------------
(***************************************************************************)
(* Properties.                                                             *)
(***************************************************************************)

\* A router has one active session at a time, unless two requests had both
\* found none, or a failed session was retried while another was active or
\* while something else was still at work on it (retry_provisioning does not
\* ask for other sessions), or a start went on from a copy of a session that
\* had ended meanwhile.
OneActiveSession == Cardinality(Active) > 1 => overlap # {}

\* A session is completed, and the router marked provisioned, only after every
\* critical command of a session has succeeded over the API, or on the router's
\* word: its bootstrap's notify (which marks the router before anything else was
\* configured), the report of its script, or an earlier check-in.
CompletedIsConfigured ==
    /\ \A s \in Sessions :
          status[s] = "completed" => Critical \subseteq recorded[s] \/ s \in heard
    /\ marked => heard # {} \/ \E s \in Sessions : Critical \subseteq recorded[s]

\* Some task holds a copy of s from before it ended.
HeldCopy(s) ==
    \/ \E j \in Jobs : job[j].s = s /\ job[j].mem \in ActiveStatus \cup {"failed"}
    \/ s \in mon.of

\* A completed, cancelled or timed-out session stays so, unless the router
\* has reported on it, the row is deleted, or a task goes on with a copy from before.
EndedIsFinal ==
    [][\A s \in Sessions :
          status[s] \in Final /\ status'[s] # status[s]
          => HeldCopy(s) \/ s \in heard' \/ status'[s] = "gone"]_vars

\* Once a rollback has completed, none of the session's commands that can be
\* taken back is on the router, unless one failed to be, or something was
\* configured on the router since the rollback began.
RollbackRestores ==
    \A s \in rbDone \ dirty : conf \cap recorded[s] \cap Reversible = {}

\* The rollback of a timed-out session is done, under way, waiting, or known
\* to have been given up: the router could not be reached, the process died,
\* or the task ran before the monitor had committed.
RollbackNotForgotten ==
    \A s \in rbReq \ rbDone :
        status[s] = "timeout" =>
            \/ s \in rbq \cup missed
            \/ \E j \in Jobs : job[j].s = s /\ job[j].pc \in {"rollback", "undo"}

\* A session in progress does not stay so, whatever becomes of the task that
\* carries it out, of the agent and of the router.
ProgressEnds == \A s \in Sessions : status[s] = "in_progress" ~> status[s] # "in_progress"

\* Rows and tasks fit together, and one session works on a router at a time.
SessionInv == ProvisioningTypeOK /\ OneActiveSession

\* A rollback that is owed is not forgotten, and one that is done was effective.
RollbackInv == RollbackNotForgotten /\ RollbackRestores
=============================================================================
