---------------------- MODULE RouterProvisioningProofs ----------------------
(***************************************************************************)
(* Proofs about RouterProvisioning, for every number of sessions, jobs and *)
(* commands and every bound: a router has one active session at a time     *)
(* unless one of the known races let a second one in, a rollback that is   *)
(* owed is not forgotten and one that is done was effective, a session     *)
(* that has ended stays ended, and a session is completed and the router   *)
(* marked provisioned only on recorded commands or on the router's word.   *)
(***************************************************************************)
EXTENDS RouterProvisioning, FiniteSetTheorems, TLAPS

-----------------------------------------------------------------------------
(***************************************************************************)
(* The inductive invariant.                                                *)
(***************************************************************************)

Status   == ActiveStatus \cup Final \cup {"failed", "none", "gone"}
Steps    == {"idle", "create", "retry", "start", "begin", "route", "connect", "run",
             "verify", "mark", "notify", "cancel", "rollback", "undo"}
Undoing  == {"rollback", "undo"}

JobRec == [pc : Steps, s : Sessions \cup {NoSession},
           mem : {"none", "alone", "failed", "gone"} \cup ActiveStatus \cup Final,
           cmd : Nat, try : Nat, flag : BOOLEAN, todo : SUBSET Commands]

RunRec == [pc : {"idle", "send", "commit"}, of : SUBSET Sessions]

RowTypes ==
    /\ status \in [Sessions -> Status]
    /\ recorded \in [Sessions -> SUBSET Commands]
    /\ conf \subseteq Commands
    /\ late \subseteq Sessions /\ rbReq \subseteq Sessions /\ rbDone \subseteq Sessions
    /\ rbq \subseteq Sessions /\ dirty \subseteq Sessions /\ missed \subseteq Sessions
    /\ heard \subseteq Sessions \cup {NoSession}
    /\ mon \in RunRec

JobTypes == job \in [Jobs -> JobRec]

\* What a job knows at each of its steps: the session it works on has a row
\* behind it, the status it remembers is the one it has read or written, and
\* the critical commands it has passed are recorded.
JobOK(j) ==
    LET r == job[j] IN
    /\ r.pc \notin {"idle", "create"} => r.s \in Sessions /\ status[r.s] # "none"
    /\ r.pc = "retry" => r.mem = "failed"
    /\ r.pc = "create" => r.mem = "alone"
    /\ r.pc = "begin" => r.mem = "pending"
    /\ r.pc \in {"route"} \cup Working => r.mem = "in_progress"
    /\ r.pc = "cancel" => r.mem \in ActiveStatus
    /\ r.pc = "run" => r.cmd \in Commands /\ r.try \in 0 .. MaxRetries
    /\ r.pc = "run" => \A c \in Critical : c < r.cmd => c \in recorded[r.s]
    /\ r.pc = "verify" => Critical \subseteq recorded[r.s]
    /\ r.pc = "mark" => Critical \subseteq recorded[r.s] \/ r.s \in heard
    /\ r.pc = "notify" => r.s \in heard

JobsOK == \A j \in Jobs : JobOK(j)

OneActive == overlap = {} => \A s, t \in Active : s = t

\* What a rollback under way has still to take back is in its list.
Restores ==
    /\ rbDone \subseteq {s \in Sessions : status[s] # "none"}
    /\ RollbackRestores
    /\ \A j \in Jobs : job[j].pc = "undo" /\ job[j].s \notin dirty =>
          conf \cap recorded[job[j].s] \cap Reversible \subseteq job[j].todo

\* The monitor has sent off the rollback of what it is about to time out.
Owed ==
    /\ RollbackNotForgotten
    /\ mon.pc = "commit" => mon.of \subseteq rbq \cup missed

Inv ==
    /\ JobTypes /\ RowTypes /\ JobsOK
    /\ OneActive /\ CompletedIsConfigured /\ Restores /\ Owed

-----------------------------------------------------------------------------
(***************************************************************************)
(* How a step changes the job it belongs to.                               *)
(***************************************************************************)

Others(j) == \A k \in Jobs : k # j => job'[k] = job[k]

\* Job j is at step pc with these values, and the others are where they were.
To(j, pc, s, mem, cmd, try, todo) ==
    /\ JobTypes' /\ Others(j)
    /\ job'[j].pc = pc /\ job'[j].s = s /\ job'[j].mem = mem
    /\ job'[j].cmd = cmd /\ job'[j].try = try /\ job'[j].todo = todo

\* The fields of a job have their types.
LEMMA JobFields ==
    ASSUME JobTypes, NEW j \in Jobs
    PROVE  /\ job[j] \in JobRec
           /\ job[j].pc \in Steps /\ job[j].s \in Sessions \cup {NoSession}
           /\ job[j].mem \in {"none", "alone", "failed", "gone"} \cup ActiveStatus \cup Final
           /\ job[j].cmd \in Nat /\ job[j].try \in Nat /\ job[j].flag \in BOOLEAN
           /\ job[j].todo \in SUBSET Commands
<1>1. job[j] \in JobRec
  BY DEF JobTypes
<1> QED
  BY <1>1 DEF JobRec

\* A job is given a new record.
LEMMA Assign ==
    ASSUME JobTypes, NEW j \in Jobs, NEW x \in JobRec, job' = [job EXCEPT ![j] = x]
    PROVE  To(j, x.pc, x.s, x.mem, x.cmd, x.try, x.todo)
<1>1. job' \in [Jobs -> JobRec] /\ job'[j] = x /\ \A k \in Jobs : k # j => job'[k] = job[k]
  BY DEF JobTypes
<1> QED
  BY <1>1 DEF To, Others, JobTypes

\* Idle is a job record.
LEMMA IdleRec ==
    /\ Idle \in JobRec
    /\ Idle.pc = "idle" /\ Idle.s = NoSession /\ Idle.mem = "none"
    /\ Idle.cmd = 0 /\ Idle.try = 0 /\ Idle.todo = {} /\ Idle.flag = FALSE
  BY DEF JobRec, Idle, Steps

\* A job is over.
LEMMA Ends ==
    ASSUME JobTypes, NEW j \in Jobs, job' = [job EXCEPT ![j] = Idle]
    PROVE  To(j, "idle", NoSession, "none", 0, 0, {})
  BY Assign, IdleRec

\* A job goes on to another step.
LEMMA GoesOn ==
    ASSUME JobTypes, NEW j \in Jobs, NEW pc \in Steps, job' = [job EXCEPT ![j].pc = pc]
    PROVE  To(j, pc, job[j].s, job[j].mem, job[j].cmd, job[j].try, job[j].todo)
<1> DEFINE x == [job[j] EXCEPT !.pc = pc]
<1>1. /\ x \in JobRec /\ x.pc = pc /\ x.s = job[j].s /\ x.mem = job[j].mem
      /\ x.cmd = job[j].cmd /\ x.try = job[j].try /\ x.todo = job[j].todo
  BY JobFields DEF JobRec
<1>2. job' = [job EXCEPT ![j] = x]
  BY DEF JobTypes
<1> HIDE DEF x
<1> QED
  BY <1>1, <1>2, Assign

\* A job goes on to another step and remembers what it has read or written.
LEMMA GoesOnWith ==
    ASSUME JobTypes, NEW j \in Jobs, NEW pc \in Steps,
           NEW mem \in {"none", "alone", "failed", "gone"} \cup ActiveStatus \cup Final,
           job' = [job EXCEPT ![j].pc = pc, ![j].mem = mem]
    PROVE  To(j, pc, job[j].s, mem, job[j].cmd, job[j].try, job[j].todo)
<1> DEFINE x == [job[j] EXCEPT !.pc = pc, !.mem = mem]
<1>1. /\ x \in JobRec /\ x.pc = pc /\ x.s = job[j].s /\ x.mem = mem
      /\ x.cmd = job[j].cmd /\ x.try = job[j].try /\ x.todo = job[j].todo
  BY JobFields DEF JobRec
<1>2. job' = [job EXCEPT ![j] = x]
  BY DEF JobTypes
<1> HIDE DEF x
<1> QED
  BY <1>1, <1>2, Assign

-----------------------------------------------------------------------------
(***************************************************************************)
(* What leaves the parts of the invariant alone.                           *)
(***************************************************************************)

\* Rows do not vanish from the table's history and records are not taken back.
Monotone ==
    /\ heard \subseteq heard'
    /\ \A s \in Sessions : /\ status[s] # "none" => status'[s] # "none"
                           /\ recorded[s] \subseteq recorded'[s]

NoneActivated ==
    /\ overlap' = {} => overlap = {}
    /\ \A s \in Sessions : status'[s] \in ActiveStatus => status[s] \in ActiveStatus

\* The job knows what it has to know at the step it has come to.
Knows(k) == job'[k] = job[k] \/ JobOK(k)'

\* A session is completed, or the router marked, with a reason.
Warranted ==
    /\ \A s \in Sessions : status'[s] = "completed" =>
           status[s] = "completed" \/ Critical \subseteq recorded'[s] \/ s \in heard'
    /\ marked' => \/ marked \/ heard' # {}
                  \/ \E s \in Sessions : Critical \subseteq recorded'[s]

\* Jobs know what they have to know.
LEMMA JobsKept ==
    ASSUME JobsOK, Monotone, \A k \in Jobs : Knows(k)
    PROVE  JobsOK'
<1> SUFFICES ASSUME NEW k \in Jobs, job'[k] = job[k]
             PROVE  JobOK(k)'
  BY DEF JobsOK, Knows
<1>1. JobOK(k)
  BY DEF JobsOK
<1>2. job[k].s \in Sessions => /\ status[job[k].s] # "none" => status'[job[k].s] # "none"
                               /\ recorded[job[k].s] \subseteq recorded'[job[k].s]
  BY DEF Monotone
<1> QED
  BY <1>1, <1>2 DEF JobOK, Monotone, Working

\* No session becomes active.
LEMMA OneActiveKept ==
    ASSUME OneActive, NoneActivated
    PROVE  OneActive'
  BY DEF OneActive, NoneActivated, Active

\* What is completed or marked keeps its reason.
LEMMA ConfiguredKept ==
    ASSUME CompletedIsConfigured, Monotone, Warranted
    PROVE  CompletedIsConfigured'
  BY DEF CompletedIsConfigured, Monotone, Warranted

\* Nothing is configured or recorded, or the rollbacks that it spoils are noted.
Unspoilt ==
    \/ /\ recorded' = recorded /\ conf' \subseteq conf
       /\ dirty \subseteq dirty' /\ rbDone' \subseteq rbDone
    \/ dirty' = dirty \cup Undone /\ rbDone' = rbDone

\* That preserves what is known of rollbacks if no job begins to take back.
LEMMA RestoresKept ==
    ASSUME Restores, Monotone, Unspoilt,
           \A k \in Jobs : job'[k] = job[k] \/ job'[k].pc # "undo"
    PROVE  Restores'
<1>1. rbDone' \subseteq {s \in Sessions : status'[s] # "none"}
  BY DEF Restores, Monotone, Unspoilt
<1>2. RollbackRestores'
  BY DEF Restores, RollbackRestores, Unspoilt, Undone
<1>3. \A k \in Jobs : job'[k].pc = "undo" /\ job'[k].s \notin dirty' =>
          conf' \cap recorded'[job'[k].s] \cap Reversible \subseteq job'[k].todo
  BY DEF Restores, Unspoilt, Undone
<1> QED
  BY <1>1, <1>2, <1>3 DEF Restores

\* No session times out, no timed-out session asks anew for its rollback.
NoneOwed ==
    /\ rbReq' \subseteq Sessions
    /\ \A s \in Sessions : status'[s] = "timeout" =>
           status[s] = "timeout" /\ (s \in rbReq' \ rbDone' => s \in rbReq \ rbDone)

\* No rollback comes to be owed and no job leaves its rollback.
LEMMA NotForgottenKept ==
    ASSUME RollbackNotForgotten, NoneOwed, rbq \cup missed \subseteq rbq' \cup missed',
           \A k \in Jobs : job[k].pc \in Undoing =>
               job'[k].s = job[k].s /\ job'[k].pc \in Undoing
    PROVE  RollbackNotForgotten'
<1> SUFFICES ASSUME NEW s \in rbReq' \ rbDone', status'[s] = "timeout",
                    s \notin rbq' \cup missed'
             PROVE  \E k \in Jobs : job'[k].s = s /\ job'[k].pc \in {"rollback", "undo"}
  BY DEF RollbackNotForgotten
<1>1. PICK k \in Jobs : job[k].s = s /\ job[k].pc \in {"rollback", "undo"}
  BY DEF RollbackNotForgotten, NoneOwed
<1> QED
  BY <1>1 DEF Undoing

\* The same, while the monitor does nothing.
LEMMA OwedKept ==
    ASSUME Owed, NoneOwed, mon' = mon, rbq \cup missed \subseteq rbq' \cup missed',
           \A k \in Jobs : job'[k] = job[k] \/ job[k].pc \notin Undoing
    PROVE  Owed'
<1>1. \A k \in Jobs : job[k].pc \in Undoing => job'[k].s = job[k].s /\ job'[k].pc \in Undoing
  OBVIOUS
<1>2. RollbackNotForgotten'
  BY <1>1, NotForgottenKept DEF Owed
<1> QED
  BY <1>2 DEF Owed

\* What a step that is about none of this does to the rows and the router.
Calm ==
    /\ RowTypes' /\ Monotone /\ NoneActivated /\ NoneOwed /\ Warranted
    /\ mon' = mon /\ Unspoilt
    /\ rbq \cup missed \subseteq rbq' \cup missed'

\* What it does to a job.
Plain(k) ==
    \/ job'[k] = job[k]
    \/ JobOK(k)' /\ job[k].pc \notin Undoing /\ job'[k].pc # "undo"

\* Such a step preserves the invariant.
LEMMA CalmKeeps ==
    ASSUME Inv, JobTypes', Calm, \A k \in Jobs : Plain(k)
    PROVE  Inv'
<1> USE DEF Inv
<1>1. JobsOK'
  BY JobsKept DEF Calm, Plain, Knows
<1>2. OneActive'
  BY OneActiveKept DEF Calm
<1>3. CompletedIsConfigured'
  BY ConfiguredKept DEF Calm
<1>4. Restores'
  BY RestoresKept DEF Calm, Plain
<1>5. Owed'
  BY OwedKept DEF Calm, Plain
<1> QED
  BY <1>1, <1>2, <1>3, <1>4, <1>5 DEF Calm

\* Nothing happens to the rows but that their time runs out.
LEMMA RestingIsCalm ==
    ASSUME RowTypes, conf' \subseteq conf, late' \subseteq Sessions,
           UNCHANGED <<marked, status, rbReq, rbDone, recorded, mon, rbq, auxVars>>
    PROVE  Calm
<1>1. /\ marked' = marked /\ status' = status /\ rbReq' = rbReq
      /\ rbDone' = rbDone /\ recorded' = recorded /\ mon' = mon
      /\ rbq' = rbq /\ overlap' = overlap /\ dirty' = dirty
      /\ missed' = missed /\ heard' = heard
  BY DEF auxVars
<1>2. RowTypes'
  BY <1>1 DEF RowTypes
<1> QED
  BY <1>1, <1>2 DEF Calm, Monotone, NoneActivated, NoneOwed, RowTypes, Unspoilt, Warranted

\* Nothing at all happens to them; the cleanup may have emptied the router.
LEMMA StillIsCalm ==
    ASSUME RowTypes, conf' \subseteq conf,
           UNCHANGED <<marked, rowVars, mon, rbq, auxVars>>
    PROVE  Calm
<1>1. late' \subseteq Sessions
  BY DEF rowVars, RowTypes
<1> QED
  BY <1>1, RestingIsCalm DEF rowVars

\* The router reports, and may be marked for it.
LEMMA ReportingIsCalm ==
    ASSUME RowTypes, NEW s \in Sessions \cup {NoSession}, heard' = heard \cup {s}, conf' = conf,
           UNCHANGED <<rowVars, mon, rbq, overlap, dirty, missed>>
    PROVE  Calm
<1>1. /\ status' = status /\ late' = late /\ rbReq' = rbReq
      /\ rbDone' = rbDone /\ recorded' = recorded
  BY DEF rowVars
<1>2. heard' \subseteq Sessions \cup {NoSession} /\ heard \subseteq heard' /\ heard' # {}
  BY DEF RowTypes
<1>3. RowTypes'
  BY <1>1, <1>2 DEF RowTypes
<1> QED
  BY <1>1, <1>2, <1>3
  DEF Calm, Monotone, NoneActivated, NoneOwed, RowTypes, Unspoilt, Warranted

\* Writing a status from a copy.
LEMMA WriteDoes ==
    ASSUME RowTypes, NEW s \in Sessions, NEW to \in Status \ {"none"}, Write(s, to)
    PROVE  /\ status' \in [Sessions -> Status]
           /\ \A t \in Sessions : t # s => status'[t] = status[t]
           /\ Exists(s) => status'[s] = to
           /\ ~ Exists(s) => status'[s] = status[s]
           /\ \A t \in Sessions : status[t] # "none" => status'[t] # "none"
  BY DEF Write, RowTypes

\* A session is ended; if it fails it may ask for a rollback.
LEMMA WritingIsCalm ==
    ASSUME RowTypes, NEW s \in Sessions, NEW to \in {"completed", "cancelled", "failed"},
           Write(s, to), to = "completed" => Critical \subseteq recorded[s] \/ s \in heard',
           rbReq' = rbReq \/ (Exists(s) /\ rbReq' = rbReq \cup {s}),
           heard' = heard \/ heard' = heard \cup {s},
           Unspoilt, conf' \subseteq Commands, dirty' \subseteq Sessions,
           UNCHANGED <<marked, late, rbDone, recorded, mon, rbq, overlap, missed>>
    PROVE  Calm
<1>1. /\ overlap' = overlap /\ missed' = missed /\ marked' = marked
      /\ late' = late /\ rbDone' = rbDone /\ recorded' = recorded
      /\ mon' = mon /\ rbq' = rbq
  OBVIOUS
<1>2. /\ status' \in [Sessions -> Status]
      /\ \A t \in Sessions : t # s => status'[t] = status[t]
      /\ Exists(s) => status'[s] = to
      /\ ~ Exists(s) => status'[s] = status[s]
      /\ \A t \in Sessions : status[t] # "none" => status'[t] # "none"
  BY WriteDoes DEF Status, Final
<1>3. /\ rbReq' \subseteq Sessions /\ heard \subseteq heard'
      /\ heard' \subseteq Sessions \cup {NoSession}
  BY DEF RowTypes
<1>4. RowTypes'
  BY <1>1, <1>2, <1>3 DEF RowTypes
<1>5. NoneActivated
  BY <1>1, <1>2 DEF NoneActivated, ActiveStatus
<1>6. NoneOwed
  BY <1>1, <1>2, <1>3 DEF NoneOwed
<1>7. Monotone
  BY <1>1, <1>2, <1>3 DEF Monotone
<1>8. Warranted
  BY <1>1, <1>2 DEF Warranted
<1> QED
  BY <1>1, <1>2, <1>4, <1>5, <1>6, <1>7, <1>8 DEF Calm

\* The same, if the router is left alone.
LEMMA EndingIsCalm ==
    ASSUME RowTypes, NEW s \in Sessions, NEW to \in {"completed", "cancelled", "failed"},
           Write(s, to), to = "completed" => Critical \subseteq recorded[s] \/ s \in heard',
           rbReq' = rbReq, conf' = conf, heard' = heard \/ heard' = heard \cup {s},
           UNCHANGED <<marked, late, rbDone, recorded, mon, rbq, overlap, dirty, missed>>
    PROVE  Calm
<1>1. Unspoilt /\ conf' \subseteq Commands /\ dirty' \subseteq Sessions
  BY DEF Unspoilt, RowTypes
<1> QED
  BY <1>1, WritingIsCalm

\* A step of one job.
LEMMA CalmStep ==
    ASSUME Inv, Calm, NEW j \in Jobs, JobTypes', Others(j), Plain(j)
    PROVE  Inv'
<1>1. \A k \in Jobs : Plain(k)
  BY DEF Others, Plain
<1> QED
  BY <1>1, CalmKeeps

-----------------------------------------------------------------------------
(***************************************************************************)
(* Each step preserves the invariant: creating and starting.               *)
(***************************************************************************)

\* The check before the insert.
LEMMA CreateCheckKeeps ==
    ASSUME Inv, NEW j \in Jobs, NEW only \in BOOLEAN, CreateCheck(j, only)
    PROVE  Inv'
<1> USE DEF Inv
<1> DEFINE x == [Idle EXCEPT !.pc = "create", !.flag = only,
                             !.mem = IF Active = {} THEN "alone" ELSE "none"]
<1>1. Active = {} /\ job' = [job EXCEPT ![j] = x] /\ job[j] = Idle
  BY DEF CreateCheck, Request, _get_active_session
<1>2. /\ x \in JobRec /\ x.pc = "create" /\ x.s = NoSession /\ x.mem = "alone"
      /\ x.cmd = 0 /\ x.try = 0 /\ x.todo = {}
  BY <1>1 DEF Idle, JobRec, Steps
<1> HIDE DEF x
<1>3. To(j, "create", NoSession, "alone", 0, 0, {})
  BY <1>1, <1>2, Assign
<1>4. Calm
  BY StillIsCalm DEF CreateCheck, routerVars
<1>5. Plain(j)
  BY <1>1, <1>3, IdleRec DEF Plain, To, JobOK, Working, Undoing
<1> QED
  BY <1>3, <1>4, <1>5, CalmStep DEF To

\* The load of a cancellation.
LEMMA CancelLoadKeeps ==
    ASSUME Inv, NEW j \in Jobs, NEW s \in Sessions, NEW undo \in BOOLEAN,
           CancelLoad(j, s, undo)
    PROVE  Inv'
<1> USE DEF Inv
<1> DEFINE x == [Idle EXCEPT !.pc = "cancel", !.s = s, !.mem = status[s], !.flag = undo]
<1>1. status[s] \in ActiveStatus /\ job' = [job EXCEPT ![j] = x] /\ job[j] = Idle
  BY DEF CancelLoad, Request, Active
<1>2. /\ x \in JobRec /\ x.pc = "cancel" /\ x.s = s /\ x.mem = status[s]
      /\ x.cmd = 0 /\ x.try = 0 /\ x.todo = {}
  BY <1>1 DEF Idle, JobRec, Steps
<1> HIDE DEF x
<1>3. To(j, "cancel", s, status[s], 0, 0, {})
  BY <1>1, <1>2, Assign
<1>4. Calm /\ status' = status
  BY StillIsCalm DEF CancelLoad, Request, routerVars, rowVars
<1>5. Plain(j)
  BY <1>1, <1>3, <1>4, IdleRec
  DEF Plain, To, JobOK, Working, Undoing, ActiveStatus
<1> QED
  BY <1>3, <1>4, <1>5, CalmStep DEF To

\* The read of a session that is to be started.
LEMMA StartLoadKeeps ==
    ASSUME Inv, NEW j \in Jobs, StartLoad(j)
    PROVE  Inv'
<1> USE DEF Inv
<1>1. job[j].pc = "start" /\ JobOK(j)
  BY DEF StartLoad, JobsOK
<1>2. Calm /\ status' = status
  BY StillIsCalm DEF StartLoad, End, counters, routerVars, rowVars
<1>3. CASE status[job[j].s] = "pending"
  <2>1. To(j, "begin", job[j].s, "pending", job[j].cmd, job[j].try, job[j].todo)
    BY <1>3, GoesOnWith DEF StartLoad, Steps, ActiveStatus
  <2>2. Plain(j)
    BY <1>1, <1>2, <2>1 DEF Plain, To, JobOK, Working, Undoing
  <2> QED
    BY <1>2, <2>1, <2>2, CalmStep, SMTT(60) DEF To
<1>4. CASE status[job[j].s] # "pending"
  <2>1. To(j, "idle", NoSession, "none", 0, 0, {})
    BY <1>4, Ends DEF StartLoad, End
  <2>2. Plain(j)
    BY <1>1, <1>2, <2>1 DEF Plain, To, JobOK, Working, Undoing
  <2> QED
    BY <1>2, <2>1, <2>2, CalmStep DEF To
<1> QED
  BY <1>3, <1>4

\* The decision to work over the router's API.
LEMMA StartDirectKeeps ==
    ASSUME Inv, NEW j \in Jobs, StartDirect(j)
    PROVE  Inv'
<1> USE DEF Inv
<1>1. job[j].pc = "route" /\ JobOK(j)
  BY DEF StartDirect, JobsOK
<1>2. Calm /\ status' = status
  BY StillIsCalm DEF StartDirect, Goto, counters, routerVars, rowVars
<1>3. To(j, "connect", job[j].s, job[j].mem, job[j].cmd, job[j].try, job[j].todo)
  BY GoesOn DEF StartDirect, Goto, Steps
<1>4. Plain(j)
  BY <1>1, <1>2, <1>3 DEF Plain, To, JobOK, Working, Undoing
<1> QED
  BY <1>2, <1>3, <1>4, CalmStep DEF To

\* A job that ends with a last write of its session's status.
LEMMA EndingKeeps ==
    ASSUME Inv, Calm, NEW j \in Jobs, job' = [job EXCEPT ![j] = Idle],
           job[j].pc \notin Undoing
    PROVE  Inv'
<1>1. To(j, "idle", NoSession, "none", 0, 0, {})
  BY Ends DEF Inv
<1>2. Plain(j)
  BY <1>1 DEF Plain, To, JobOK, Working, Undoing
<1> QED
  BY <1>1, <1>2, CalmStep DEF To

\* The router has reported before.
LEMMA StartByCheckinKeeps ==
    ASSUME Inv, NEW j \in Jobs, StartByCheckin(j)
    PROVE  Inv'
<1> USE DEF Inv
<1>1. job[j].pc = "route" /\ JobOK(j)
  BY DEF StartByCheckin, JobsOK
<1>2. job[j].s \in Sessions
  BY <1>1 DEF JobOK
<1>3. Calm
  BY <1>2, EndingIsCalm DEF StartByCheckin
<1> QED
  BY <1>1, <1>3, EndingKeeps DEF StartByCheckin, End, Undoing

\* Nobody can reach the router.
LEMMA StartUnreachableKeeps ==
    ASSUME Inv, NEW j \in Jobs, StartUnreachable(j)
    PROVE  Inv'
<1> USE DEF Inv
<1>1. job[j].pc = "route" /\ JobOK(j)
  BY DEF StartUnreachable, JobsOK
<1>2. job[j].s \in Sessions
  BY <1>1 DEF JobOK
<1>3. Calm
  BY <1>2, EndingIsCalm DEF StartUnreachable, routerVars, auxVars
<1> QED
  BY <1>1, <1>3, EndingKeeps DEF StartUnreachable, End, Undoing

\* A cancellation is committed.
LEMMA cancel_provisioningKeeps ==
    ASSUME Inv, NEW j \in Jobs, cancel_provisioning(j)
    PROVE  Inv'
<1> USE DEF Inv
<1>1. job[j].pc = "cancel" /\ JobOK(j)
  BY DEF cancel_provisioning, JobsOK
<1>2. job[j].s \in Sessions /\ status[job[j].s] # "none"
  BY <1>1 DEF JobOK
<1>3. Calm
  BY <1>2, EndingIsCalm DEF cancel_provisioning, routerVars, auxVars
<1>4. CASE job[j].flag /\ Exists(job[j].s)
  <2>1. To(j, "rollback", job[j].s, job[j].mem, job[j].cmd, job[j].try, job[j].todo)
    BY <1>4, GoesOn DEF cancel_provisioning, Goto, Steps
  <2>2. status'[job[j].s] # "none"
    BY <1>2, <1>3 DEF Calm, Monotone
  <2>3. Plain(j)
    BY <1>1, <1>2, <2>1, <2>2
    DEF Plain, To, JobOK, Working, Undoing
  <2> QED
    BY <1>3, <2>1, <2>3, CalmStep DEF To
<1>5. CASE ~ (job[j].flag /\ Exists(job[j].s))
  BY <1>1, <1>3, <1>5, EndingKeeps DEF cancel_provisioning, End, Undoing
<1> QED
  BY <1>4, <1>5

\* The insert of a session.
LEMMA create_provisioning_sessionKeeps ==
    ASSUME Inv, NEW j \in Jobs, NEW s \in Sessions, create_provisioning_session(j, s)
    PROVE  Inv'
<1> USE DEF Inv
<1>1. /\ job[j].pc = "create" /\ job[j].mem = "alone" /\ status[s] = "none"
      /\ status' = [status EXCEPT ![s] = "pending"]
      /\ overlap' = IF Active # {} THEN overlap \cup {"created"} ELSE overlap
  BY DEF create_provisioning_session, JobsOK, JobOK
<1>2. /\ heard' = heard /\ marked' = marked /\ conf' = conf /\ late' = late /\ rbReq' = rbReq
      /\ rbDone' = rbDone /\ recorded' = recorded /\ mon' = mon
      /\ rbq' = rbq /\ dirty' = dirty /\ missed' = missed
  BY DEF create_provisioning_session, routerVars, counters
<1>3. /\ status' \in [Sessions -> Status] /\ status'[s] = "pending"
      /\ \A t \in Sessions : t # s => status'[t] = status[t]
  BY <1>1 DEF RowTypes, Status, ActiveStatus
<1>4. RowTypes'
  BY <1>2, <1>3 DEF RowTypes
<1>5. \/ To(j, "idle", NoSession, "none", 0, 0, {})
      \/ To(j, "start", s, "none", 0, 0, {})
  <2> DEFINE x == [Idle EXCEPT !.pc = "start", !.s = s]
  <2>1. /\ x \in JobRec /\ x.pc = "start" /\ x.s = s /\ x.mem = "none"
        /\ x.cmd = 0 /\ x.try = 0 /\ x.todo = {}
    BY DEF Idle, JobRec, Steps
  <2>2. job' = [job EXCEPT ![j] = Idle] \/ job' = [job EXCEPT ![j] = x]
    BY DEF create_provisioning_session
  <2> HIDE DEF x
  <2> QED
    BY <2>1, <2>2, Ends, Assign
<1>6. JobTypes' /\ Others(j)
  BY <1>5 DEF To
<1>7. Monotone
  BY <1>1, <1>2, <1>3 DEF Monotone
<1>8. JobsOK'
  <2>1. JobOK(j)'
    BY <1>3, <1>5 DEF To, JobOK, Working
  <2> QED
    BY <1>6, <1>7, <2>1, JobsKept DEF Others, Knows
<1>9. OneActive'
  BY <1>1, <1>3 DEF OneActive, Active
<1>10. CompletedIsConfigured'
  BY <1>2, <1>3, <1>7, ConfiguredKept DEF Warranted
<1>11. Restores'
  BY <1>2, <1>5, <1>6, <1>7, RestoresKept DEF Others, To, Unspoilt
<1>12. Owed'
  <2>1. NoneOwed
    BY <1>2, <1>3 DEF NoneOwed, RowTypes
  <2> QED
    BY <1>1, <1>2, <1>6, <2>1, OwedKept DEF Others, Undoing
<1> QED
  BY <1>4, <1>6, <1>8, <1>9, <1>10, <1>11, <1>12

\* The load of a retry.
LEMMA RetryLoadKeeps ==
    ASSUME Inv, NEW j \in Jobs, NEW s \in Sessions, RetryLoad(j, s)
    PROVE  Inv'
<1> USE DEF Inv
<1> DEFINE x == [Idle EXCEPT !.pc = "retry", !.s = s, !.mem = "failed"]
<1>1. status[s] = "failed" /\ job' = [job EXCEPT ![j] = x] /\ job[j] = Idle
  BY DEF RetryLoad, Request
<1>2. /\ x \in JobRec /\ x.pc = "retry" /\ x.s = s /\ x.mem = "failed"
      /\ x.cmd = 0 /\ x.try = 0 /\ x.todo = {}
  BY DEF Idle, JobRec, Steps
<1> HIDE DEF x
<1>3. To(j, "retry", s, "failed", 0, 0, {})
  BY <1>1, <1>2, Assign
<1>4. Calm /\ status' = status
  BY StillIsCalm DEF RetryLoad, routerVars, rowVars
<1>5. Plain(j)
  BY <1>1, <1>3, <1>4, IdleRec DEF Plain, To, JobOK, Working, Undoing
<1> QED
  BY <1>3, <1>4, <1>5, CalmStep DEF To

\* The reset of a session that is to be retried.
LEMMA retry_provisioningKeeps ==
    ASSUME Inv, NEW j \in Jobs, retry_provisioning(j)
    PROVE  Inv'
<1> USE DEF Inv
<1> DEFINE s == job[j].s
<1>1. /\ job[j].pc = "retry" /\ JobOK(j) /\ s \in Sessions /\ Write(s, "pending")
      /\ overlap' = IF Active \ {s} # {} \/ \E k \in Jobs \ {j} : job[k].s = s
                    THEN overlap \cup {"retried"} ELSE overlap
      /\ rbReq' = rbReq \ {s} /\ rbDone' = rbDone \ {s}
  BY DEF retry_provisioning, JobsOK, JobOK
<1>2. /\ heard' = heard /\ marked' = marked /\ conf' = conf /\ late' = late
      /\ recorded' = recorded /\ mon' = mon
      /\ rbq' = rbq /\ dirty' = dirty /\ missed' = missed
  BY DEF retry_provisioning, routerVars, counters, Goto, End
<1>3. /\ status' \in [Sessions -> Status]
      /\ \A t \in Sessions : t # s => status'[t] = status[t]
      /\ Exists(s) => status'[s] = "pending"
      /\ ~ Exists(s) => status'[s] = status[s]
      /\ \A t \in Sessions : status[t] # "none" => status'[t] # "none"
  BY <1>1, WriteDoes DEF Status, ActiveStatus
<1>4. RowTypes'
  BY <1>1, <1>2, <1>3 DEF RowTypes
<1>5. \/ ~ Exists(s) /\ To(j, "idle", NoSession, "none", 0, 0, {})
      \/ Exists(s) /\ To(j, "start", s, job[j].mem, job[j].cmd, job[j].try, job[j].todo)
  BY Ends, GoesOn DEF retry_provisioning, Goto, End, Steps
<1>6. JobTypes' /\ Others(j)
  BY <1>5 DEF To
<1>7. Monotone
  BY <1>1, <1>2, <1>3 DEF Monotone
<1>8. JobsOK'
  <2>1. JobOK(j)'
    BY <1>1, <1>3, <1>5 DEF To, JobOK, Working
  <2> QED
    BY <1>6, <1>7, <2>1, JobsKept DEF Others, Knows
<1>9. OneActive'
  <2>1. overlap' = {} => Active \ {s} = {}
    BY <1>1
  <2>2. \A t \in Sessions : t # s /\ t \in Active' => t \in Active
    BY <1>3 DEF Active
  <2> QED
    BY <2>1, <2>2 DEF OneActive, Active
<1>10. CompletedIsConfigured'
  BY <1>1, <1>2, <1>3, <1>7, ConfiguredKept DEF Warranted
<1>11. Restores'
  BY <1>1, <1>2, <1>5, <1>6, <1>7, RestoresKept DEF Others, To, Unspoilt
<1>12. Owed'
  <2>1. NoneOwed
    BY <1>1, <1>3 DEF NoneOwed, RowTypes, Exists
  <2> QED
    BY <1>1, <1>2, <1>6, <2>1, OwedKept DEF Others, Undoing
<1> QED
  BY <1>4, <1>6, <1>8, <1>9, <1>10, <1>11, <1>12

\* The session is in progress.
LEMMA StartCommitKeeps ==
    ASSUME Inv, NEW j \in Jobs, StartCommit(j)
    PROVE  Inv'
<1> USE DEF Inv
<1> DEFINE s == job[j].s
<1>1. /\ job[j].pc = "begin" /\ JobOK(j) /\ s \in Sessions /\ Write(s, "in_progress")
      /\ overlap' = IF status[s] # "pending" THEN overlap \cup {"revived"} ELSE overlap
  BY DEF StartCommit, JobsOK, JobOK
<1>2. /\ heard' = heard /\ marked' = marked /\ conf' = conf /\ late' = late /\ rbReq' = rbReq
      /\ rbDone' = rbDone /\ recorded' = recorded /\ mon' = mon
      /\ rbq' = rbq /\ dirty' = dirty /\ missed' = missed
  BY DEF StartCommit, routerVars, counters, End
<1>3. /\ status' \in [Sessions -> Status]
      /\ \A t \in Sessions : t # s => status'[t] = status[t]
      /\ Exists(s) => status'[s] = "in_progress"
      /\ ~ Exists(s) => status'[s] = status[s]
      /\ \A t \in Sessions : status[t] # "none" => status'[t] # "none"
  BY <1>1, WriteDoes DEF Status, ActiveStatus
<1>4. RowTypes'
  BY <1>2, <1>3, SMTT(60) DEF RowTypes
<1>5. \/ To(j, "idle", NoSession, "none", 0, 0, {})
      \/ To(j, "route", s, "in_progress", job[j].cmd, job[j].try, job[j].todo)
  BY Ends, GoesOnWith DEF StartCommit, End, Steps, ActiveStatus
<1>6. JobTypes' /\ Others(j)
  BY <1>5 DEF To
<1>7. Monotone
  BY <1>1, <1>2, <1>3 DEF Monotone
<1>8. JobsOK'
  <2>1. JobOK(j)'
    BY <1>1, <1>3, <1>5 DEF To, JobOK, Working
  <2> QED
    BY <1>6, <1>7, <2>1, JobsKept DEF Others, Knows
<1>9. OneActive'
  <2>1. overlap' = {} => overlap = {} /\ status[s] = "pending"
    BY <1>1
  <2>2. overlap' = {} => \A t \in Sessions : t \in Active' => t \in Active
    BY <1>3, <2>1 DEF Active, ActiveStatus
  <2> QED
    BY <2>1, <2>2 DEF OneActive, Active
<1>10. CompletedIsConfigured'
  BY <1>1, <1>2, <1>3, <1>7, ConfiguredKept DEF Warranted
<1>11. Restores'
  BY <1>1, <1>2, <1>5, <1>6, <1>7, RestoresKept DEF Others, To, Unspoilt
<1>12. Owed'
  <2>1. NoneOwed
    BY <1>2, <1>3 DEF NoneOwed, RowTypes
  <2> QED
    BY <1>1, <1>2, <1>6, <2>1, OwedKept DEF Others, Undoing
<1> QED
  BY <1>4, <1>6, <1>8, <1>9, <1>10, <1>11, <1>12

\* The agent is left to fetch the script.
LEMMA StartByAgentKeeps ==
    ASSUME Inv, NEW j \in Jobs, StartByAgent(j)
    PROVE  Inv'
<1>1. Calm
  BY StillIsCalm DEF StartByAgent, routerVars, Inv
<1> QED
  BY <1>1, EndingKeeps DEF StartByAgent, End, Undoing

\* That fails, and the start goes on without it.
LEMMA AgentPathFailsKeeps ==
    ASSUME Inv, NEW j \in Jobs, NEW queued \in BOOLEAN, AgentPathFails(j, queued)
    PROVE  Inv'
<1> USE DEF Inv
<1> DEFINE r == job[j]
           x == [r EXCEPT !.flag = TRUE]
<1>1. r.pc = "route" /\ JobOK(j) /\ job' = [job EXCEPT ![j] = x]
  BY DEF AgentPathFails, JobsOK, JobTypes
<1>2. /\ x \in JobRec /\ x.pc = r.pc /\ x.s = r.s /\ x.mem = r.mem
      /\ x.cmd = r.cmd /\ x.try = r.try /\ x.todo = r.todo
  BY JobFields DEF JobRec
<1> HIDE DEF x
<1>3. To(j, r.pc, r.s, r.mem, r.cmd, r.try, r.todo)
  BY <1>1, <1>2, Assign
<1>4. Calm /\ status' = status
  BY StillIsCalm DEF AgentPathFails, routerVars, rowVars
<1>5. Plain(j)
  BY <1>1, <1>3, <1>4 DEF Plain, To, JobOK, Working, Undoing
<1> QED
  BY <1>3, <1>4, <1>5, CalmStep DEF To

-----------------------------------------------------------------------------
(***************************************************************************)
(* Each step preserves the invariant: the workflow over the API.           *)
(***************************************************************************)

\* A job that works on the router has a session.
LEMMA AtWork ==
    ASSUME Inv, NEW j \in Jobs, job[j].pc \in Working
    PROVE  /\ JobOK(j) /\ job[j].s \in Sessions /\ status[job[j].s] # "none"
           /\ job[j].mem = "in_progress" /\ job[j].pc \notin Undoing
  BY DEF Inv, JobsOK, JobOK, Working, Undoing

\* A step that fails.
LEMMA StepFailsIsCalm ==
    ASSUME Inv, NEW j \in Jobs, job[j].pc \in Working, StepFails(j),
           Unspoilt, conf' \subseteq Commands, dirty' \subseteq Sessions,
           UNCHANGED <<marked, late, rbDone, recorded, mon, rbq, overlap, missed, heard>>
    PROVE  Calm
<1>1. job[j].s \in Sessions
  BY AtWork
<1>2. RowTypes
  BY DEF Inv
<1> QED
  BY <1>1, <1>2, WritingIsCalm DEF StepFails

\* Something in a step raises.
LEMMA StepRaisesKeeps ==
    ASSUME Inv, NEW j \in Jobs, StepRaises(j)
    PROVE  Inv'
<1>1. Calm
  <2>1. /\ conf' = conf /\ recorded' = recorded /\ dirty' = dirty /\ rbDone' = rbDone
        /\ conf \subseteq Commands /\ dirty \subseteq Sessions
    BY DEF StepRaises, routerVars, auxVars, Inv, RowTypes
  <2> QED
    BY <2>1, StepFailsIsCalm DEF StepRaises, routerVars, auxVars, Unspoilt
<1>2. job' = [job EXCEPT ![j] = Idle] /\ job[j].pc \notin Undoing
  BY AtWork DEF StepRaises, StepFails
<1> QED
  BY <1>1, <1>2, EndingKeeps

\* The cleanup before the first command.
LEMMA cleanup_existing_provisioningKeeps ==
    ASSUME Inv, NEW j \in Jobs, NEW ok \in BOOLEAN, cleanup_existing_provisioning(j, ok)
    PROVE  Inv'
<1> USE DEF Inv
<1>1. job[j].pc = "connect" /\ job[j].pc \in Working
  BY DEF cleanup_existing_provisioning, Working
<1>2. /\ JobOK(j) /\ job[j].s \in Sessions /\ status[job[j].s] # "none"
      /\ job[j].mem = "in_progress" /\ job[j].pc \notin Undoing
  BY <1>1, AtWork
<1>3. Calm /\ status' = status /\ recorded' = recorded
  BY StillIsCalm DEF cleanup_existing_provisioning, rowVars
<1> DEFINE x == [job[j] EXCEPT !.pc = "run", !.cmd = 1, !.try = 0]
<1>4. /\ x \in JobRec /\ x.pc = "run" /\ x.s = job[j].s /\ x.mem = job[j].mem
      /\ x.cmd = 1 /\ x.try = 0 /\ x.todo = job[j].todo
  BY JobFields, ZenonT(60) DEF JobRec, Steps
<1>5. job' = [job EXCEPT ![j] = x]
  BY DEF JobTypes, cleanup_existing_provisioning
<1> HIDE DEF x
<1>6. To(j, "run", job[j].s, job[j].mem, 1, 0, job[j].todo)
  BY <1>4, <1>5, Assign
<1>7. 1 \in Commands /\ \A c \in Critical : ~ c < 1
  <2>1. Cardinality(Commands) \in Nat
    BY ProvisioningAssumption, FS_CardinalityType
  <2> QED
    BY <2>1, ProvisioningAssumption
<1>8. 0 \in 0 .. MaxRetries
  BY ProvisioningAssumption
<1>9. JobOK(j)'
  BY <1>2, <1>3, <1>6, <1>7, <1>8 DEF JobOK, To, Working
<1>10. Plain(j)
  BY <1>2, <1>6, <1>9 DEF Plain, To
<1> QED
  BY <1>3, <1>6, <1>10, CalmStep DEF To

\* The verification.
LEMMA VerifyKeeps ==
    ASSUME Inv, NEW j \in Jobs, Verify(j)
    PROVE  Inv'
<1> USE DEF Inv
<1>1. job[j].pc = "verify" /\ job[j].pc \in Working
  BY DEF Verify, Working
<1>2. /\ JobOK(j) /\ job[j].s \in Sessions /\ status[job[j].s] # "none"
      /\ job[j].mem = "in_progress" /\ job[j].pc \notin Undoing
  BY <1>1, AtWork
<1>3. CASE Verified \subseteq conf
  <2>1. Calm /\ recorded' = recorded
    <3>1. Write(job[j].s, "completed") /\ rbReq' = rbReq /\ conf' = conf
      BY <1>3 DEF Verify, routerVars
    <3>2. Critical \subseteq recorded[job[j].s]
      BY <1>1, <1>2 DEF JobOK
    <3> QED
      BY <1>2, <3>1, <3>2, EndingIsCalm DEF Verify, routerVars, auxVars
  <2>2. CASE Exists(job[j].s)
    <3>1. To(j, "mark", job[j].s, job[j].mem, job[j].cmd, job[j].try, job[j].todo)
      BY <1>3, <2>2, GoesOn DEF Verify, Goto, Steps
    <3>2. JobOK(j)'
      BY <1>1, <1>2, <2>1, <3>1 DEF JobOK, To, Working, Calm, Monotone
    <3>3. Plain(j)
      BY <1>2, <3>1, <3>2 DEF Plain, To
    <3> QED
      BY <2>1, <3>1, <3>3, CalmStep DEF To
  <2>3. CASE ~ Exists(job[j].s)
    BY <1>2, <1>3, <2>1, <2>3, EndingKeeps DEF Verify, End
  <2> QED
    BY <2>2, <2>3
<1>4. CASE ~ (Verified \subseteq conf)
  <2>1. StepFails(j) /\ conf' = conf
    BY <1>4 DEF Verify, routerVars
  <2>2. Calm
    <3>1. /\ recorded' = recorded /\ dirty' = dirty /\ rbDone' = rbDone
          /\ conf \subseteq Commands /\ dirty \subseteq Sessions
      BY DEF Verify, auxVars, RowTypes
    <3> QED
      BY <1>1, <2>1, <3>1, StepFailsIsCalm DEF Verify, routerVars, auxVars, Unspoilt
  <2> QED
    BY <1>2, <2>1, <2>2, EndingKeeps DEF StepFails
<1> QED
  BY <1>3, <1>4

\* The router is marked.
LEMMA mark_provisioning_completeKeeps ==
    ASSUME Inv, NEW j \in Jobs, mark_provisioning_complete(j)
    PROVE  Inv'
<1> USE DEF Inv
<1>1. job[j].pc = "mark" /\ JobOK(j)
  BY DEF mark_provisioning_complete, JobsOK
<1>2. /\ marked' = TRUE /\ conf' = conf /\ status' = status /\ late' = late /\ rbReq' = rbReq
      /\ rbDone' = rbDone /\ recorded' = recorded /\ mon' = mon /\ rbq' = rbq
      /\ overlap' = overlap /\ dirty' = dirty /\ missed' = missed /\ heard' = heard
  BY DEF mark_provisioning_complete, rowVars, auxVars
<1>3. RowTypes'
  BY <1>2 DEF RowTypes
<1>4. Warranted
  BY <1>1, <1>2 DEF Warranted, JobOK
<1>5. Calm
  BY <1>2, <1>3, <1>4 DEF Calm, Monotone, NoneActivated, NoneOwed, RowTypes, Unspoilt
<1> QED
  BY <1>1, <1>5, EndingKeeps DEF mark_provisioning_complete, End, Undoing

\* Rollbacks that have begun are rollbacks of sessions.
LEMMA UndoneSessions ==
    ASSUME Inv
    PROVE  Undone \subseteq Sessions
  BY DEF Inv, Undone, RowTypes, JobsOK, JobOK

\* The command after this one, or the verification.
LEMMA NextCommandDoes ==
    ASSUME JobTypes, NEW j \in Jobs, job[j].pc = "run",
           job' = [job EXCEPT ![j] = NextCommand(job[j])]
    PROVE  \/ /\ job[j].cmd + 1 \in Commands
              /\ To(j, "run", job[j].s, job[j].mem, job[j].cmd + 1, 0, job[j].todo)
           \/ /\ job[j].cmd + 1 \notin Commands
              /\ To(j, "verify", job[j].s, job[j].mem, job[j].cmd, job[j].try, job[j].todo)
<1> DEFINE r == job[j]
           x == [r EXCEPT !.cmd = @ + 1, !.try = 0]
           y == [r EXCEPT !.pc = "verify"]
<1>1. CASE r.cmd + 1 \in Commands
  <2>1. r.cmd + 1 \in Nat /\ 0 \in Nat
    BY JobFields
  <2>2. x \in JobRec
    BY <2>1, JobFields DEF JobRec
  <2>3. /\ x.pc = "run" /\ x.s = r.s /\ x.mem = r.mem
        /\ x.cmd = r.cmd + 1 /\ x.try = 0 /\ x.todo = r.todo
    BY <2>1, JobFields DEF JobRec
  <2>4. job' = [job EXCEPT ![j] = x]
    BY <1>1 DEF NextCommand
  <2> HIDE DEF x
  <2> QED
    BY <1>1, <2>2, <2>3, <2>4, Assign
<1>2. CASE r.cmd + 1 \notin Commands
  <2>1. y \in JobRec /\ y.pc = "verify" /\ y.s = r.s /\ y.mem = r.mem
        /\ y.cmd = r.cmd /\ y.try = r.try /\ y.todo = r.todo
    BY JobFields DEF JobRec, Steps
  <2>2. job' = [job EXCEPT ![j] = y]
    BY <1>2 DEF NextCommand
  <2> HIDE DEF y
  <2> QED
    BY <1>2, <2>1, <2>2, Assign
<1> QED
  BY <1>1, <1>2

\* What a job that has passed a command knows.
LEMMA PassedOn ==
    ASSUME Inv, Monotone, NEW j \in Jobs, job[j].pc = "run",
           job' = [job EXCEPT ![j] = NextCommand(job[j])],
           job[j].cmd \in Critical => job[j].cmd \in recorded'[job[j].s]
    PROVE  JobTypes' /\ Others(j) /\ Plain(j)
<1> USE DEF Inv
<1> DEFINE r == job[j]
<1>1. r.pc \in Working
  BY DEF Working
<1>2. /\ JobOK(j) /\ r.s \in Sessions /\ status[r.s] # "none"
      /\ r.mem = "in_progress" /\ r.pc \notin Undoing
  BY <1>1, AtWork
<1>3. status'[r.s] # "none" /\ recorded[r.s] \subseteq recorded'[r.s]
  BY <1>2 DEF Monotone
<1>4. r.cmd \in Commands /\ \A c \in Critical : c < r.cmd => c \in recorded'[r.s]
  BY <1>2, <1>3 DEF JobOK
<1>5. Cardinality(Commands) \in Nat
  BY ProvisioningAssumption, FS_CardinalityType
<1>6. \A c \in Critical : c < r.cmd + 1 => c \in recorded'[r.s]
  BY <1>4, <1>5, ProvisioningAssumption, SMTT(60)
<1>7. CASE /\ r.cmd + 1 \in Commands
           /\ To(j, "run", r.s, r.mem, r.cmd + 1, 0, r.todo)
  <2>1. 0 \in 0 .. MaxRetries
    BY ProvisioningAssumption
  <2>2. JobOK(j)'
    BY <1>2, <1>3, <1>6, <1>7, <2>1 DEF JobOK, To, Working
  <2> QED
    BY <1>2, <1>7, <2>2 DEF Plain, To
<1>8. CASE /\ r.cmd + 1 \notin Commands
           /\ To(j, "verify", r.s, r.mem, r.cmd, r.try, r.todo)
  <2>1. \A c \in Critical : c < r.cmd + 1
    BY <1>4, <1>5, <1>8, ProvisioningAssumption
  <2>2. JobOK(j)'
    BY <1>2, <1>3, <1>6, <1>8, <2>1 DEF JobOK, To, Working
  <2> QED
    BY <1>2, <1>8, <2>2 DEF Plain, To
<1> QED
  BY <1>7, <1>8, NextCommandDoes

\* A command takes effect and is recorded.
LEMMA CommandSucceedsKeeps ==
    ASSUME Inv, NEW j \in Jobs, CommandSucceeds(j)
    PROVE  Inv'
<1> USE DEF Inv
<1> DEFINE r == job[j]
<1>1. /\ r.pc = "run" /\ conf' = conf \cup {r.cmd}
      /\ recorded' = [recorded EXCEPT ![r.s] = @ \cup {r.cmd}]
      /\ dirty' = dirty \cup Undone
      /\ job' = [job EXCEPT ![j] = NextCommand(r)]
  BY DEF CommandSucceeds
<1>2. /\ heard' = heard /\ marked' = marked /\ status' = status /\ late' = late /\ rbReq' = rbReq
      /\ rbDone' = rbDone /\ mon' = mon
      /\ rbq' = rbq /\ overlap' = overlap /\ missed' = missed
  BY DEF CommandSucceeds, counters
<1>3. r.s \in Sessions /\ r.cmd \in Commands
  BY <1>1 DEF JobsOK, JobOK
<1>4. /\ recorded' \in [Sessions -> SUBSET Commands] /\ r.cmd \in recorded'[r.s]
      /\ \A t \in Sessions : recorded[t] \subseteq recorded'[t]
  BY <1>1, <1>3 DEF RowTypes
<1>5. conf' \subseteq Commands /\ dirty' \subseteq Sessions
  BY <1>1, <1>3, UndoneSessions DEF RowTypes
<1>6. RowTypes'
  BY <1>2, <1>4, <1>5 DEF RowTypes
<1>7. Monotone
  BY <1>2, <1>4 DEF Monotone
<1>8. Calm
  BY <1>1, <1>2, <1>6, <1>7 DEF Calm, NoneActivated, NoneOwed, RowTypes, Unspoilt, Warranted
<1>9. JobTypes' /\ Others(j) /\ Plain(j)
  BY <1>1, <1>4, <1>7, PassedOn
<1> QED
  BY <1>8, <1>9, CalmStep

\* A command fails, perhaps after it took effect.
LEMMA CommandFailsKeeps ==
    ASSUME Inv, NEW j \in Jobs, NEW effect \in BOOLEAN, CommandFails(j, effect)
    PROVE  Inv'
<1> USE DEF Inv
<1> DEFINE r == job[j]
<1>1. /\ r.pc = "run" /\ r.pc \in Working
      /\ conf' = IF effect THEN conf \cup {r.cmd} ELSE conf
      /\ dirty' = IF effect THEN dirty \cup Undone ELSE dirty
  BY DEF CommandFails, Working
<1>2. /\ heard' = heard /\ marked' = marked /\ late' = late
      /\ rbDone' = rbDone /\ mon' = mon /\ recorded' = recorded
      /\ rbq' = rbq /\ overlap' = overlap /\ missed' = missed
  BY DEF CommandFails
<1>3. /\ JobOK(j) /\ r.s \in Sessions /\ status[r.s] # "none"
      /\ r.mem = "in_progress" /\ r.pc \notin Undoing
  BY <1>1, AtWork
<1>4. r.cmd \in Commands /\ r.try \in 0 .. MaxRetries
  BY <1>1, <1>3 DEF JobOK
<1>5. conf' \subseteq Commands /\ dirty' \subseteq Sessions
  BY <1>1, <1>4, UndoneSessions DEF RowTypes
<1>6. Unspoilt
  BY <1>1, <1>2 DEF Unspoilt
<1>7. ASSUME UNCHANGED <<status, rbReq>>
      PROVE  Calm
  <2>1. RowTypes'
    BY <1>2, <1>5, <1>7 DEF RowTypes
  <2> QED
    BY <1>2, <1>6, <1>7, <2>1 DEF Calm, Monotone, NoneActivated, NoneOwed, RowTypes, Warranted
<1>8. CASE r.try < MaxRetries
  <2> DEFINE x == [r EXCEPT !.try = @ + 1]
  <2>1. r.try + 1 \in Nat /\ r.try + 1 \in 0 .. MaxRetries
    BY <1>4, <1>8, ProvisioningAssumption
  <2>2. x \in JobRec
    BY <2>1, JobFields DEF JobRec
  <2>3. /\ x.pc = r.pc /\ x.s = r.s /\ x.mem = r.mem
        /\ x.cmd = r.cmd /\ x.try = r.try + 1 /\ x.todo = r.todo
    BY <2>1, JobFields DEF JobRec
  <2>4. job' = [job EXCEPT ![j] = x] /\ status' = status /\ rbReq' = rbReq
    BY <1>8 DEF CommandFails, JobTypes
  <2> HIDE DEF x
  <2>5. To(j, r.pc, r.s, r.mem, r.cmd, r.try + 1, r.todo)
    BY <2>2, <2>3, <2>4, Assign
  <2>6. JobOK(j)'
    BY <1>1, <1>2, <1>3, <2>1, <2>4, <2>5 DEF JobOK, To, Working
  <2>7. Plain(j)
    BY <1>3, <2>5, <2>6, <1>1 DEF Plain, To
  <2> QED
    BY <1>7, <2>4, <2>5, <2>7, CalmStep DEF To
<1>9. CASE ~ (r.try < MaxRetries) /\ GivesUp(r.cmd)
  <2>1. StepFails(j)
    BY <1>9 DEF CommandFails
  <2>2. Calm
    BY <1>1, <1>2, <1>5, <1>6, <2>1, StepFailsIsCalm
  <2> QED
    BY <1>3, <2>1, <2>2, EndingKeeps DEF StepFails
<1>10. CASE ~ (r.try < MaxRetries) /\ ~ GivesUp(r.cmd)
  <2>1. /\ job' = [job EXCEPT ![j] = NextCommand(r)]
        /\ status' = status /\ rbReq' = rbReq /\ r.cmd \notin Critical
    BY <1>10 DEF CommandFails, GivesUp
  <2>2. Calm
    BY <1>7, <2>1
  <2>3. JobTypes' /\ Others(j) /\ Plain(j)
    BY <1>1, <2>1, <2>2, PassedOn DEF Calm
  <2> QED
    BY <2>2, <2>3, CalmStep
<1> QED
  BY <1>8, <1>9, <1>10

-----------------------------------------------------------------------------
(***************************************************************************)
(* Each step preserves the invariant: what the router does by itself.      *)
(***************************************************************************)

\* A step that leaves every job where it is.
LEMMA CalmRest ==
    ASSUME Inv, Calm, job' = job
    PROVE  Inv'
<1>1. JobTypes' /\ \A k \in Jobs : Plain(k)
  BY DEF Inv, JobTypes, Plain
<1> QED
  BY <1>1, CalmKeeps

\* The agent runs the script.
LEMMA RunScriptKeeps ==
    ASSUME Inv, NEW s \in Sessions, NEW done \in SUBSET Commands, RunScript(s, done)
    PROVE  Inv'
<1> USE DEF Inv
<1>1. /\ conf' = conf \cup done /\ dirty' = dirty \cup Undone
      /\ marked' = marked /\ status' = status /\ late' = late /\ rbReq' = rbReq
      /\ rbDone' = rbDone /\ recorded' = recorded /\ mon' = mon /\ job' = job
      /\ rbq' = rbq /\ overlap' = overlap /\ missed' = missed /\ heard' = heard
  BY DEF RunScript, rowVars
<1>2. conf' \subseteq Commands /\ dirty' \subseteq Sessions
  BY <1>1, UndoneSessions DEF RowTypes
<1>3. RowTypes'
  BY <1>1, <1>2 DEF RowTypes
<1>4. Calm
  BY <1>1, <1>3 DEF Calm, Monotone, NoneActivated, NoneOwed, RowTypes, Unspoilt, Warranted
<1> QED
  BY <1>1, <1>4, CalmRest

\* The script has reported.
LEMMA provisioning_script_completeKeeps ==
    ASSUME Inv, NEW j \in Jobs, NEW s \in Sessions, NEW word,
           provisioning_script_complete(j, s, word)
    PROVE  Inv'
<1> USE DEF Inv
<1> DEFINE x == [Idle EXCEPT !.pc = "mark", !.s = s]
           to == IF word = "failed" THEN "failed" ELSE "completed"
<1>1. /\ Exists(s) /\ job[j] = Idle /\ Write(s, to) /\ heard' = heard \cup {s}
      /\ job' = [job EXCEPT ![j] = x] \/ job' = [job EXCEPT ![j] = Idle]
  BY DEF provisioning_script_complete
<1>2. /\ x \in JobRec /\ x.pc = "mark" /\ x.s = s /\ x.mem = "none"
      /\ x.cmd = 0 /\ x.try = 0 /\ x.todo = {}
  BY DEF Idle, JobRec, Steps
<1>3. to \in {"completed", "cancelled", "failed"}
  OBVIOUS
<1> HIDE DEF x, to
<1>4. Calm
  BY <1>1, <1>3, EndingIsCalm DEF provisioning_script_complete, routerVars
<1>5. job[j].pc = "idle"
  BY <1>1, IdleRec
<1>6. CASE job' = [job EXCEPT ![j] = x]
  <2>1. To(j, "mark", s, "none", 0, 0, {})
    BY <1>2, <1>6, Assign
  <2>2. status'[s] # "none"
    BY <1>1, <1>4 DEF Calm, Monotone, Exists
  <2>3. Plain(j)
    BY <1>1, <1>5, <2>1, <2>2 DEF Plain, To, JobOK, Working, Undoing
  <2> QED
    BY <1>4, <2>1, <2>3, CalmStep DEF To
<1>7. CASE job' = [job EXCEPT ![j] = Idle]
  BY <1>4, <1>5, <1>7, EndingKeeps DEF Undoing
<1> QED
  BY <1>1, <1>6, <1>7

\* The bootstrap script reports on a session: the router is marked first,
LEMMA store_router_credentialsKeeps ==
    ASSUME Inv, NEW j \in Jobs, NEW s \in Sessions, NEW stored \in BOOLEAN,
           store_router_credentials(j, s, stored)
    PROVE  Inv'
<1> USE DEF Inv
<1> DEFINE x == [Idle EXCEPT !.pc = "notify", !.s = s, !.mem = status[s]]
<1>1. /\ Exists(s) /\ job[j] = Idle /\ heard' = heard \cup {s}
      /\ job' = [job EXCEPT ![j] = x]
  BY DEF store_router_credentials
<1>2. status[s] \in {"none", "alone", "failed", "gone"} \cup ActiveStatus \cup Final
  BY DEF RowTypes, Status
<1>3. /\ x \in JobRec /\ x.pc = "notify" /\ x.s = s /\ x.mem = status[s]
      /\ x.cmd = 0 /\ x.try = 0 /\ x.todo = {}
  BY <1>2 DEF Idle, JobRec, Steps
<1> HIDE DEF x
<1>4. To(j, "notify", s, status[s], 0, 0, {})
  BY <1>1, <1>3, Assign
<1>5. Calm /\ status' = status
  BY <1>1, ReportingIsCalm DEF store_router_credentials, rowVars
<1>6. job[j].pc = "idle"
  BY <1>1, IdleRec
<1>7. Plain(j)
  BY <1>1, <1>4, <1>5, <1>6 DEF Plain, To, JobOK, Working, Undoing, Exists
<1> QED
  BY <1>4, <1>5, <1>7, CalmStep DEF To

\* then the session is completed.
LEMMA provisioning_notifyKeeps ==
    ASSUME Inv, NEW j \in Jobs, provisioning_notify(j)
    PROVE  Inv'
<1> USE DEF Inv
<1>1. job[j].pc = "notify" /\ job[j].s \in Sessions /\ job[j].s \in heard
  BY DEF provisioning_notify, JobsOK, JobOK
<1>2. heard' = heard
  BY DEF provisioning_notify, auxVars
<1>3. CASE status' = status
  <2>1. Calm
    BY <1>3, StillIsCalm DEF provisioning_notify, routerVars, rowVars
  <2> QED
    BY <1>1, <2>1, EndingKeeps DEF provisioning_notify, End, Undoing
<1>4. CASE Write(job[j].s, "completed")
  <2>1. Calm
    BY <1>1, <1>2, <1>4, EndingIsCalm DEF provisioning_notify, routerVars, auxVars
  <2> QED
    BY <1>1, <2>1, EndingKeeps DEF provisioning_notify, End, Undoing
<1> QED
  BY <1>3, <1>4 DEF provisioning_notify

\* It reports, and no session is found.
LEMMA register_device_checkinKeeps ==
    ASSUME Inv, NEW stored \in BOOLEAN, NEW kept \in BOOLEAN,
           register_device_checkin(stored, kept)
    PROVE  Inv'
<1>1. Calm
  BY ReportingIsCalm DEF register_device_checkin, Inv
<1> QED
  BY <1>1, CalmRest DEF register_device_checkin

-----------------------------------------------------------------------------
(***************************************************************************)
(* Each step preserves the invariant: timing out, rolling back, deleting.  *)
(***************************************************************************)

\* The time of a session runs out.
LEMMA TimePassesKeeps ==
    ASSUME Inv, NEW s \in Sessions, TimePasses(s)
    PROVE  Inv'
<1> USE DEF Inv
<1>1. late' \subseteq Sessions
  BY DEF TimePasses, RowTypes
<1>2. Calm
  BY <1>1, RestingIsCalm DEF TimePasses, routerVars
<1> QED
  BY <1>2, CalmRest DEF TimePasses

\* A row is deleted.
LEMMA delete_sessionKeeps ==
    ASSUME Inv, NEW s \in Sessions, delete_session(s)
    PROVE  Inv'
<1> USE DEF Inv
<1>1. /\ status' = [status EXCEPT ![s] = "gone"] /\ job' = job
      /\ rbReq' = rbReq \ {s} /\ rbDone' = rbDone \ {s}
  BY DEF delete_session
<1>2. /\ heard' = heard /\ marked' = marked /\ conf' = conf /\ late' = late
      /\ recorded' = recorded /\ mon' = mon
      /\ rbq' = rbq /\ overlap' = overlap /\ dirty' = dirty
      /\ missed' = missed
  BY DEF delete_session, routerVars, auxVars
<1>3. /\ status' \in [Sessions -> Status] /\ status'[s] = "gone"
      /\ \A t \in Sessions : t # s => status'[t] = status[t]
  BY <1>1 DEF RowTypes, Status
<1>4. RowTypes'
  BY <1>1, <1>2, <1>3 DEF RowTypes
<1>5. Monotone /\ Unspoilt
  BY <1>1, <1>2, <1>3 DEF Monotone, Unspoilt
<1>6. NoneActivated
  BY <1>2, <1>3 DEF NoneActivated, ActiveStatus
<1>7. NoneOwed
  BY <1>1, <1>3 DEF NoneOwed, RowTypes
<1>8. Warranted
  BY <1>2, <1>3 DEF Warranted
<1>9. Calm
  BY <1>2, <1>4, <1>5, <1>6, <1>7, <1>8 DEF Calm
<1> QED
  BY <1>1, <1>9, CalmRest

\* The monitor's steps.
LEMMA MonitorKeeps ==
    ASSUME Inv, Monitor
    PROVE  Inv'
<1> USE DEF Inv
<1>1. CASE MonitorLoad
  <2>1. PICK of \in SUBSET Sessions : mon' = [pc |-> "send", of |-> of]
    BY <1>1 DEF MonitorLoad
  <2>2. /\ heard' = heard /\ marked' = marked /\ conf' = conf /\ late' = late /\ status' = status
        /\ recorded' = recorded /\ rbReq' = rbReq /\ rbDone' = rbDone
        /\ rbq' = rbq /\ overlap' = overlap /\ dirty' = dirty
        /\ missed' = missed /\ job' = job
    BY <1>1 DEF MonitorLoad, routerVars, rowVars, auxVars, counters
  <2>3. mon' \in RunRec /\ mon'.pc # "commit"
    BY <2>1 DEF RunRec
  <2>4. RowTypes'
    BY <2>2, <2>3 DEF RowTypes
  <2>5. JobTypes' /\ JobsOK' /\ OneActive' /\ CompletedIsConfigured' /\ Restores'
    BY <2>2 DEF JobTypes, JobsOK, JobOK, OneActive, Active, CompletedIsConfigured, Restores,
                    RollbackRestores
  <2>6. Owed'
    BY <2>2, <2>3 DEF Owed, RollbackNotForgotten
  <2> QED
    BY <2>4, <2>5, <2>6
<1>2. CASE MonitorSend
  <2>1. /\ mon.pc = "send" /\ rbq' = rbq \cup mon.of /\ mon' = [mon EXCEPT !.pc = "commit"]
    BY <1>2 DEF MonitorSend
  <2>2. /\ heard' = heard /\ marked' = marked /\ conf' = conf /\ late' = late /\ status' = status
        /\ recorded' = recorded /\ rbReq' = rbReq /\ rbDone' = rbDone
        /\ overlap' = overlap /\ dirty' = dirty
        /\ missed' = missed /\ job' = job
    BY <1>2 DEF MonitorSend, routerVars, rowVars, auxVars, counters
  <2>3. mon' \in RunRec /\ mon'.of = mon.of /\ mon.of \subseteq Sessions
    BY <2>1 DEF RunRec, RowTypes
  <2>4. RowTypes'
    BY <2>1, <2>2, <2>3 DEF RowTypes
  <2>5. JobTypes' /\ JobsOK' /\ OneActive' /\ CompletedIsConfigured' /\ Restores'
    BY <2>2 DEF JobTypes, JobsOK, JobOK, OneActive, Active, CompletedIsConfigured, Restores,
                    RollbackRestores
  <2>6. Owed'
    BY <2>1, <2>2, <2>3 DEF Owed, RollbackNotForgotten
  <2> QED
    BY <2>4, <2>5, <2>6
<1>3. CASE MonitorCommit
  <2>1. mon.pc = "commit" /\ mon' = NoRun /\ mon.of \subseteq Sessions
    BY <1>3 DEF MonitorCommit, RowTypes, RunRec
  <2>2. /\ heard' = heard /\ marked' = marked /\ conf' = conf /\ late' = late
        /\ recorded' = recorded /\ rbDone' = rbDone
        /\ rbq' = rbq /\ overlap' = overlap /\ dirty' = dirty
        /\ missed' = missed /\ job' = job
    BY <1>3 DEF MonitorCommit, routerVars, auxVars, counters
  <2>3. mon' \in RunRec /\ mon'.pc # "commit"
    BY <2>1 DEF RunRec, NoRun
  <2>4. \/ status' = status /\ rbReq' = rbReq
        \/ /\ \A s \in mon.of : Exists(s)
           /\ status' = [s \in Sessions |-> IF s \in mon.of THEN "timeout" ELSE status[s]]
           /\ rbReq' = rbReq \cup mon.of
    BY <1>3 DEF MonitorCommit
  <2>5. status' \in [Sessions -> Status] /\ rbReq' \subseteq Sessions
    BY <2>1, <2>4 DEF RowTypes, Status, Final
  <2>6. RowTypes'
    BY <2>2, <2>3, <2>5 DEF RowTypes
  <2>7. \A s \in Sessions : \/ status'[s] = status[s] /\ (s \in rbReq' => s \in rbReq)
                            \/ s \in mon.of /\ status'[s] = "timeout" /\ Exists(s)
    BY <2>4, <2>1
  <2>7a. \A s \in Sessions : status'[s] = status[s] \/ status'[s] = "timeout"
    BY <2>7
  <2>8. Monotone /\ NoneActivated /\ Unspoilt
    BY <2>2, <2>7a DEF Monotone, NoneActivated, Unspoilt, ActiveStatus
  <2>9. JobTypes' /\ JobsOK' /\ OneActive'
    BY <2>2, <2>8, JobsKept, OneActiveKept DEF JobTypes, Knows
  <2>10. CompletedIsConfigured'
    BY <2>2, <2>7a, <2>8, ConfiguredKept DEF Warranted
  <2>11. Restores'
    BY <2>2, <2>8, RestoresKept
  <2>12. RollbackNotForgotten'
    <3> SUFFICES ASSUME NEW s \in Sessions, s \in rbReq', s \notin rbDone',
                        status'[s] = "timeout"
                 PROVE  \/ s \in rbq' \cup missed'
                        \/ \E k \in Jobs : job'[k].s = s /\ job'[k].pc \in {"rollback", "undo"}
      BY <2>5 DEF RollbackNotForgotten
    <3>1. CASE s \in mon.of
      BY <2>1, <2>2, <3>1 DEF Owed
    <3>2. CASE s \notin mon.of
      BY <2>2, <2>7, <3>2 DEF Owed, RollbackNotForgotten
    <3> QED
      BY <3>1, <3>2
  <2> QED
    BY <2>3, <2>6, <2>9, <2>10, <2>11, <2>12 DEF Owed
<1> QED
  BY <1>1, <1>2, <1>3 DEF Monitor

\* The parts of the invariant that a rollback does not touch.
LEMMA RollingBack ==
    ASSUME Inv, NEW j \in Jobs, Others(j), JobTypes', RowTypes',
           UNCHANGED <<marked, status, recorded, overlap, heard>>,
           \/ job'[j] = job[j]
           \/ job'[j].pc = "idle"
           \/ job'[j].pc \in Undoing /\ job'[j].s \in Sessions /\ status[job'[j].s] # "none"
    PROVE  JobsOK' /\ OneActive' /\ CompletedIsConfigured' /\ Monotone
<1> USE DEF Inv
<1>1. Monotone /\ NoneActivated /\ Warranted
  BY DEF Monotone, NoneActivated, Warranted
<1>2. \A k \in Jobs : k # j => job'[k] = job[k]
  BY DEF Others
<1>3. \A k \in Jobs : Knows(k)
  <2>1. Knows(j)
    BY DEF Knows, JobOK, Undoing, Working
  <2> QED
    BY <1>2, <2>1 DEF Knows
<1> QED
  BY <1>1, <1>3, JobsKept, OneActiveKept, ConfiguredKept

\* A rollback task is taken from the queue.
LEMMA RollbackTaskKeeps ==
    ASSUME Inv, NEW j \in Jobs, NEW s \in Sessions, RollbackTask(j, s)
    PROVE  Inv'
<1> USE DEF Inv
<1> DEFINE x == [Idle EXCEPT !.pc = "rollback", !.s = s]
<1>1. /\ s \in rbq /\ job[j] = Idle /\ rbq' = rbq \ {s}
      /\ \/ /\ Exists(s) /\ job' = [job EXCEPT ![j] = x]
            /\ missed' = IF s \in mon.of THEN missed \cup {s} ELSE missed
         \/ job' = job /\ missed' = missed \cup {s}
  BY DEF RollbackTask
<1>2. /\ x \in JobRec /\ x.pc = "rollback" /\ x.s = s /\ x.mem = "none"
      /\ x.cmd = 0 /\ x.try = 0 /\ x.todo = {}
  BY DEF Idle, JobRec, Steps
<1> HIDE DEF x
<1>3. /\ heard' = heard /\ marked' = marked /\ conf' = conf /\ late' = late /\ status' = status
      /\ recorded' = recorded /\ rbReq' = rbReq /\ rbDone' = rbDone
      /\ overlap' = overlap /\ dirty' = dirty /\ mon' = mon
  BY DEF RollbackTask, routerVars, rowVars, counters
<1>4. rbq' \subseteq Sessions /\ missed' \subseteq Sessions
  BY <1>1 DEF RowTypes
<1>5. RowTypes'
  BY <1>3, <1>4 DEF RowTypes
<1>6. job[j].pc = "idle"
  BY <1>1, IdleRec
<1>7. /\ JobTypes' /\ Others(j)
      /\ \/ job' = job /\ s \in missed'
         \/ job'[j].pc = "rollback" /\ job'[j].s = s /\ Exists(s)
  <2>1. CASE job' = job
    BY <1>1, <2>1, <1>2 DEF JobTypes, Others
  <2>2. CASE job' # job
    <3>1. To(j, "rollback", s, "none", 0, 0, {})
      BY <1>1, <1>2, <2>2, Assign
    <3> QED
      BY <1>1, <2>2, <3>1 DEF To
  <2> QED
    BY <2>1, <2>2
<1>8. JobsOK' /\ OneActive' /\ CompletedIsConfigured' /\ Monotone
  BY <1>3, <1>5, <1>7, RollingBack DEF Undoing, Exists
<1>9. Restores'
  BY <1>3, <1>7, <1>8, RestoresKept DEF Others, Unspoilt
<1>10. \A t \in Sessions : t \in rbq \cup missed =>
           \/ t \in rbq' \cup missed'
           \/ t = s /\ job'[j].pc = "rollback" /\ job'[j].s = s
  BY <1>1, <1>7
<1>11. RollbackNotForgotten'
  <2> SUFFICES ASSUME NEW t \in Sessions, t \in rbReq', t \notin rbDone',
                      status'[t] = "timeout", t \notin rbq' \cup missed'
               PROVE  \E k \in Jobs : job'[k].s = t /\ job'[k].pc \in {"rollback", "undo"}
    BY <1>5 DEF RollbackNotForgotten, RowTypes
  <2>1. CASE t \in rbq \cup missed
    BY <1>10, <2>1
  <2>2. CASE t \notin rbq \cup missed
    <3>1. PICK k \in Jobs : job[k].s = t /\ job[k].pc \in {"rollback", "undo"}
      BY <1>3, <2>2 DEF Owed, RollbackNotForgotten
    <3> QED
      BY <1>6, <1>7, <3>1 DEF Others
  <2> QED
    BY <2>1, <2>2
<1>12. mon.of \subseteq rbq \cup missed => mon'.of \subseteq rbq' \cup missed'
  BY <1>1, <1>3
<1> QED
  BY <1>3, <1>5, <1>7, <1>8, <1>9, <1>11, <1>12 DEF Owed

\* The rollback reads its commands and connects.
LEMMA _execute_rollbackKeeps ==
    ASSUME Inv, NEW j \in Jobs, NEW ok \in BOOLEAN, _execute_rollback(j, ok)
    PROVE  Inv'
<1> USE DEF Inv
<1> DEFINE s == job[j].s
           x == [job[j] EXCEPT !.pc = "undo", !.todo = recorded[s] \cap Reversible]
<1>1. /\ job[j].pc = "rollback" /\ s \in Sessions /\ status[s] # "none"
      /\ \/ job' = [job EXCEPT ![j] = x] /\ missed' = missed
         \/ job' = [job EXCEPT ![j] = Idle] /\ missed' = missed \cup {s}
  BY DEF _execute_rollback, RollbackCommands, JobsOK, JobOK
<1>2. recorded[s] \cap Reversible \in SUBSET Commands
  BY <1>1 DEF RowTypes
<1>3. x \in JobRec
  BY <1>2, JobFields, ZenonT(60) DEF JobRec, Steps
<1>4. /\ x.pc = "undo" /\ x.s = s /\ x.mem = job[j].mem
      /\ x.cmd = job[j].cmd /\ x.try = job[j].try /\ x.todo = recorded[s] \cap Reversible
  BY <1>2, JobFields DEF JobRec
<1> HIDE DEF x
<1>5. /\ heard' = heard /\ marked' = marked /\ conf' = conf /\ late' = late /\ status' = status
      /\ recorded' = recorded /\ rbReq' = rbReq /\ rbDone' = rbDone
      /\ overlap' = overlap /\ dirty' = dirty /\ mon' = mon
      /\ rbq' = rbq
  BY DEF _execute_rollback, routerVars, rowVars, counters
<1>6. missed' \subseteq Sessions /\ missed \subseteq missed'
  BY <1>1 DEF RowTypes
<1>7. RowTypes'
  BY <1>5, <1>6 DEF RowTypes
<1>8. \/ To(j, "undo", s, job[j].mem, job[j].cmd, job[j].try, recorded[s] \cap Reversible)
      \/ To(j, "idle", NoSession, "none", 0, 0, {}) /\ s \in missed'
  BY <1>1, <1>3, <1>4, Assign, Ends
<1>9. JobTypes' /\ \A k \in Jobs : k # j => job'[k] = job[k]
  BY <1>8 DEF To, Others
<1>10. JobsOK' /\ OneActive' /\ CompletedIsConfigured' /\ Monotone
  BY <1>1, <1>5, <1>7, <1>8, RollingBack DEF To, Undoing
<1>11. Restores'
  <2>1. /\ rbDone' \subseteq {t \in Sessions : status'[t] # "none"}
        /\ RollbackRestores'
    BY <1>5 DEF Restores, RollbackRestores
  <2>2. ASSUME NEW k \in Jobs, job'[k].pc = "undo", job'[k].s \notin dirty'
        PROVE  conf' \cap recorded'[job'[k].s] \cap Reversible \subseteq job'[k].todo
    <3>1. CASE k = j
      BY <1>5, <1>8, <2>2, <3>1 DEF To
    <3>2. CASE k # j
      BY <1>5, <1>9, <2>2, <3>2 DEF Restores
    <3> QED
      BY <3>1, <3>2
  <2> QED
    BY <2>1, <2>2 DEF Restores
<1>12. RollbackNotForgotten'
  <2> SUFFICES ASSUME NEW t \in Sessions, t \in rbReq', t \notin rbDone',
                      status'[t] = "timeout", t \notin rbq' \cup missed'
               PROVE  \E k \in Jobs : job'[k].s = t /\ job'[k].pc \in {"rollback", "undo"}
    BY <1>7 DEF RollbackNotForgotten, RowTypes
  <2>1. PICK k \in Jobs : job[k].s = t /\ job[k].pc \in {"rollback", "undo"}
    BY <1>5, <1>6 DEF Owed, RollbackNotForgotten
  <2> QED
    BY <1>8, <1>9, <2>1 DEF To
<1> QED
  BY <1>5, <1>6, <1>7, <1>9, <1>10, <1>11, <1>12 DEF Owed

\* One command is taken back, or is not.
LEMMA UndoKeeps ==
    ASSUME Inv, NEW j \in Jobs, NEW c \in Commands, NEW ok \in BOOLEAN, Undo(j, c, ok)
    PROVE  Inv'
<1> USE DEF Inv
<1> DEFINE r == job[j]
           x == [r EXCEPT !.todo = @ \ {c}]
<1>1. /\ r.pc = "undo" /\ r.s \in Sessions /\ status[r.s] # "none"
      /\ conf' = IF ok THEN conf \ {c} ELSE conf
      /\ dirty' = IF ok THEN dirty ELSE dirty \cup {r.s}
      /\ job' = [job EXCEPT ![j].todo = @ \ {c}]
  BY DEF Undo, JobsOK, JobOK
<1>2. r.todo \ {c} \in SUBSET Commands
  BY JobFields
<1>3. x \in JobRec
  BY <1>2, JobFields DEF JobRec
<1>4. /\ x.pc = "undo" /\ x.s = r.s /\ x.mem = r.mem
      /\ x.cmd = r.cmd /\ x.try = r.try /\ x.todo = r.todo \ {c}
  BY <1>1, <1>2, JobFields DEF JobRec
<1>5. job' = [job EXCEPT ![j] = x]
  BY <1>1 DEF JobTypes
<1> HIDE DEF x
<1>6. To(j, "undo", r.s, r.mem, r.cmd, r.try, r.todo \ {c})
  BY <1>3, <1>4, <1>5, Assign
<1>7. /\ heard' = heard /\ marked' = marked /\ late' = late /\ status' = status
      /\ recorded' = recorded /\ rbReq' = rbReq /\ rbDone' = rbDone
      /\ overlap' = overlap /\ mon' = mon
      /\ rbq' = rbq /\ missed' = missed
  BY DEF Undo, rowVars
<1>8. conf' \subseteq conf /\ dirty \subseteq dirty' /\ dirty' \subseteq Sessions
  BY <1>1 DEF RowTypes
<1>9. RowTypes'
  BY <1>7, <1>8 DEF RowTypes
<1>10. JobTypes' /\ \A k \in Jobs : k # j => job'[k] = job[k]
  BY <1>6 DEF To, Others
<1>11. JobsOK' /\ OneActive' /\ CompletedIsConfigured' /\ Monotone
  BY <1>1, <1>6, <1>7, <1>9, RollingBack DEF To, Undoing
<1>12. Restores'
  <2>1. /\ rbDone' \subseteq {t \in Sessions : status'[t] # "none"}
        /\ RollbackRestores'
    BY <1>7, <1>8 DEF Restores, RollbackRestores
  <2>2. ASSUME NEW k \in Jobs, job'[k].pc = "undo", job'[k].s \notin dirty'
        PROVE  conf' \cap recorded'[job'[k].s] \cap Reversible \subseteq job'[k].todo
    <3>1. CASE k = j
      <4>1. /\ job'[j].s = r.s /\ job'[j].todo = r.todo \ {c} /\ r.s \notin dirty
            /\ conf' = conf \ {c}
        BY <1>1, <1>6, <1>8, <2>2, <3>1 DEF To
      <4>2. conf \cap recorded[r.s] \cap Reversible \subseteq r.todo
        BY <1>1, <4>1 DEF Restores
      <4> QED
        BY <1>7, <3>1, <4>1, <4>2
    <3>2. CASE k # j
      BY <1>7, <1>8, <1>10, <2>2, <3>2 DEF Restores
    <3> QED
      BY <3>1, <3>2
  <2> QED
    BY <2>1, <2>2 DEF Restores
<1>13. Owed'
  <2>1. NoneOwed
    BY <1>7 DEF NoneOwed, RowTypes
  <2>2. \A k \in Jobs : job[k].pc \in Undoing => job'[k].s = job[k].s /\ job'[k].pc \in Undoing
    BY <1>6, <1>10 DEF To, Undoing
  <2>3. RollbackNotForgotten'
    BY <1>7, <2>1, <2>2, NotForgottenKept DEF Owed
  <2> QED
    BY <1>7, <2>3 DEF Owed
<1> QED
  BY <1>9, <1>10, <1>11, <1>12, <1>13

\* The rollback is recorded.
LEMMA UndoDoneKeeps ==
    ASSUME Inv, NEW j \in Jobs, UndoDone(j)
    PROVE  Inv'
<1> USE DEF Inv
<1> DEFINE s == job[j].s
<1>1. /\ job[j].pc = "undo" /\ s \in Sessions /\ status[s] # "none" /\ job[j].todo = {}
      /\ rbDone' = IF Exists(s) THEN rbDone \cup {s} ELSE rbDone
      /\ job' = [job EXCEPT ![j] = Idle]
  BY DEF UndoDone, JobsOK, JobOK, End
<1>2. To(j, "idle", NoSession, "none", 0, 0, {})
  BY <1>1, Ends
<1>3. /\ heard' = heard /\ marked' = marked /\ late' = late /\ status' = status /\ conf' = conf
      /\ recorded' = recorded /\ rbReq' = rbReq
      /\ overlap' = overlap /\ dirty' = dirty /\ mon' = mon
      /\ rbq' = rbq /\ missed' = missed
  BY DEF UndoDone, End, routerVars, auxVars, counters
<1>4. rbDone' \subseteq Sessions
  BY <1>1 DEF RowTypes
<1>5. RowTypes'
  BY <1>3, <1>4 DEF RowTypes
<1>6. JobTypes' /\ job'[j].pc = "idle" /\ \A k \in Jobs : k # j => job'[k] = job[k]
  BY <1>2 DEF To, Others
<1>7. JobsOK' /\ OneActive' /\ CompletedIsConfigured' /\ Monotone
  BY <1>2, <1>3, <1>5, RollingBack DEF To
<1>8. Restores'
  <2>1. s \notin dirty => conf \cap recorded[s] \cap Reversible = {}
    BY <1>1 DEF Restores
  <2>2. RollbackRestores'
    BY <1>1, <1>3, <2>1 DEF Restores, RollbackRestores
  <2>3. rbDone' \subseteq {t \in Sessions : status'[t] # "none"}
    BY <1>1, <1>3 DEF Restores
  <2>4. \A k \in Jobs : job'[k].pc = "undo" => job'[k] = job[k]
    BY <1>6
  <2> QED
    BY <1>3, <2>2, <2>3, <2>4 DEF Restores
<1>9. Owed'
  <2> SUFFICES ASSUME NEW t \in Sessions, t \in rbReq', t \notin rbDone',
                      status'[t] = "timeout", t \notin rbq' \cup missed'
               PROVE  \E k \in Jobs : job'[k].s = t /\ job'[k].pc \in {"rollback", "undo"}
    BY <1>3, <1>5 DEF Owed, RollbackNotForgotten, RowTypes
  <2>1. t \notin rbDone /\ t # s
    BY <1>1, <1>3 DEF Exists
  <2>2. PICK k \in Jobs : job[k].s = t /\ job[k].pc \in {"rollback", "undo"}
    BY <1>3, <2>1 DEF Owed, RollbackNotForgotten
  <2> QED
    BY <1>6, <2>1, <2>2
<1> QED
  BY <1>5, <1>6, <1>7, <1>8, <1>9

\* A process dies with its job.
LEMMA CrashKeeps ==
    ASSUME Inv, NEW j \in Jobs, Crash(j)
    PROVE  Inv'
<1> USE DEF Inv
<1> DEFINE s == job[j].s
<1>1. /\ job' = [job EXCEPT ![j] = Idle]
      /\ missed' = IF job[j].pc \in Undoing THEN missed \cup {s} ELSE missed
      /\ dirty' = IF job[j].pc = "undo" THEN dirty \cup {s} ELSE dirty
  BY DEF Crash, Undoing
<1>2. To(j, "idle", NoSession, "none", 0, 0, {})
  BY <1>1, Ends
<1>3. /\ heard' = heard /\ marked' = marked /\ late' = late /\ status' = status /\ conf' = conf
      /\ recorded' = recorded /\ rbReq' = rbReq
      /\ overlap' = overlap /\ rbDone' = rbDone /\ mon' = mon
      /\ rbq' = rbq
  BY DEF Crash, routerVars, rowVars
<1>4. job[j].pc \in Undoing => s \in Sessions
  BY DEF JobsOK, JobOK, Undoing
<1>5. /\ dirty' \subseteq Sessions /\ missed' \subseteq Sessions
      /\ dirty \subseteq dirty' /\ missed \subseteq missed'
  BY <1>1, <1>4 DEF RowTypes, Undoing
<1>6. RowTypes'
  BY <1>3, <1>5 DEF RowTypes
<1>7. JobTypes' /\ job'[j].pc = "idle" /\ \A k \in Jobs : k # j => job'[k] = job[k]
  BY <1>2 DEF To, Others
<1>8. JobsOK' /\ OneActive' /\ CompletedIsConfigured' /\ Monotone
  BY <1>2, <1>3, <1>6, RollingBack DEF To
<1>9. Restores'
  BY <1>3, <1>5, <1>7, <1>8, RestoresKept DEF Unspoilt
<1>10. RollbackNotForgotten'
  <2> SUFFICES ASSUME NEW t \in Sessions, t \in rbReq', t \notin rbDone',
                      status'[t] = "timeout", t \notin rbq' \cup missed'
               PROVE  \E k \in Jobs : job'[k].s = t /\ job'[k].pc \in {"rollback", "undo"}
    BY <1>6 DEF RollbackNotForgotten, RowTypes
  <2>1. PICK k \in Jobs : job[k].s = t /\ job[k].pc \in {"rollback", "undo"}
    BY <1>3, <1>5 DEF Owed, RollbackNotForgotten
  <2>2. k # j
    BY <1>1, <2>1 DEF Undoing
  <2> QED
    BY <1>7, <2>1, <2>2
<1> QED
  BY <1>3, <1>5, <1>6, <1>7, <1>8, <1>9, <1>10 DEF Owed

-----------------------------------------------------------------------------
(***************************************************************************)
(* The invariant.                                                          *)
(***************************************************************************)

\* It holds initially.
LEMMA InitInv ==
    ASSUME Init
    PROVE  Inv
<1>1. PICK failed \in SUBSET Sessions :
          /\ status = [s \in Sessions |-> IF s \in failed THEN "failed" ELSE "none"]
          /\ rbReq = failed
  BY DEF Init
<1>2. JobTypes
  BY IdleRec DEF Init, JobTypes
<1>3. RowTypes
  <2>1. mon \in RunRec
    BY DEF Init, NoRun, RunRec
  <2> QED
    BY <1>1, <2>1 DEF Init, RowTypes, Status
<1>4. \A j \in Jobs : job[j].pc = "idle"
  BY IdleRec DEF Init
<1>5. JobsOK
  BY <1>4 DEF JobsOK, JobOK, Working
<1>6. OneActive
  BY <1>1 DEF OneActive, Active, ActiveStatus
<1>7. CompletedIsConfigured
  BY <1>1 DEF Init, CompletedIsConfigured
<1>8. Restores
  BY <1>4 DEF Init, Restores, RollbackRestores
<1>9. Owed
  <2>1. \A s \in Sessions : status[s] # "timeout"
    BY <1>1
  <2>2. mon.pc = "idle"
    BY DEF Init, NoRun
  <2> QED
    BY <1>1, <2>1, <2>2 DEF Owed, RollbackNotForgotten
<1> QED
  BY <1>2, <1>3, <1>5, <1>6, <1>7, <1>8, <1>9 DEF Inv

\* Every step preserves it.
LEMMA NextInv ==
    ASSUME Inv, [Next]_vars
    PROVE  Inv'
<1>1. ASSUME NEW j \in Jobs, Start(j)
      PROVE  Inv'
  BY <1>1, CreateCheckKeeps, create_provisioning_sessionKeeps, RetryLoadKeeps,
     retry_provisioningKeeps, StartLoadKeeps, StartCommitKeeps, AgentPathFailsKeeps, StartByAgentKeeps,
     StartByCheckinKeeps, StartUnreachableKeeps, StartDirectKeeps
  DEF Start
<1>2. ASSUME NEW j \in Jobs, Workflow(j)
      PROVE  Inv'
  BY <1>2, cleanup_existing_provisioningKeeps, CommandSucceedsKeeps, CommandFailsKeeps,
     VerifyKeeps, mark_provisioning_completeKeeps, StepRaisesKeeps
  DEF Workflow
<1>3. ASSUME NEW j \in Jobs, Rollback(j)
      PROVE  Inv'
  BY <1>3, CancelLoadKeeps, cancel_provisioningKeeps, RollbackTaskKeeps,
     _execute_rollbackKeeps, UndoKeeps, UndoDoneKeeps
  DEF Rollback
<1>4. ASSUME RouterReports
      PROVE  Inv'
  BY <1>4, RunScriptKeeps, provisioning_script_completeKeeps, store_router_credentialsKeeps,
     provisioning_notifyKeeps, register_device_checkinKeeps
  DEF RouterReports
<1>5. ASSUME UNCHANGED vars
      PROVE  Inv'
  <2>1. Calm /\ job' = job
    BY <1>5, StillIsCalm DEF vars, routerVars, counters, Inv
  <2> QED
    BY <2>1, CalmRest
<1> QED
  BY <1>1, <1>2, <1>3, <1>4, <1>5, CrashKeeps, MonitorKeeps, delete_sessionKeeps,
     TimePassesKeeps
  DEF Next

\* The inductive invariant holds throughout.
THEOREM ProvisioningInvariant == Spec => []Inv
<1>1. Init => Inv
  BY InitInv
<1>2. Inv /\ [Next]_vars => Inv'
  BY NextInv
<1> QED
  BY <1>1, <1>2, PTL DEF Spec

-----------------------------------------------------------------------------
(***************************************************************************)
(* What it says of sessions and rollbacks.                                 *)
(***************************************************************************)

\* Rows and tasks fit together, and one session works on a router at a time,
\* unless one of the known races of create_provisioning_session,
\* retry_provisioning and start_provisioning has let in a second one.
THEOREM SessionsAreSound == Spec => []SessionInv
<1>1. Inv => ProvisioningTypeOK
  BY DEF Inv, ProvisioningTypeOK, RowTypes, Status, JobsOK, JobOK, Working, Restores
<1>2. Inv => OneActiveSession
  <2> SUFFICES ASSUME Inv, overlap = {}
               PROVE  ~ (Cardinality(Active) > 1)
    BY DEF OneActiveSession
  <2>1. CASE Active = {}
    BY <2>1, FS_EmptySet
  <2>2. CASE Active # {}
    <3>1. PICK s \in Active : Active = {s}
      BY <2>2 DEF Inv, OneActive
    <3>2. Cardinality({s}) = 1
      BY FS_Singleton
    <3> QED
      BY <3>1, <3>2
  <2> QED
    BY <2>1, <2>2
<1> QED
  BY <1>1, <1>2, ProvisioningInvariant, PTL DEF SessionInv

\* The rollback that monitor_provisioning_sessions owes a timed-out session is
\* done, under way, waiting or known to have been given up, and a rollback that
\* _execute_rollback has recorded left nothing of the session on the router.
THEOREM RollbacksAreKept == Spec => []RollbackInv
<1>1. Inv => RollbackInv
  BY DEF Inv, RollbackInv, Owed, Restores
<1> QED
  BY <1>1, ProvisioningInvariant, PTL

\* A step that only writes the session of a job that has an old copy of it.
LEMMA CopyWrites ==
    ASSUME NEW j \in Jobs, job[j].mem \in ActiveStatus \cup {"failed"},
           NEW to, status' = status \/ Write(job[j].s, to), Inv
    PROVE  \A s \in Sessions : status'[s] # status[s] => HeldCopy(s)
  BY DEF HeldCopy, Write, Inv, RowTypes

\* An ended session changes only as EndedIsFinal says.
LEMMA EndedStep ==
    ASSUME Inv, Next, NEW s \in Sessions, status[s] \in Final, status'[s] # status[s]
    PROVE  HeldCopy(s) \/ s \in heard' \/ status'[s] = "gone"
<1> USE DEF Inv
<1>1. ASSUME NEW j \in Jobs, Start(j)
      PROVE  HeldCopy(s)
  <2>1. JobOK(j)
    BY DEF JobsOK
  <2>2. CASE retry_provisioning(j)
    BY <2>1, <2>2, CopyWrites DEF retry_provisioning, JobOK
  <2>3. CASE StartCommit(j)
    BY <2>1, <2>3, CopyWrites DEF StartCommit, JobOK, ActiveStatus
  <2>4. CASE StartByCheckin(j)
    BY <2>1, <2>4, CopyWrites DEF StartByCheckin, JobOK, ActiveStatus
  <2>5. CASE StartUnreachable(j)
    BY <2>1, <2>5, CopyWrites DEF StartUnreachable, JobOK, ActiveStatus
  <2>6. CASE \E t \in Sessions : create_provisioning_session(j, t)
    BY <2>6 DEF create_provisioning_session, RowTypes, Final
  <2>7. CASE \/ \E only \in BOOLEAN : CreateCheck(j, only)
             \/ \E t \in Sessions : RetryLoad(j, t)
             \/ \E queued \in BOOLEAN : AgentPathFails(j, queued)
             \/ StartLoad(j) \/ StartByAgent(j) \/ StartDirect(j)
    BY <2>7 DEF CreateCheck, RetryLoad, AgentPathFails, StartLoad, StartByAgent, StartDirect,
                rowVars
  <2> QED
    BY <1>1, <2>2, <2>3, <2>4, <2>5, <2>6, <2>7 DEF Start
<1>2. ASSUME NEW j \in Jobs, Workflow(j)
      PROVE  HeldCopy(s)
  <2>1. JobOK(j)
    BY DEF JobsOK
  <2>2. CASE \E effect \in BOOLEAN : CommandFails(j, effect)
    BY <2>1, <2>2, CopyWrites DEF CommandFails, StepFails, JobOK, ActiveStatus, Working
  <2>3. CASE Verify(j)
    <3>1. \E to \in Status : Write(job[j].s, to)
      BY <2>3 DEF Verify, StepFails, Status, Final
    <3> QED
      BY <2>1, <2>3, <3>1, CopyWrites DEF Verify, JobOK, ActiveStatus, Working
  <2>4. CASE StepRaises(j)
    BY <2>1, <2>4, CopyWrites DEF StepRaises, StepFails, JobOK, ActiveStatus, Working
  <2>5. CASE \/ \E ok \in BOOLEAN : cleanup_existing_provisioning(j, ok)
             \/ CommandSucceeds(j) \/ mark_provisioning_complete(j)
    BY <2>5 DEF cleanup_existing_provisioning, CommandSucceeds, mark_provisioning_complete,
                rowVars
  <2> QED
    BY <1>2, <2>2, <2>3, <2>4, <2>5 DEF Workflow
<1>3. ASSUME NEW j \in Jobs, Rollback(j)
      PROVE  HeldCopy(s)
  <2>1. JobOK(j)
    BY DEF JobsOK
  <2>2. CASE cancel_provisioning(j)
    BY <2>1, <2>2, CopyWrites, SMTT(60) DEF cancel_provisioning, JobOK
  <2>3. CASE ~ cancel_provisioning(j)
    BY <1>3, <2>3 DEF Rollback, CancelLoad, RollbackTask, _execute_rollback, Undo, UndoDone,
                      rowVars
  <2> QED
    BY <2>2, <2>3
<1>4. ASSUME RouterReports
      PROVE  s \in heard'
  <2>1. ASSUME NEW j \in Jobs, NEW t \in Sessions, NEW word,
               provisioning_script_complete(j, t, word)
        PROVE  s \in heard'
    BY <2>1 DEF provisioning_script_complete, Write, RowTypes
  <2>2. ASSUME NEW j \in Jobs, provisioning_notify(j)
        PROVE  s \in heard'
    <3>1. JobOK(j)
      BY DEF JobsOK
    <3> QED
      BY <2>2, <3>1 DEF provisioning_notify, Write, RowTypes, JobOK, auxVars
  <2>3. CASE \/ \E t \in Sessions : \E done \in SUBSET Commands : RunScript(t, done)
             \/ \E j \in Jobs, t \in Sessions, stored \in BOOLEAN :
                   store_router_credentials(j, t, stored)
             \/ \E stored, kept \in BOOLEAN : register_device_checkin(stored, kept)
    BY <2>3 DEF RunScript, store_router_credentials, register_device_checkin, rowVars
  <2> QED
    BY <1>4, <2>1, <2>2, <2>3 DEF RouterReports
<1>5. ASSUME Monitor
      PROVE  HeldCopy(s)
  BY <1>5 DEF Monitor, MonitorLoad, MonitorSend, MonitorCommit, rowVars, HeldCopy
<1>6. ASSUME NEW t \in Sessions, delete_session(t)
      PROVE  status'[s] = "gone"
  BY <1>6 DEF delete_session, RowTypes
<1>7. ASSUME NEW t \in Sessions, TimePasses(t)
      PROVE  FALSE
  BY <1>7 DEF TimePasses
<1>8. ASSUME NEW j \in Jobs, Crash(j)
      PROVE  FALSE
  BY <1>8 DEF Crash, rowVars
<1> QED
  BY <1>1, <1>2, <1>3, <1>4, <1>5, <1>6, <1>7, <1>8 DEF Next

\* A session that is completed, cancelled or timed out stays so, unless the
\* router reports, the row is deleted, or a task goes on with an old copy.
THEOREM EndedStaysEnded == Spec => EndedIsFinal
<1>1. Inv /\ [Next]_vars =>
          [\A s \in Sessions :
              status[s] \in Final /\ status'[s] # status[s]
              => HeldCopy(s) \/ s \in heard' \/ status'[s] = "gone"]_vars
  BY EndedStep
<1> QED
  BY <1>1, ProvisioningInvariant, PTL DEF Spec, EndedIsFinal

\* A session is completed, and the router marked provisioned, only once every
\* critical command is recorded as a success, or on the router's own word
\* (provisioning_notify, provisioning_script_complete, an earlier check-in).
THEOREM CompletedMeansConfigured == Spec => []CompletedIsConfigured
<1>1. Inv => CompletedIsConfigured
  BY DEF Inv
<1> QED
  BY <1>1, ProvisioningInvariant, PTL
=============================================================================
