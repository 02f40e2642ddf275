-------------------------- MODULE RouterSyncProofs --------------------------
(***************************************************************************)
(* Proofs about RouterCommandQueue, for any commands, runs, priorities and *)
(* limits, and, on top of them, about SubscriptionRouterSync, for any      *)
(* number of subscriptions and handlers too.                               *)
(***************************************************************************)
EXTENDS SubscriptionRouterSync, SequenceTheorems, FiniteSetTheorems, TLAPS

-----------------------------------------------------------------------------
(***************************************************************************)
(* Facts about the operators the actions are built from.                   *)
(***************************************************************************)

\* Whatever the select returns is a non-empty sequence of commands.
LEMMA BatchIsSeq ==
    ASSUME NEW s \in Batches
    PROVE  s \in Seq(Commands) /\ s # << >>
<1>1. PICK n \in 1 .. MaxPerPoll : s \in [1 .. n -> Commands]
  BY DEF Batches
<1>2. n \in Nat /\ n >= 1
  BY QueueAssumption
<1>3. s \in Seq(Commands) /\ Len(s) = n
  BY <1>1, <1>2
<1> QED
  BY <1>2, <1>3

\* The tail of a batch that is not at its last command is a non-empty batch.
LEMMA TailOfBatch ==
    ASSUME NEW s \in Seq(Commands), s # << >>
    PROVE  /\ Tail(s) \in Seq(Commands)
           /\ Len(s) # 1 => Tail(s) # << >>
           /\ Head(s) \in Commands
<1>1. Head(s) \in Commands /\ Tail(s) \in Seq(Commands)
  BY HeadTailProperties
<1>2. Len(Tail(s)) = Len(s) - 1 /\ Len(s) \in Nat /\ Len(s) # 0
  BY HeadTailProperties, LenProperties, EmptySeq
<1>3. Tail(s) = << >> => Len(Tail(s)) = 0
  BY EmptySeq
<1> QED
  BY <1>1, <1>2, <1>3

\* A report turns a row into a row that is a success, failed or pending.
LEMMA ResultRow ==
    ASSUME NEW row \in Row, NEW result \in Outcomes
    PROVE  /\ process_command_result(row, result) \in Row
           /\ process_command_result(row, result).status
                 \in {"success", "failed", "pending"}
<1> DEFINE new == process_command_result(row, result)
<1>1. row.sent_at \in Nat \cup {NULL} /\ row.retry_count \in Nat
  BY DEF Row
<1> SUFFICES new \in Row /\ new.status \in {"success", "failed", "pending"}
  OBVIOUS
<1>2. CASE result = "success"
  <2>1. new = [row EXCEPT !.status = "success"]
    BY <1>2 DEF process_command_result
  <2> HIDE DEF new
  <2> QED
    BY <2>1, <1>1 DEF Row, CommandStatus
<1>3. CASE result # "success" /\ row.retry_count + 1 >= MaxRetries
  <2>1. new = [status |-> "failed", sent_at |-> row.sent_at,
               retry_count |-> row.retry_count + 1]
    BY <1>3 DEF process_command_result
  <2> HIDE DEF new
  <2> QED
    BY <2>1, <1>1 DEF Row, CommandStatus
<1>4. CASE result # "success" /\ ~ (row.retry_count + 1 >= MaxRetries)
  <2>1. new = [status |-> "pending", sent_at |-> NULL,
               retry_count |-> row.retry_count + 1]
    BY <1>4 DEF process_command_result
  <2> HIDE DEF new
  <2> QED
    BY <2>1, <1>1 DEF Row, CommandStatus
<1> QED
  BY <1>2, <1>3, <1>4

-----------------------------------------------------------------------------
(***************************************************************************)
(* Type correctness.                                                       *)
(***************************************************************************)

\* The first state is of the type.
LEMMA InitTypeOK == Init => TypeOK
BY QueueAssumption DEF Init, TypeOK, CommandStatus, Outcomes, Row, NoRow, NULL

\* Every step keeps the type.
LEMMA NextTypeOK == TypeOK /\ [Next]_vars => TypeOK'
<1> SUFFICES ASSUME TypeOK, [Next]_vars PROVE TypeOK'
  OBVIOUS
<1> USE QueueAssumption
<1>1. ASSUME NEW c \in Commands, NEW p \in Priorities, queue_command(c, p)
      PROVE  TypeOK'
  BY <1>1 DEF queue_command, agentVars, TypeOK, CommandStatus
<1>2. ASSUME NEW r \in Runs, PollSelect(r) PROVE TypeOK'
  <2>1. PICK s \in Batches :
          /\ batch' = [batch EXCEPT ![r] = s]
          /\ shared' = shared \cup (Range(s) \cap HeldByOthers(r))
    BY <1>2 DEF PollSelect
  <2>2. s \in Seq(Commands) /\ s # << >>
    BY BatchIsSeq
  <2>3. shared' \subseteq Commands
    BY <2>1, <2>2 DEF Range, TypeOK
  <2> QED
    BY <1>2, <2>1, <2>2, <2>3 DEF PollSelect, rowVars, TypeOK
<1>3. ASSUME NEW r \in Runs, NEW answered \in BOOLEAN, PollCommit(r, answered)
      PROVE  TypeOK'
  BY <1>3, SMTT(60) DEF PollCommit, mark_commands_sent, TypeOK, CommandStatus
<1>4. ASSUME NEW r \in Runs, PollAbort(r) PROVE TypeOK'
  BY <1>4 DEF PollAbort, rowVars, TypeOK
<1>5. ASSUME NEW r \in Runs, NEW o \in Outcomes, Execute(r, o) PROVE TypeOK'
  <2>1. Head(batch[r]) \in Commands
    BY <1>5, TailOfBatch DEF Execute, TypeOK
  <2> QED
    BY <1>5, <2>1, SMTT(60) DEF Execute, rowVars, TypeOK
<1>6. ASSUME NEW r \in Runs, ReportLoad(r) PROVE TypeOK'
  <2>1. Head(batch[r]) \in Commands
    BY <1>6, TailOfBatch DEF ReportLoad, TypeOK
  <2> QED
    BY <1>6, <2>1 DEF ReportLoad, rowVars, TypeOK, Row
<1>7. ASSUME NEW r \in Runs, ReportCommit(r) PROVE TypeOK'
  <2> DEFINE c   == Head(batch[r])
             new == process_command_result(loaded[r], outcome[r])
  <2>1. batch[r] \in Seq(Commands) /\ batch[r] # << >>
    BY <1>7 DEF ReportCommit, TypeOK
  <2>2. c \in Commands /\ Tail(batch[r]) \in Seq(Commands)
        /\ (Len(batch[r]) # 1 => Tail(batch[r]) # << >>)
    BY <2>1, TailOfBatch
  <2>3. new \in Row /\ new.status \in CommandStatus
    <3>1. loaded[r] \in Row /\ outcome[r] \in Outcomes
      BY DEF TypeOK
    <3> QED
      BY <3>1, ResultRow DEF CommandStatus
  <2>4. /\ status' = [status EXCEPT ![c] = Flush(@, loaded[r].status, new.status)]
        /\ sent_at' = [sent_at EXCEPT ![c] = Flush(@, loaded[r].sent_at, new.sent_at)]
        /\ retry_count' = [retry_count EXCEPT
                             ![c] = Flush(@, loaded[r].retry_count, new.retry_count)]
    BY <1>7 DEF ReportCommit
  <2> HIDE DEF c, new
  <2>5. /\ status' \in [Commands -> CommandStatus \cup {"none"}]
        /\ sent_at' \in [Commands -> Nat \cup {NULL}]
        /\ retry_count' \in [Commands -> Nat]
    BY <2>2, <2>3, <2>4 DEF TypeOK, Flush, Row
  <2> QED
    BY <1>7, <2>1, <2>2, <2>5, ZenonT(60)
    DEF ReportCommit, NextCommand, TypeOK, Outcomes, Row, NoRow
<1>8. ASSUME NEW r \in Runs, ReportLost(r) PROVE TypeOK'
  <2>1. Tail(batch[r]) \in Seq(Commands)
        /\ (Len(batch[r]) # 1 => Tail(batch[r]) # << >>)
    BY <1>8, TailOfBatch DEF ReportLost, TypeOK
  <2> QED
    BY <1>8, <2>1 DEF ReportLost, NextCommand, rowVars, TypeOK, Outcomes, Row, NoRow
<1>9. ASSUME NEW r \in Runs, Reboot(r) PROVE TypeOK'
  BY <1>9 DEF Reboot, rowVars, TypeOK, Outcomes
<1>10. ASSUME Cleanup PROVE TypeOK'
  BY <1>10 DEF Cleanup, cleanup_expired_commands, reset_stale_sent_commands,
               CleanupFails, rowVars, agentVars, TypeOK, CommandStatus
<1>11. ASSUME Tick PROVE TypeOK'
  BY <1>11 DEF Tick, rowVars, agentVars, TypeOK
<1>12. CASE UNCHANGED vars
  BY <1>12 DEF vars, rowVars, agentVars, TypeOK
<1> QED
  BY <1>1, <1>2, <1>3, <1>4, <1>5, <1>6, <1>7, <1>8, <1>9, <1>10, <1>11, <1>12
  DEF Next, RunStep

\* Every column keeps its type, and a run that has been handed a batch always
\* has a command in hand, however handle_poll, the reports and the cleanup task
\* interleave.
THEOREM TypeCorrect == Spec => []TypeOK
<1>1. Init => TypeOK
  BY InitTypeOK
<1>2. TypeOK /\ [Next]_vars => TypeOK'
  BY NextTypeOK
<1> QED
  BY <1>1, <1>2, PTL DEF Spec

-----------------------------------------------------------------------------
(***************************************************************************)
(* A success is never invented.  The invariant is inductive once it also   *)
(* says what a run that has a success to report has done.                  *)
(***************************************************************************)

\* A run that holds a successful outcome has executed the command in its hand.
OutcomeIsEarned ==
    \A r \in Runs : pc[r] \in {"executed", "loaded"} /\ outcome[r] = "success"
                        => Head(batch[r]) \in executed

\* Only a reported success turns a row into a success.
LEMMA OnlySuccessSucceeds ==
    ASSUME NEW row \in Row, NEW result \in Outcomes,
           process_command_result(row, result).status = "success"
    PROVE  result = "success"
<1> SUFFICES ASSUME result # "success" PROVE FALSE
  OBVIOUS
<1> QED
  BY DEF process_command_result, Row

\* A success is still backed by an execution after every step.
LEMMA NextSuccess ==
    TypeOK /\ SuccessMeansExecuted /\ OutcomeIsEarned /\ [Next]_vars
        => SuccessMeansExecuted' /\ OutcomeIsEarned'
<1> SUFFICES ASSUME TypeOK, SuccessMeansExecuted, OutcomeIsEarned, [Next]_vars
             PROVE  SuccessMeansExecuted' /\ OutcomeIsEarned'
  OBVIOUS
<1> USE DEF SuccessMeansExecuted, OutcomeIsEarned
<1>1. ASSUME NEW c \in Commands, NEW p \in Priorities, queue_command(c, p)
      PROVE  SuccessMeansExecuted' /\ OutcomeIsEarned'
  BY <1>1 DEF queue_command, agentVars, TypeOK
<1>2. ASSUME NEW r \in Runs, PollSelect(r)
      PROVE  SuccessMeansExecuted' /\ OutcomeIsEarned'
  <2>1. PICK s \in Batches : batch' = [batch EXCEPT ![r] = s]
    BY <1>2 DEF PollSelect
  <2> QED
    BY <1>2, <2>1 DEF PollSelect, rowVars, TypeOK
<1>3. ASSUME NEW r \in Runs, NEW answered \in BOOLEAN, PollCommit(r, answered)
      PROVE  SuccessMeansExecuted' /\ OutcomeIsEarned'
  BY <1>3 DEF PollCommit, mark_commands_sent, TypeOK
<1>4. ASSUME NEW r \in Runs, PollAbort(r) \/ Reboot(r)
      PROVE  SuccessMeansExecuted' /\ OutcomeIsEarned'
  BY <1>4, ZenonT(60) DEF PollAbort, Reboot, rowVars, TypeOK
<1>5. ASSUME NEW r \in Runs, NEW o \in Outcomes, Execute(r, o)
      PROVE  SuccessMeansExecuted' /\ OutcomeIsEarned'
  BY <1>5 DEF Execute, rowVars, TypeOK
<1>6. ASSUME NEW r \in Runs, ReportLoad(r)
      PROVE  SuccessMeansExecuted' /\ OutcomeIsEarned'
  BY <1>6 DEF ReportLoad, rowVars, TypeOK
<1>7. ASSUME NEW r \in Runs, ReportCommit(r)
      PROVE  SuccessMeansExecuted' /\ OutcomeIsEarned'
  <2> DEFINE c   == Head(batch[r])
             new == process_command_result(loaded[r], outcome[r])
  <2>1. status' = [status EXCEPT ![c] = Flush(@, loaded[r].status, new.status)]
    BY <1>7 DEF ReportCommit
  <2>2. new.status = "success" => c \in executed
    <3>1. loaded[r] \in Row /\ outcome[r] \in Outcomes
      BY DEF TypeOK
    <3> QED
      BY <1>7, <3>1, OnlySuccessSucceeds DEF ReportCommit
  <2> HIDE DEF c, new
  <2>3. SuccessMeansExecuted'
    BY <1>7, <2>1, <2>2 DEF ReportCommit, Flush, TypeOK
  <2> QED
    BY <1>7, <2>3 DEF ReportCommit, NextCommand, TypeOK
<1>8. ASSUME NEW r \in Runs, ReportLost(r)
      PROVE  SuccessMeansExecuted' /\ OutcomeIsEarned'
  BY <1>8 DEF ReportLost, NextCommand, rowVars, TypeOK
<1>9. ASSUME Cleanup PROVE SuccessMeansExecuted' /\ OutcomeIsEarned'
  BY <1>9 DEF Cleanup, cleanup_expired_commands, reset_stale_sent_commands,
              CleanupFails, rowVars, agentVars, TypeOK
<1>10. ASSUME Tick PROVE SuccessMeansExecuted' /\ OutcomeIsEarned'
  BY <1>10 DEF Tick, rowVars, agentVars
<1>11. CASE UNCHANGED vars
  BY <1>11 DEF vars, rowVars, agentVars
<1> QED
  BY <1>1, <1>2, <1>3, <1>4, <1>5, <1>6, <1>7, <1>8, <1>9, <1>10, <1>11
  DEF Next, RunStep

\* However many agent runs overlap, and whatever is lost, resent or reset, a row
\* of router_commands is marked success only for a command that a run executed.
THEOREM SuccessIsEarned == Spec => []SuccessMeansExecuted
<1>1. Init => SuccessMeansExecuted /\ OutcomeIsEarned
  BY DEF Init, SuccessMeansExecuted, OutcomeIsEarned
<1> QED
  BY <1>1, TypeCorrect, NextSuccess, PTL DEF Spec

-----------------------------------------------------------------------------
(***************************************************************************)
(* What is in a batch is in the table, and stays there.                    *)
(***************************************************************************)

\* Every command of a batch is a row of the table.
BatchIsQueued ==
    \A r \in Runs : \A i \in DOMAIN batch[r] : status[batch[r][i]] # "none"

\* The elements of a tail.
LEMMA TailElements ==
    ASSUME NEW s \in Seq(Commands), s # << >>, NEW i \in DOMAIN Tail(s)
    PROVE  i \in Nat /\ i + 1 \in DOMAIN s /\ Tail(s)[i] = s[i + 1]
<1>1. Tail(s) \in Seq(Commands) /\ Len(Tail(s)) = Len(s) - 1
      /\ \A j \in 1 .. Len(Tail(s)) : Tail(s)[j] = s[j + 1]
  BY HeadTailProperties
<1>2. DOMAIN Tail(s) = 1 .. Len(Tail(s)) /\ DOMAIN s = 1 .. Len(s) /\ Len(s) \in Nat
  BY <1>1, LenProperties
<1> QED
  BY <1>1, <1>2

\* What is left of a batch after its first command is queued.
LEMMA NextCommandQueued ==
    ASSUME TypeOK, BatchIsQueued, NEW r \in Runs,
           pc[r] # "idle", NextCommand(r),
           \A c \in Commands : status[c] # "none" => status'[c] # "none"
    PROVE  BatchIsQueued'
<1>1. batch[r] \in Seq(Commands) /\ batch[r] # << >>
  BY DEF TypeOK
<1>2. batch' = [batch EXCEPT ![r] = Tail(batch[r])]
  BY DEF NextCommand
<1>3. \A i \in DOMAIN Tail(batch[r]) :
        i \in Nat /\ i + 1 \in DOMAIN batch[r] /\ Tail(batch[r])[i] = batch[r][i + 1]
  BY <1>1, TailElements
<1>4. \A q \in Runs : q # r => batch'[q] = batch[q]
  BY <1>2 DEF TypeOK
<1>5. batch'[r] = Tail(batch[r])
  BY <1>2 DEF TypeOK
<1>6. \A q \in Runs : \A i \in DOMAIN batch[q] : batch[q][i] \in Commands
  BY DEF TypeOK
<1>7. BatchIsQueued'
  <2>1. ASSUME NEW i \in DOMAIN Tail(batch[r]) PROVE status'[Tail(batch[r])[i]] # "none"
    BY <1>3, <1>6 DEF BatchIsQueued
  <2>2. ASSUME NEW q \in Runs, NEW i \in DOMAIN batch[q] PROVE status'[batch[q][i]] # "none"
    BY <1>6 DEF BatchIsQueued
  <2>3. ASSUME NEW q \in Runs, NEW i \in DOMAIN batch'[q] PROVE status'[batch'[q][i]] # "none"
    BY <1>4, <1>5, <2>1, <2>2, ZenonT(60)
  <2> QED
    BY <2>3 DEF BatchIsQueued
<1> QED
  BY <1>7

\* Every step keeps the commands of the batches in the table.
LEMMA NextQueued ==
    TypeOK /\ BatchIsQueued /\ [Next]_vars
        => BatchIsQueued'
<1> SUFFICES ASSUME TypeOK, BatchIsQueued, [Next]_vars
             PROVE  BatchIsQueued'
  OBVIOUS
<1>0. \A q \in Runs : \A i \in DOMAIN batch[q] : batch[q][i] \in Commands
  BY DEF TypeOK
<1>1. ASSUME NEW c \in Commands, NEW p \in Priorities, queue_command(c, p)
      PROVE  BatchIsQueued'
  <2>1. \A q \in Runs : \A i \in DOMAIN batch[q] : batch[q][i] # c
    BY <1>1 DEF queue_command, BatchIsQueued
  <2>2. \A d \in Commands : d # c => /\ priority'[d] = priority[d]
                                     /\ created_at'[d] = created_at[d]
                                     /\ status'[d] = status[d]
    BY <1>1 DEF queue_command, TypeOK
  <2>3. batch' = batch
    BY <1>1 DEF queue_command, agentVars
  <2> QED
    BY <1>0, <2>1, <2>2, <2>3 DEF BatchIsQueued
<1>2. ASSUME NEW r \in Runs, PollSelect(r)
      PROVE  BatchIsQueued'
  <2>1. PICK s \in Batches :
          get_pending_commands(s) /\ batch' = [batch EXCEPT ![r] = s]
    BY <1>2 DEF PollSelect
  <2>3. \A i \in DOMAIN s : status[s[i]] # "none"
    BY <2>1 DEF get_pending_commands, Pollable, Range
  <2>4. UNCHANGED <<status, priority, created_at>>
    BY <1>2 DEF PollSelect, rowVars
  <2>5. batch'[r] = s /\ \A q \in Runs : q # r => batch'[q] = batch[q]
    BY <2>1 DEF TypeOK
  <2> QED
    BY <2>3, <2>4, <2>5 DEF BatchIsQueued
<1>3. ASSUME NEW r \in Runs, NEW answered \in BOOLEAN, PollCommit(r, answered)
      PROVE  BatchIsQueued'
  <2>1. \A c \in Commands : status[c] # "none" => status'[c] # "none"
    BY <1>3 DEF PollCommit, mark_commands_sent
  <2>2. \A q \in Runs : batch'[q] = batch[q] \/ batch'[q] = << >>
    BY <1>3 DEF PollCommit, TypeOK
  <2>3. UNCHANGED <<priority, created_at>>
    BY <1>3 DEF PollCommit
  <2> QED
    BY <1>0, <2>1, <2>2, <2>3 DEF BatchIsQueued
<1>4. ASSUME NEW r \in Runs, PollAbort(r) \/ Reboot(r)
      PROVE  BatchIsQueued'
  <2>1. \A q \in Runs : batch'[q] = batch[q] \/ batch'[q] = << >>
    BY <1>4 DEF PollAbort, Reboot, TypeOK
  <2>2. UNCHANGED rowVars
    BY <1>4 DEF PollAbort, Reboot
  <2> QED
    BY <2>1, <2>2 DEF BatchIsQueued, rowVars
<1>5. ASSUME NEW r \in Runs, ReportCommit(r)
      PROVE  BatchIsQueued'
  <2> DEFINE new == process_command_result(loaded[r], outcome[r])
  <2>1. new.status # "none"
    <3>1. loaded[r] \in Row /\ outcome[r] \in Outcomes
      BY DEF TypeOK
    <3> QED
      BY <3>1, ResultRow
  <2>2. status' = [status EXCEPT ![Head(batch[r])] =
                     Flush(@, loaded[r].status, new.status)]
    BY <1>5 DEF ReportCommit
  <2> HIDE DEF new
  <2>3. \A c \in Commands : status[c] # "none" => status'[c] # "none"
    BY <2>1, <2>2 DEF Flush, TypeOK
  <2> QED
    BY <1>5, <2>3, NextCommandQueued DEF ReportCommit
<1>6. ASSUME NEW r \in Runs, ReportLost(r)
      PROVE  BatchIsQueued'
  BY <1>6, NextCommandQueued DEF ReportLost, rowVars
<1>7. ASSUME Cleanup PROVE BatchIsQueued'
  <2>1. \A c \in Commands : status[c] # "none" => status'[c] # "none"
    BY <1>7 DEF Cleanup, cleanup_expired_commands, reset_stale_sent_commands,
                CleanupFails, rowVars
  <2>2. UNCHANGED <<priority, created_at, batch>>
    BY <1>7 DEF Cleanup, cleanup_expired_commands, reset_stale_sent_commands,
                CleanupFails, rowVars, agentVars
  <2> QED
    BY <1>0, <2>1, <2>2 DEF BatchIsQueued
<1>8. ASSUME UNCHANGED <<status, priority, created_at, batch>>
      PROVE  BatchIsQueued'
  BY <1>8 DEF BatchIsQueued
<1>9. CASE \/ \E r \in Runs : ReportLoad(r) \/ (\E o \in Outcomes : Execute(r, o))
           \/ Tick
           \/ UNCHANGED vars
  BY <1>8, <1>9 DEF ReportLoad, Execute, Tick, vars, rowVars, agentVars
<1> QED
  BY <1>1, <1>2, <1>3, <1>4, <1>5, <1>6, <1>7, <1>9 DEF Next, RunStep


-----------------------------------------------------------------------------
(***************************************************************************)
(* The retry budget and the finality of results, for the commands that no  *)
(* two runs have held at the same time.  For a shared command both fail: a *)
(* report can then be written from a row that another run's report has     *)
(* already settled.  When agent runs do not overlap nothing is shared.     *)
(***************************************************************************)

SingleRun == \A r, q \in Runs : r = q

Settled == {"success", "failed"}

\* Only a failed row has used up its attempts.
Attempts ==
    \A c \in Commands \ shared :
        /\ status[c] # "failed" => retry_count[c] < MaxRetries
        /\ status[c] = "failed" => retry_count[c] = MaxRetries

\* No command is twice in a batch, and none of a batch is settled.
BatchUnsettled ==
    \A r \in Runs :
        /\ \A i, j \in DOMAIN batch[r] : batch[r][i] = batch[r][j] => i = j
        /\ \A i \in DOMAIN batch[r] :
              batch[r][i] \notin shared => status[batch[r][i]] \notin Settled

\* A command that is in two batches is shared.
HeldOnce ==
    \A r, q \in Runs : \A i \in DOMAIN batch[r], j \in DOMAIN batch[q] :
        batch[r][i] = batch[q][j] /\ batch[r][i] \notin shared => r = q

\* What a report handler has loaded is not stale where it matters.
LoadedIsFresh ==
    \A r \in Runs : pc[r] = "loaded" /\ Head(batch[r]) \notin shared =>
        /\ loaded[r].retry_count = retry_count[Head(batch[r])]
        /\ loaded[r].status \notin Settled

BudgetInv == Attempts /\ BatchUnsettled /\ HeldOnce /\ LoadedIsFresh

\* The step changes no settled row.
SettledStays ==
    \A c \in Commands \ shared' : status[c] \in Settled =>
        status'[c] = status[c] /\ retry_count'[c] = retry_count[c]

\* What a report does to the row it was loaded from.
LEMMA ResultBudget ==
    ASSUME NEW row \in Row, NEW result \in Outcomes,
           row.retry_count < MaxRetries, row.status \notin Settled,
           NEW new, new = process_command_result(row, result)
    PROVE  \/ new.status = "success" /\ new.retry_count = row.retry_count
           \/ new.status = "failed" /\ new.retry_count = MaxRetries
                                    /\ new.retry_count # row.retry_count
           \/ new.status = "pending" /\ new.retry_count < MaxRetries
                                     /\ new.retry_count # row.retry_count
<1>1. row.sent_at \in Nat \cup {NULL} /\ row.retry_count \in Nat
  BY DEF Row
<1>2. CASE result = "success"
  <2>1. new = [row EXCEPT !.status = "success"]
    BY <1>2 DEF process_command_result
  <2> QED
    BY <2>1 DEF Row
<1>3. CASE result # "success" /\ row.retry_count + 1 >= MaxRetries
  <2>1. new = [status |-> "failed", sent_at |-> row.sent_at,
               retry_count |-> row.retry_count + 1]
    BY <1>3 DEF process_command_result
  <2>2. row.retry_count + 1 = MaxRetries
    BY <1>1, <1>3, QueueAssumption
  <2> QED
    BY <1>1, <2>1, <2>2, QueueAssumption DEF Row
<1>4. CASE result # "success" /\ ~ (row.retry_count + 1 >= MaxRetries)
  <2>1. new = [status |-> "pending", sent_at |-> NULL,
               retry_count |-> row.retry_count + 1]
    BY <1>4 DEF process_command_result
  <2> QED
    BY <1>1, <1>4, <2>1, QueueAssumption
<1> QED
  BY <1>2, <1>3, <1>4

\* The first command of a batch is not in the rest of it.
LEMMA NextCommandUnsettled ==
    ASSUME TypeOK, BudgetInv, NEW r \in Runs,
           pc[r] # "idle", NextCommand(r), shared' = shared,
           \A c \in Commands : c # Head(batch[r]) =>
               status'[c] = status[c] /\ retry_count'[c] = retry_count[c]
    PROVE  BatchUnsettled' /\ HeldOnce' /\ LoadedIsFresh'
<1>1. batch[r] \in Seq(Commands) /\ batch[r] # << >>
  BY DEF TypeOK
<1>2. \A i \in DOMAIN Tail(batch[r]) :
        i \in Nat /\ i + 1 \in DOMAIN batch[r] /\ Tail(batch[r])[i] = batch[r][i + 1]
  BY <1>1, TailElements
<1>3. \A q \in Runs : pc[q] # "idle" =>
        Head(batch[q]) = batch[q][1] /\ 1 \in DOMAIN batch[q]
  <2>1. \A q \in Runs : batch[q] \in Seq(Commands) /\ (pc[q] # "idle" => batch[q] # << >>)
    BY DEF TypeOK
  <2>2. \A q \in Runs : pc[q] # "idle" =>
           Len(batch[q]) \in Nat /\ Len(batch[q]) # 0
           /\ DOMAIN batch[q] = 1 .. Len(batch[q])
    BY <2>1, LenProperties, EmptySeq
  <2> QED
    BY <2>1, <2>2
<1>4. batch' = [batch EXCEPT ![r] = Tail(batch[r])]
  BY DEF NextCommand
<1>5. batch'[r] = Tail(batch[r]) /\ \A q \in Runs : q # r => batch'[q] = batch[q]
  BY <1>4 DEF TypeOK
<1>6. \A q \in Runs : \A i \in DOMAIN batch[q] : batch[q][i] \in Commands
  BY DEF TypeOK
<1>7. \A q \in Runs : \A i, j \in DOMAIN batch[q] : batch[q][i] = batch[q][j] => i = j
  BY DEF BudgetInv, BatchUnsettled
<1>8. \A i \in DOMAIN Tail(batch[r]) : batch[r][i + 1] # Head(batch[r])
  BY <1>2, <1>3, <1>7
<1>9. \A q \in Runs : \A i \in DOMAIN batch[q] :
        q # r /\ batch[q][i] = Head(batch[r]) => Head(batch[r]) \in shared
  BY <1>3 DEF BudgetInv, HeldOnce
<1>10. BatchUnsettled'
  <2>1. ASSUME NEW i \in DOMAIN Tail(batch[r]), NEW j \in DOMAIN Tail(batch[r]),
               Tail(batch[r])[i] = Tail(batch[r])[j]
        PROVE  i = j
    BY <1>2, <1>7, <2>1
  <2>2. ASSUME NEW i \in DOMAIN Tail(batch[r]), Tail(batch[r])[i] \notin shared
        PROVE  status'[Tail(batch[r])[i]] \notin Settled
    BY <1>2, <1>6, <1>8, <2>2 DEF BudgetInv, BatchUnsettled
  <2>3. ASSUME NEW q \in Runs, q # r, NEW i \in DOMAIN batch[q], batch[q][i] \notin shared
        PROVE  status'[batch[q][i]] \notin Settled
    BY <1>6, <1>9, <2>3 DEF BudgetInv, BatchUnsettled
  <2> QED
    BY <1>5, <1>7, <2>1, <2>2, <2>3 DEF BatchUnsettled
<1>11. HeldOnce'
  <2>1. \A i \in DOMAIN batch'[r] : \E j \in DOMAIN batch[r] : batch'[r][i] = batch[r][j]
    BY <1>2, <1>5
  <2>2. ASSUME NEW q \in Runs, NEW i \in DOMAIN batch'[q]
        PROVE  \E j \in DOMAIN batch[q] : batch'[q][i] = batch[q][j]
    <3>1. CASE q = r
      BY <2>1, <2>2, <3>1
    <3>2. CASE q # r
      BY <1>5, <2>2, <3>2
    <3> QED
      BY <3>1, <3>2
  <2> QED
    BY <2>2 DEF BudgetInv, HeldOnce
<1>12. LoadedIsFresh'
  <2>1. pc'[r] # "loaded"
    BY DEF NextCommand, TypeOK
  <2>2. ASSUME NEW q \in Runs, q # r
        PROVE  /\ pc'[q] = pc[q] /\ loaded'[q] = loaded[q] /\ batch'[q] = batch[q]
    BY <1>5, <2>2 DEF NextCommand, TypeOK
  <2>3. ASSUME NEW q \in Runs, q # r, pc[q] = "loaded", Head(batch[q]) \notin shared
        PROVE  retry_count'[Head(batch[q])] = retry_count[Head(batch[q])]
    BY <1>3, <1>6, <1>9, <2>3
  <2> QED
    BY <2>1, <2>2, <2>3 DEF BudgetInv, LoadedIsFresh
<1> QED
  BY <1>10, <1>11, <1>12

\* Every step keeps the budget, and what is settled, of unshared commands.
LEMMA NextBudget ==
    ASSUME TypeOK, BudgetInv, [Next]_vars
    PROVE  BudgetInv' /\ SettledStays
<1> USE QueueAssumption
<1>0. /\ \A q \in Runs : \A i \in DOMAIN batch[q] : batch[q][i] \in Commands
      /\ \A q \in Runs : pc[q] # "idle" =>
            Head(batch[q]) = batch[q][1] /\ 1 \in DOMAIN batch[q]
  <2>1. \A q \in Runs : batch[q] \in Seq(Commands)
    BY DEF TypeOK
  <2>2. \A q \in Runs : pc[q] # "idle" =>
           Len(batch[q]) \in Nat /\ Len(batch[q]) # 0
           /\ DOMAIN batch[q] = 1 .. Len(batch[q])
    BY <2>1, LenProperties, EmptySeq DEF TypeOK
  <2> QED
    BY <2>1, <2>2
<1>1. ASSUME NEW c \in Commands, NEW p \in Priorities, queue_command(c, p)
      PROVE  BudgetInv' /\ SettledStays
  <2>1. status[c] = "none" /\ status' = [status EXCEPT ![c] = "pending"]
        /\ UNCHANGED <<retry_count, pc, batch, loaded, shared>>
    BY <1>1 DEF queue_command, agentVars
  <2>2. Attempts' /\ SettledStays
    BY <2>1 DEF BudgetInv, Attempts, SettledStays, Settled, TypeOK
  <2>3. BatchUnsettled' /\ LoadedIsFresh'
    BY <1>0, <2>1 DEF BudgetInv, BatchUnsettled, LoadedIsFresh, Settled, TypeOK
  <2>4. HeldOnce'
    BY <2>1 DEF BudgetInv, HeldOnce
  <2> QED
    BY <2>2, <2>3, <2>4 DEF BudgetInv
<1>2. ASSUME NEW r \in Runs, PollSelect(r)
      PROVE  BudgetInv' /\ SettledStays
  <2>1. PICK s \in Batches :
          /\ get_pending_commands(s) /\ batch' = [batch EXCEPT ![r] = s]
          /\ shared' = shared \cup (Range(s) \cap HeldByOthers(r))
    BY <1>2 DEF PollSelect
  <2>2. UNCHANGED <<status, retry_count, loaded>> /\ pc' = [pc EXCEPT ![r] = "selected"]
    BY <1>2 DEF PollSelect, rowVars
  <2>3. \A i \in DOMAIN s : status[s[i]] = "pending"
    BY <2>1 DEF get_pending_commands, Pollable, Range
  <2>4. \A i, j \in DOMAIN s : s[i] = s[j] => i = j
    BY <2>1 DEF get_pending_commands, IsInjective
  <2>5. batch'[r] = s /\ pc'[r] = "selected"
        /\ \A q \in Runs : q # r => batch'[q] = batch[q] /\ pc'[q] = pc[q]
    BY <2>1, <2>2 DEF TypeOK
  <2>6. shared \subseteq shared'
    BY <2>1
  <2>7. Attempts' /\ SettledStays
    BY <2>2, <2>6 DEF BudgetInv, Attempts, SettledStays
  <2>8. BatchUnsettled'
    BY <2>2, <2>3, <2>4, <2>5, <2>6 DEF BudgetInv, BatchUnsettled, Settled
  <2>9. LoadedIsFresh'
    BY <2>2, <2>5, <2>6 DEF BudgetInv, LoadedIsFresh
  <2>10. ASSUME NEW q \in Runs, q # r, NEW i \in DOMAIN s, NEW j \in DOMAIN batch[q],
                s[i] = batch[q][j]
         PROVE  s[i] \in shared'
    <3>1. s[i] \in Range(s) /\ s[i] \in Range(batch[q])
      BY <2>10 DEF Range
    <3>2. Range(batch[q]) \subseteq HeldByOthers(r)
      BY <2>10 DEF HeldByOthers
    <3> QED
      BY <2>1, <3>1, <3>2
  <2>11. HeldOnce'
    <3> SUFFICES ASSUME NEW p \in Runs, NEW q \in Runs, p # q,
                        NEW i \in DOMAIN batch'[p], NEW j \in DOMAIN batch'[q],
                        batch'[p][i] = batch'[q][j]
                 PROVE  batch'[p][i] \in shared'
      BY DEF HeldOnce
    <3>1. CASE p = r
      BY <2>5, <2>10, <3>1
    <3>2. CASE q = r
      BY <2>5, <2>10, <3>2
    <3>3. CASE p # r /\ q # r
      BY <2>5, <2>6, <3>3 DEF BudgetInv, HeldOnce
    <3> QED
      BY <3>1, <3>2, <3>3
  <2> QED
    BY <2>7, <2>8, <2>9, <2>11 DEF BudgetInv
<1>3. ASSUME NEW r \in Runs, NEW answered \in BOOLEAN, PollCommit(r, answered)
      PROVE  BudgetInv' /\ SettledStays
  <2>1. status' = [c \in Commands |->
                     IF c \in Range(batch[r]) THEN "sent" ELSE status[c]]
        /\ UNCHANGED <<retry_count, loaded, shared>>
    BY <1>3 DEF PollCommit, mark_commands_sent
  <2>2. \A c \in Range(batch[r]) :
          c \in Commands /\ (c \notin shared => status[c] \notin Settled)
    BY <1>0 DEF Range, BudgetInv, BatchUnsettled
  <2>3. Attempts' /\ SettledStays
    BY <2>1, <2>2 DEF BudgetInv, Attempts, SettledStays, Settled
  <2>4. (batch'[r] = batch[r] \/ batch'[r] = << >>) /\ pc'[r] # "loaded"
        /\ \A q \in Runs : q # r => batch'[q] = batch[q] /\ pc'[q] = pc[q]
    BY <1>3 DEF PollCommit, TypeOK
  <2>5. BatchUnsettled'
    BY <1>0, <2>1, <2>4 DEF BudgetInv, BatchUnsettled, Settled
  <2>6. LoadedIsFresh'
    BY <2>1, <2>4 DEF BudgetInv, LoadedIsFresh
  <2>7. HeldOnce'
    BY <2>1, <2>4 DEF BudgetInv, HeldOnce
  <2> QED
    BY <2>3, <2>5, <2>6, <2>7 DEF BudgetInv
<1>4. ASSUME NEW r \in Runs, PollAbort(r) \/ Reboot(r)
      PROVE  BudgetInv' /\ SettledStays
  <2>1. batch'[r] = << >> /\ pc'[r] = "idle"
        /\ \A q \in Runs : q # r => batch'[q] = batch[q] /\ pc'[q] = pc[q]
    BY <1>4 DEF PollAbort, Reboot, TypeOK
  <2>2. UNCHANGED <<status, retry_count, loaded, shared>>
    BY <1>4 DEF PollAbort, Reboot, rowVars
  <2>3. HeldOnce'
    BY <2>1, <2>2 DEF BudgetInv, HeldOnce
  <2> QED
    BY <2>1, <2>2, <2>3
    DEF BudgetInv, Attempts, BatchUnsettled, LoadedIsFresh, SettledStays
<1>5. ASSUME NEW r \in Runs, NEW o \in Outcomes, Execute(r, o)
      PROVE  BudgetInv' /\ SettledStays
  <2>1. UNCHANGED <<status, retry_count, batch, loaded, shared>>
    BY <1>5 DEF Execute, rowVars
  <2>2. pc'[r] = "executed" /\ \A q \in Runs : q # r => pc'[q] = pc[q]
    BY <1>5 DEF Execute, TypeOK
  <2> QED
    BY <2>1, <2>2
    DEF BudgetInv, Attempts, BatchUnsettled, HeldOnce, LoadedIsFresh, SettledStays
<1>6. ASSUME NEW r \in Runs, ReportLoad(r)
      PROVE  BudgetInv' /\ SettledStays
  <2>1. UNCHANGED <<status, retry_count, batch, shared>>
    BY <1>6 DEF ReportLoad, rowVars
  <2>2. loaded'[r] = [status      |-> status[Head(batch[r])],
                      sent_at     |-> sent_at[Head(batch[r])],
                      retry_count |-> retry_count[Head(batch[r])]]
        /\ \A q \in Runs : q # r => loaded'[q] = loaded[q] /\ pc'[q] = pc[q]
    BY <1>6 DEF ReportLoad, TypeOK
  <2>3. Head(batch[r]) \notin shared => status[Head(batch[r])] \notin Settled
    BY <1>0, <1>6 DEF ReportLoad, BudgetInv, BatchUnsettled
  <2>4. LoadedIsFresh'
    BY <2>1, <2>2, <2>3 DEF BudgetInv, LoadedIsFresh
  <2> QED
    BY <2>1, <2>4 DEF BudgetInv, Attempts, BatchUnsettled, HeldOnce, SettledStays
<1>7. ASSUME NEW r \in Runs, ReportCommit(r)
      PROVE  BudgetInv' /\ SettledStays
  <2> DEFINE c   == Head(batch[r])
             new == process_command_result(loaded[r], outcome[r])
  <2>1. c \in Commands
    BY <1>0, <1>7 DEF ReportCommit
  <2>2. /\ status' = [status EXCEPT ![c] = Flush(@, loaded[r].status, new.status)]
        /\ retry_count' = [retry_count EXCEPT
                             ![c] = Flush(@, loaded[r].retry_count, new.retry_count)]
        /\ shared' = shared
    BY <1>7 DEF ReportCommit
  <2>3. ASSUME c \notin shared
        PROVE  /\ status[c] \notin Settled
               /\ status'[c] # "failed" => retry_count'[c] < MaxRetries
               /\ status'[c] = "failed" => retry_count'[c] = MaxRetries
    <3>1. status[c] \notin Settled
          /\ loaded[r].retry_count = retry_count[c] /\ loaded[r].status \notin Settled
      BY <1>0, <1>7, <2>3 DEF ReportCommit, BudgetInv, BatchUnsettled, LoadedIsFresh
    <3>2. loaded[r] \in Row /\ outcome[r] \in Outcomes
          /\ retry_count[c] < MaxRetries
      BY <2>1, <2>3, <3>1 DEF TypeOK, BudgetInv, Attempts, Settled
    <3>3. \/ new.status = "success" /\ new.retry_count = retry_count[c]
          \/ new.status = "failed" /\ new.retry_count = MaxRetries
          \/ new.status = "pending" /\ new.retry_count < MaxRetries
      BY <3>1, <3>2, ResultBudget
    <3> HIDE DEF c, new
    <3>4. retry_count'[c] = new.retry_count
      BY <2>1, <2>2, <3>1 DEF Flush, TypeOK
    <3>5. /\ new.status \in Settled => status'[c] = new.status
          /\ new.status = "pending" => status'[c] \notin Settled
      BY <2>1, <2>2, <3>1 DEF Flush, TypeOK, Settled
    <3> QED
      BY <3>1, <3>2, <3>3, <3>4, <3>5 DEF Settled
  <2> HIDE DEF c, new
  <2>4. \A d \in Commands : d # c => status'[d] = status[d]
                                     /\ retry_count'[d] = retry_count[d]
    BY <2>2 DEF TypeOK
  <2>5. Attempts'
    BY <2>2, <2>3, <2>4 DEF BudgetInv, Attempts
  <2>6. SettledStays
    BY <2>2, <2>3, <2>4 DEF SettledStays
  <2>7. BatchUnsettled' /\ HeldOnce' /\ LoadedIsFresh'
    BY <1>7, <2>2, <2>4, NextCommandUnsettled DEF ReportCommit, c
  <2> QED
    BY <2>5, <2>6, <2>7 DEF BudgetInv
<1>8. ASSUME NEW r \in Runs, ReportLost(r)
      PROVE  BudgetInv' /\ SettledStays
  <2>1. UNCHANGED <<status, retry_count, shared>>
    BY <1>8 DEF ReportLost, rowVars
  <2>2. BatchUnsettled' /\ HeldOnce' /\ LoadedIsFresh'
    BY <1>8, <2>1, NextCommandUnsettled DEF ReportLost
  <2> QED
    BY <2>1, <2>2 DEF BudgetInv, Attempts, SettledStays
<1>9. ASSUME Cleanup PROVE BudgetInv' /\ SettledStays
  <2>1. UNCHANGED <<retry_count, pc, batch, loaded, shared>>
    BY <1>9 DEF Cleanup, cleanup_expired_commands, reset_stale_sent_commands,
                CleanupFails, rowVars, agentVars
  <2>2. \A c \in Commands :
           \/ status'[c] = status[c]
           \/ status[c] \notin Settled /\ status'[c] \in {"expired", "pending"}
    BY <1>9 DEF Cleanup, cleanup_expired_commands, reset_stale_sent_commands,
                CleanupFails, rowVars, Expirable, Open, StaleSent, Settled
  <2>3. Attempts' /\ SettledStays
    BY <2>1, <2>2 DEF BudgetInv, Attempts, SettledStays, Settled
  <2>4. BatchUnsettled' /\ LoadedIsFresh'
    BY <1>0, <2>1, <2>2 DEF BudgetInv, BatchUnsettled, LoadedIsFresh, Settled
  <2>5. HeldOnce'
    BY <2>1 DEF BudgetInv, HeldOnce
  <2> QED
    BY <2>3, <2>4, <2>5 DEF BudgetInv
<1>10. CASE Tick \/ UNCHANGED vars
  <2>1. UNCHANGED <<status, retry_count, pc, batch, loaded, shared>>
    BY <1>10 DEF Tick, vars, rowVars, agentVars
  <2> QED
    BY <2>1 DEF BudgetInv, Attempts, BatchUnsettled, HeldOnce, LoadedIsFresh, SettledStays
<1> QED
  BY <1>1, <1>2, <1>3, <1>4, <1>5, <1>6, <1>7, <1>8, <1>9, <1>10 DEF Next, RunStep

\* Nothing is spent in the beginning.
LEMMA InitBudget == Init => BudgetInv
BY QueueAssumption
DEF Init, BudgetInv, Attempts, BatchUnsettled, HeldOnce, LoadedIsFresh

\* The invariant that the retry budget and the finality of results rest on.
THEOREM BudgetInvariant == Spec => []BudgetInv
<1>1. TypeOK /\ BudgetInv /\ [Next]_vars => BudgetInv'
  BY NextBudget
<1> QED
  BY <1>1, InitBudget, TypeCorrect, PTL DEF Spec

\* However many runs overlap, a step revises a recorded success or a permanent
\* failure only if two runs have held the command at the same time.
THEOREM RevisionsAreShared == Spec => OnlySharedIsRevised
<1>1. TypeOK /\ BudgetInv /\ [Next]_vars =>
        [\A c \in Commands \ shared' : status[c] \in {"success", "failed"} =>
            status'[c] = status[c] /\ retry_count'[c] = retry_count[c]]_vars
  BY NextBudget DEF SettledStays, Settled
<1> QED
  BY <1>1, BudgetInvariant, TypeCorrect, PTL DEF Spec, OnlySharedIsRevised

\* When agent runs do not overlap, no command is ever shared.
NothingShared == shared = {}

LEMMA NeverShared ==
    ASSUME SingleRun PROVE Spec => []NothingShared
<1>1. Init => NothingShared
  BY DEF Init, NothingShared
<1>2. ASSUME NothingShared, [Next]_vars PROVE NothingShared'
  <2>1. ASSUME NEW r \in Runs, PollSelect(r) PROVE NothingShared'
    <3>1. HeldByOthers(r) = {}
      BY DEF HeldByOthers, SingleRun
    <3> QED
      BY <1>2, <2>1, <3>1 DEF PollSelect, NothingShared
  <2>2. CASE UNCHANGED shared
    BY <1>2, <2>2 DEF NothingShared
  <2>3. ASSUME NEW r \in Runs, RunStep(r) PROVE UNCHANGED shared
    BY <2>3 DEF RunStep, PollCommit, PollAbort, Execute, ReportLoad, ReportCommit,
                ReportLost, Reboot
  <2> QED
    BY <1>2, <2>1, <2>2, <2>3
    DEF Next, queue_command, Cleanup, cleanup_expired_commands,
        reset_stale_sent_commands, CleanupFails, Tick, vars
<1> QED
  BY <1>1, <1>2, PTL DEF Spec

\* When agent runs do not overlap, an open row always has an attempt left, and
\* a row is failed exactly when its attempts are used up, whatever is lost,
\* reset or resent.
THEOREM RetriesInBudget ==
    ASSUME SingleRun PROVE Spec => []RetryBudget
<1>1. TypeOK /\ BudgetInv /\ NothingShared => RetryBudget
  BY QueueAssumption DEF TypeOK, BudgetInv, Attempts, NothingShared, RetryBudget, Open
<1> QED
  BY <1>1, BudgetInvariant, NeverShared, TypeCorrect, PTL

\* When agent runs do not overlap, no step revises a recorded success or a
\* permanent failure.
THEOREM ResultsAreFinal ==
    ASSUME SingleRun PROVE Spec => ResultIsFinal
<1>1. TypeOK /\ BudgetInv /\ NothingShared' /\ [Next]_vars =>
        [\A c \in Commands : status[c] \in {"success", "failed"} =>
            status'[c] = status[c] /\ retry_count'[c] = retry_count[c]]_vars
  BY NextBudget DEF SettledStays, Settled, NothingShared
<1> QED
  BY <1>1, BudgetInvariant, NeverShared, TypeCorrect, PTL DEF Spec, ResultIsFinal

-----------------------------------------------------------------------------
(***************************************************************************)
(* The command queue implements CommandDelivery when agent runs do not     *)
(* overlap, for every number of commands, every batch size, retry limit    *)
(* and timeout.                                                            *)
(***************************************************************************)

\* What is known of the state a step starts from.
QueueInv == /\ TypeOK /\ BudgetInv /\ NothingShared
            /\ OutcomeIsEarned /\ BatchIsQueued

DeliveryStep == [Delivery!Next]_(Delivery!vars)

\* A step that leaves status, retry_count and executed alone is not seen.
LEMMA Unseen ==
    ASSUME UNCHANGED <<status, retry_count, executed>>
    PROVE  DeliveryStep
<1>1. Verdict' = Verdict
  BY DEF Verdict
<1> QED
  BY <1>1 DEF DeliveryStep, Delivery!vars

\* A command at the head of a batch is queued and not settled.
LEMMA HeadIsOpen ==
    ASSUME QueueInv, NEW r \in Runs, pc[r] # "idle"
    PROVE  /\ Head(batch[r]) \in Commands
           /\ status[Head(batch[r])] \in {"pending", "sent", "expired"}
           /\ Verdict[Head(batch[r])] \in {"open", "expired"}
<1>1. batch[r] \in Seq(Commands) /\ batch[r] # << >>
  BY DEF QueueInv, TypeOK
<1>2. Head(batch[r]) = batch[r][1] /\ 1 \in DOMAIN batch[r] /\ batch[r][1] \in Commands
  BY <1>1, LenProperties, EmptySeq
<1>3. status[batch[r][1]] \notin Settled \cup {"none"}
  BY <1>2 DEF QueueInv, BudgetInv, NothingShared, BatchUnsettled, BatchIsQueued
<1>4. status[batch[r][1]] \in CommandStatus \cup {"none"}
  BY <1>2 DEF QueueInv, TypeOK
<1> QED
  BY <1>2, <1>3, <1>4 DEF Verdict, Settled, CommandStatus, Open

\* Some rows move between open and expired.
LEMMA Moves ==
    ASSUME NEW some \in SUBSET Commands, NEW from, NEW to,
           \A c \in some : Verdict[c] = from,
           Verdict' = [c \in Commands |-> IF c \in some THEN to ELSE Verdict[c]],
           UNCHANGED <<retry_count, executed>>
    PROVE  Delivery!Move(from, to)
<1>1. some \in SUBSET {c \in Commands : Verdict[c] = from}
  OBVIOUS
<1> QED
  BY <1>1 DEF Delivery!Move

\* A report is a success, a counted failure or the last failure of its command.
LEMMA ReportDelivers ==
    ASSUME QueueInv, SingleRun, NEW r \in Runs, ReportCommit(r)
    PROVE  Delivery!Next
<1> USE QueueAssumption
<1> DEFINE c   == Head(batch[r])
           old == loaded[r]
           new == process_command_result(old, outcome[r])
<1>1. /\ c \in Commands
      /\ status[c] \in {"pending", "sent", "expired"}
      /\ Verdict[c] \in {"open", "expired"}
  BY HeadIsOpen DEF ReportCommit
<1>2. /\ old \in Row /\ outcome[r] \in Outcomes
      /\ old.retry_count = retry_count[c] /\ old.status \notin Settled
      /\ retry_count[c] \in Nat /\ retry_count[c] < MaxRetries
  BY <1>1 DEF ReportCommit, QueueInv, TypeOK, BudgetInv, NothingShared, LoadedIsFresh, Attempts
<1>3. /\ status' = [status EXCEPT ![c] = Flush(@, old.status, new.status)]
      /\ retry_count' = [retry_count EXCEPT
                            ![c] = Flush(@, old.retry_count, new.retry_count)]
      /\ executed' = executed
  BY DEF ReportCommit
<1>4. status \in [Commands -> CommandStatus \cup {"none"}]
      /\ retry_count \in [Commands -> Nat]
  BY DEF QueueInv, TypeOK
<1>5. CASE outcome[r] = "success"
  <2>1. new.status = "success" /\ new.retry_count = old.retry_count
    BY <1>2, <1>5 DEF process_command_result, Row
  <2>2. status' = [status EXCEPT ![c] = "success"] /\ retry_count' = retry_count
    BY <2>1, <1>1, <1>2, <1>3, <1>4 DEF Flush, Settled
  <2>3. c \in executed
    BY <1>5 DEF QueueInv, OutcomeIsEarned, ReportCommit
  <2>4. Verdict' = [Verdict EXCEPT ![c] = "success"]
    BY <2>2, <1>1, <1>4 DEF Verdict, Open
  <2>5. Delivery!Succeed(c)
    BY <2>2, <2>3, <2>4, <1>1, <1>3 DEF Delivery!Succeed
  <2> QED
    BY <2>5, <1>1 DEF Delivery!Next
<1>6. CASE outcome[r] # "success"
  <2>1. /\ new.retry_count = retry_count[c] + 1
        /\ new.status = IF retry_count[c] + 1 = MaxRetries THEN "failed" ELSE "pending"
    BY <1>2, <1>6 DEF process_command_result, Row
  <2>2. retry_count' = [retry_count EXCEPT ![c] = retry_count[c] + 1]
    BY <2>1, <1>1, <1>2, <1>3, <1>4 DEF Flush
  <2>3. CASE retry_count[c] + 1 = MaxRetries
    <3>1. status' = [status EXCEPT ![c] = "failed"]
      BY <2>1, <2>3, <1>1, <1>2, <1>3, <1>4 DEF Flush, Settled
    <3>2. Verdict' = [Verdict EXCEPT ![c] = "failed"]
      BY <3>1, <1>1, <1>4 DEF Verdict, Open
    <3>3. Delivery!FailAttempt(c, "failed")
      BY <3>2, <2>2, <2>3, <1>1, <1>2, <1>3 DEF Delivery!FailAttempt
    <3> QED
      BY <3>3, <1>1 DEF Delivery!Next
  <2>4. CASE retry_count[c] + 1 # MaxRetries
    <3>1. \/ status' = [status EXCEPT ![c] = "pending"]
          \/ status' = status
      BY <2>1, <2>4, <1>1, <1>2, <1>3, <1>4 DEF Flush
    <3>2. \/ Verdict' = [Verdict EXCEPT ![c] = "open"]
          \/ Verdict' = [Verdict EXCEPT ![c] = Verdict[c]]
      BY <3>1, <1>1, <1>4 DEF Verdict, Open
    <3>3. \/ Delivery!FailAttempt(c, "open")
          \/ Delivery!FailAttempt(c, Verdict[c])
      BY <3>2, <2>2, <2>4, <1>1, <1>2, <1>3 DEF Delivery!FailAttempt
    <3> QED
      BY <3>3, <1>1 DEF Delivery!Next
  <2> QED
    BY <2>3, <2>4
<1> QED
  BY <1>5, <1>6

\* Every step of the queue is a step of CommandDelivery, or is not seen by it.
LEMMA StepDelivers ==
    ASSUME SingleRun, QueueInv, [Next]_vars
    PROVE  DeliveryStep
<1>0. status \in [Commands -> CommandStatus \cup {"none"}]
  BY DEF QueueInv, TypeOK
<1>1. ASSUME NEW c \in Commands, NEW p \in Priorities, queue_command(c, p)
      PROVE  DeliveryStep
  <2>1. Verdict[c] = "none" /\ Verdict' = [Verdict EXCEPT ![c] = "open"]
    BY <1>0, <1>1 DEF queue_command, Verdict, Open
  <2>2. Delivery!Submit(c)
    BY <2>1, <1>1 DEF Delivery!Submit, queue_command
  <2> QED
    BY <2>2 DEF DeliveryStep, Delivery!Next
<1>2. ASSUME NEW r \in Runs, PollSelect(r) \/ PollAbort(r) \/ ReportLoad(r)
                              \/ ReportLost(r) \/ Reboot(r)
      PROVE  DeliveryStep
  BY <1>2, Unseen DEF PollSelect, PollAbort, ReportLoad, ReportLost, Reboot, rowVars
<1>3. ASSUME NEW r \in Runs, NEW answered \in BOOLEAN, PollCommit(r, answered)
      PROVE  DeliveryStep
  <2> DEFINE ids == Range(batch[r])
             some == {c \in ids : status[c] = "expired"}
  <2>1. batch[r] \in Seq(Commands)
    BY DEF QueueInv, TypeOK
  <2>2. \A c \in ids : c \in Commands /\ \E i \in DOMAIN batch[r] : batch[r][i] = c
    BY <2>1 DEF Range
  <2>3. \A c \in ids : status[c] \in {"pending", "sent", "expired"}
    BY <1>0, <2>2 DEF QueueInv, BudgetInv, NothingShared, BatchUnsettled, BatchIsQueued, Settled,
                      CommandStatus
  <2>4. status' = [c \in Commands |-> IF c \in ids THEN "sent" ELSE status[c]]
    BY <1>3 DEF PollCommit, mark_commands_sent
  <2>5. Verdict' = [c \in Commands |-> IF c \in some THEN "open" ELSE Verdict[c]]
    BY <1>0, <2>2, <2>3, <2>4 DEF Verdict, Open
  <2>6. some \in SUBSET Commands /\ \A c \in some : Verdict[c] = "expired"
    BY <2>2 DEF Verdict, Open
  <2>7. UNCHANGED <<retry_count, executed>>
    BY <1>3 DEF PollCommit
  <2>8. Delivery!Move("expired", "open")
    BY <2>5, <2>6, <2>7, Moves
  <2> QED
    BY <2>8 DEF DeliveryStep, Delivery!Next
<1>4. ASSUME NEW r \in Runs, NEW o \in Outcomes, Execute(r, o)
      PROVE  DeliveryStep
  <2>1. UNCHANGED <<status, retry_count>>
    BY <1>4 DEF Execute, rowVars
  <2>2. CASE o = "success"
    <3>1. Head(batch[r]) \in Commands /\ Verdict[Head(batch[r])] # "none"
      BY <1>4, HeadIsOpen DEF Execute
    <3>2. Verdict' = Verdict
      BY <2>1 DEF Verdict
    <3>3. Delivery!CarryOut(Head(batch[r]))
      BY <1>4, <2>1, <2>2, <3>1, <3>2 DEF Execute, Delivery!CarryOut
    <3> QED
      BY <3>1, <3>3 DEF DeliveryStep, Delivery!Next
  <2>3. CASE o # "success"
    BY <1>4, <2>1, <2>3, Unseen DEF Execute
  <2> QED
    BY <2>2, <2>3
<1>5. ASSUME NEW r \in Runs, ReportCommit(r) PROVE DeliveryStep
  BY <1>5, ReportDelivers DEF DeliveryStep
<1>6. ASSUME cleanup_expired_commands PROVE DeliveryStep
  <2> DEFINE some == {c \in Commands : Expirable(c)}
  <2>1. \A c \in some : Verdict[c] = "open"
    BY DEF Expirable, Verdict
  <2>2. Verdict' = [c \in Commands |-> IF c \in some THEN "expired" ELSE Verdict[c]]
    BY <1>0, <1>6 DEF cleanup_expired_commands, Verdict, Open
  <2>3. Delivery!Move("open", "expired")
    BY <1>6, <2>1, <2>2, Moves, ZenonT(60) DEF cleanup_expired_commands
  <2> QED
    BY <2>3 DEF DeliveryStep, Delivery!Next
<1>7. ASSUME reset_stale_sent_commands PROVE DeliveryStep
  <2>1. Verdict' = Verdict
    BY <1>0, <1>7 DEF reset_stale_sent_commands, StaleSent, Verdict, Open
  <2> QED
    BY <1>7, <2>1 DEF reset_stale_sent_commands, DeliveryStep, Delivery!vars
<1>8. ASSUME CleanupFails \/ Tick \/ UNCHANGED vars PROVE DeliveryStep
  BY <1>8, Unseen DEF CleanupFails, Tick, vars, rowVars
<1> QED
  BY <1>1, <1>2, <1>3, <1>4, <1>5, <1>6, <1>7, <1>8 DEF Next, RunStep, Cleanup

\* When agent runs do not overlap, the queue implements CommandDelivery: every
\* command gets one verdict, earned and final, within its retry budget, whatever
\* polls, lost answers, resets, late reports and cleanups come in between.
THEOREM QueueDelivers ==
    ASSUME SingleRun PROVE Spec => DeliversAsPromised
<1>1. Init => Delivery!Init
  BY DEF Init, Delivery!Init, Verdict, Open
<1>2. Spec => []QueueInv
  <2>1. Init => SuccessMeansExecuted /\ OutcomeIsEarned /\ BatchIsQueued
    BY DEF Init, SuccessMeansExecuted, OutcomeIsEarned, BatchIsQueued
  <2> QED
    BY <2>1, TypeCorrect, BudgetInvariant, NeverShared, NextSuccess, NextQueued, PTL
    DEF Spec, QueueInv
<1>3. QueueInv /\ [Next]_vars => DeliveryStep
  BY StepDelivers
<1> QED
  BY <1>1, <1>2, <1>3, PTL DEF Spec, DeliveryStep, DeliversAsPromised, Delivery!Spec


-----------------------------------------------------------------------------
(***************************************************************************)
(* Subscriptions and their accounts.  The steps of SubscriptionRouterSync  *)
(* are steps of the queue or leave it alone, so what is proved of the      *)
(* queue holds of the whole.  One fact about the queue carries the         *)
(* argument: a command that is dead stays dead, so that whatever can still *)
(* undo a command is among those that were alive when it was queued.       *)
(***************************************************************************)

\* A command that is done with: not open, and in no run's hands.
Dead(c) == /\ status[c] \notin Open \cup {"none"}
           /\ \A r \in Runs : c \notin Range(batch[r])

Queued == {c \in Commands : status[c] # "none"}

CommandRec == [action : Actions \cup {"none"},
               of     : Subscriptions \cup {"none"},
               sync   : BOOLEAN,
               seq    : Nat,
               amid   : SUBSET Actions]

RequestRec == [pc     : {"idle", "loaded", "committed", "sync", "flag"},
               op     : Requests \cup Tasks \cup {"none"},
               of     : Subscriptions \cup {"none"},
               status : SubscriptionStatus \cup {"none"},
               synced : BOOLEAN,
               ok     : BOOLEAN]

SyncTypes ==
    /\ AgentInstalled \in BOOLEAN
    /\ sub \in [Subscriptions -> SubscriptionStatus \cup {"none"}]
    /\ end_date \in [Subscriptions -> Nat]
    /\ synced \in [Subscriptions -> BOOLEAN]
    /\ user \in [Subscriptions -> Account]
    /\ synced_seen \in [Runs -> BOOLEAN]
    /\ command \in [Commands -> CommandRec]
    /\ req \in [Handlers -> RequestRec]
    /\ ops \in 0 .. MaxOps

\* What a row of the queue asks for.  Only a router with the agent has rows.
RowOK(c) ==
    /\ AgentInstalled
    /\ command[c].action \in Actions
    /\ command[c].of \in Subscriptions
    /\ command[c].sync => command[c].action # "remove_user"
    /\ command[c].seq < Cardinality(Queued)

\* An older command of the same subscription that is not dead was alive when the
\* younger one was queued.
Rows ==
    /\ IsFiniteSet(Queued)
    /\ executed \subseteq Queued
    /\ \A c \in Commands : IF status[c] = "none" THEN command[c] = NoCommand
                                                 ELSE RowOK(c)
    /\ \A c, d \in Queued : command[c].seq = command[d].seq => c = d
    /\ \A c, d \in Queued :
          /\ command[c].of = command[d].of /\ command[d].seq < command[c].seq
          /\ ~ Dead(d)
          => command[d].action \in command[c].amid

\* The customer of s can use the router, or would if the router had done what it
\* was asked for.
Usable(s) == user[s] = "enabled" \/ (user[s] = "disabled" /\ s \in ignored)

\* What a handler knows of the subscription it works on, as long as no other
\* activation or renewal has crossed it.
Knows(h, s) ==
    /\ s \in Subscriptions /\ req[h].op \in Requests \cup Tasks
    /\ req[h].pc \in {"committed", "sync"} => req[h].op \in Requests
    /\ req[h].pc = "flag" => ~ AgentInstalled
    /\ req[h].op \in {"expire", "churn"} => end_date[s] <= now \/ s \in renewed
    /\ /\ req[h].pc \in {"sync", "flag"} /\ req[h].op # "expire"
       /\ sub[s] = "active" /\ s \notin crossed
       => req[h].status = "active"
    /\ /\ req[h].pc = "flag" /\ req[h].op # "expire" /\ req[h].ok
       /\ is_active(s) /\ s \notin crossed
       => Usable(s)

HandlerOK(h) == IF req[h].pc = "idle" THEN req[h].of = "none" /\ req[h].op = "none"
                                      ELSE Knows(h, req[h].of)

\* No command of s is younger than c.
Youngest(s, c) == /\ c \in Queued /\ command[c].of = s
                  /\ \A d \in Queued : command[d].of = s => command[d].seq <= command[c].seq

\* What an executed command c has done to the account of s, unless an older one
\* with the opposite effect was alive.
Left(s, c) ==
    /\ command[c].action = "disable_user" =>
          user[s] # "enabled" \/ "create_user" \in command[c].amid
    /\ command[c].action = "remove_user" =>
          user[s] = "absent" \/ s \in ignored \/ "create_user" \in command[c].amid
    /\ command[c].action = "create_user" =>
          user[s] # "absent" \/ "remove_user" \in command[c].amid

CommandsOK(s) == \A c \in executed : Youngest(s, c) => Left(s, c)

\* An account was provided for s, and no removal has been queued since.
Provided(s) ==
    \E c \in executed :
        /\ command[c].of = s /\ command[c].action = "create_user"
        /\ user[s] # "absent" \/ "remove_user" \in command[c].amid
        /\ \A d \in Queued : command[d].of = s /\ command[d].action = "remove_user"
                                => command[d].seq < command[c].seq

RowTrue(s) ==
    /\ AgentInstalled /\ sub[s] = "active" /\ synced[s] /\ s \notin misreported
          => Provided(s)
    /\ ~ AgentInstalled /\ is_active(s) /\ synced[s] /\ s \notin crossed => Usable(s)
    /\ sub[s] \in {"expired", "inactive"} => end_date[s] <= now \/ s \in renewed

Consistent ==
    /\ SyncTypes /\ Rows
    /\ \A h \in Handlers : HandlerOK(h)
    /\ \A s \in Subscriptions : CommandsOK(s) /\ RowTrue(s)

-----------------------------------------------------------------------------
(***************************************************************************)
(* The queue under the sync.                                               *)
(***************************************************************************)

\* A command for a subscription is queued by queue_command.
LEMMA QueueForQueues ==
    ASSUME NEW s, NEW action, NEW p \in {2, 3}, NEW sync, QueueFor(s, action, p, sync)
    PROVE  Next
<1>1. PICK c \in Commands : queue_command(c, p)
  BY DEF QueueFor
<1>2. p \in Priorities
  BY SyncAssumption
<1> QED
  BY <1>1, <1>2 DEF Next

\* Every step of the sync is a step of the queue, or the queue does not see it.
LEMMA SyncStepQueues == [SyncNext]_allVars => [Next]_vars
<1> SUFFICES ASSUME [SyncNext]_allVars PROVE [Next]_vars
  OBVIOUS
<1>1. ASSUME NEW s \in Subscriptions, create_subscription(s) PROVE [Next]_vars
  BY <1>1 DEF create_subscription
<1>2. ASSUME NEW h \in Handlers, NEW op, NEW s \in Subscriptions, Load(h, op, s)
      PROVE  [Next]_vars
  BY <1>2 DEF Load
<1>3. ASSUME NEW h \in Handlers, HandlerStep(h) PROVE [Next]_vars
  <2>1. CASE Commit(h)
    BY <2>1 DEF Commit
  <2>2. CASE SyncViaQueue(h)
    BY <2>2, QueueForQueues DEF SyncViaQueue, _sync_via_agent_queue
  <2>3. CASE ExpireCommit(h)
    BY <2>3, QueueForQueues DEF ExpireCommit, _sync_via_agent_queue
  <2>4. CASE ChurnCommit(h)
    BY <2>4, QueueForQueues DEF ChurnCommit
  <2>5. CASE PurgeCommit(h)
    BY <2>5, QueueForQueues DEF PurgeCommit
  <2>6. ASSUME NEW done \in BOOLEAN, NEW told \in BOOLEAN, DirectCall(h, done, told)
        PROVE  [Next]_vars
    BY <2>6 DEF DirectCall
  <2>7. CASE DirectCommit(h)
    BY <2>7 DEF DirectCommit
  <2>8. CASE DirectUnreachable(h)
    BY <2>8 DEF DirectUnreachable
  <2>9. CASE Crash(h) \/ Refresh(h)
    BY <2>9 DEF Crash, Refresh
  <2> QED
    BY <1>3, <2>1, <2>2, <2>3, <2>4, <2>5, <2>6, <2>7, <2>8, <2>9 DEF HandlerStep
<1>4. ASSUME NEW r \in Runs, RouterStep(r) PROVE [Next]_vars
  <2>1. RunStep(r)
    BY <1>4 DEF RouterStep, ExecuteOnRouter, ReportLoadSub, ReportCommitSub, ReportLostSub,
       RunStep
  <2> QED
    BY <2>1, SMTT(60) DEF Next
<1>5. CASE QueueStep
  BY <1>5 DEF QueueStep, Next, RunStep
<1>6. CASE UNCHANGED allVars
  BY <1>6 DEF allVars
<1> QED
  BY <1>1, <1>2, <1>3, <1>4, <1>5, <1>6 DEF SyncNext

\* The sync implements the queue: whatever requests, tasks, direct calls and the
\* effects on accounts add, the rows and the agent behave as RouterCommandQueue
\* says, so all that is proved of the queue holds here.
THEOREM SyncUsesQueue == SyncSpec => Spec
<1>1. SyncInit => Init
  BY DEF SyncInit
<1> QED
  BY <1>1, SyncStepQueues, PTL DEF SyncSpec, Spec

\* What is known of the queue in every state.
QueueFacts == TypeOK /\ SuccessMeansExecuted /\ OutcomeIsEarned /\ BatchIsQueued

\* The queue's own invariant.
LEMMA QueueFactsHold == Spec => []QueueFacts
<1>1. Init => SuccessMeansExecuted /\ OutcomeIsEarned /\ BatchIsQueued
  BY DEF Init, SuccessMeansExecuted, OutcomeIsEarned, BatchIsQueued
<1> QED
  BY <1>1, TypeCorrect, NextSuccess, NextQueued, PTL DEF Spec, QueueFacts

\* The command in a run's hands is a queued one.
LEMMA HeadInHand ==
    ASSUME QueueFacts, NEW r \in Runs, pc[r] # "idle"
    PROVE  Head(batch[r]) \in Queued /\ Head(batch[r]) \in Range(batch[r])
<1>1. batch[r] \in Seq(Commands) /\ batch[r] # << >>
  BY DEF QueueFacts, TypeOK
<1>2. Head(batch[r]) = batch[r][1] /\ 1 \in DOMAIN batch[r] /\ batch[r][1] \in Commands
  BY <1>1, LenProperties, EmptySeq
<1> QED
  BY <1>2 DEF QueueFacts, BatchIsQueued, Queued, Range

\* What is left of a batch was in it.
LEMMA TailRange ==
    ASSUME NEW s \in Seq(Commands), s # << >>
    PROVE  Range(Tail(s)) \subseteq Range(s)
<1>1. ASSUME NEW i \in DOMAIN Tail(s) PROVE Tail(s)[i] \in Range(s)
  BY TailElements, <1>1 DEF Range
<1> QED
  BY <1>1 DEF Range

\* What a step of the queue keeps for the subscriptions: what is past stays
\* past, a queued command stays queued, and a dead one dead.
Settles ==
    /\ \A e \in Nat : e <= now => e <= now'
    /\ Queued \subseteq Queued'
    /\ \A c \in Commands : Dead(c) => Dead(c)'

\* A command stays dead if its row is left alone and only pollable commands come
\* into a run's hands.
LEMMA DeadStays ==
    ASSUME \A c \in Commands : Dead(c) => status'[c] = status[c],
           \A r \in Runs : Range(batch'[r]) \subseteq Range(batch[r]) \cup Pollable
    PROVE  \A c \in Commands : Dead(c) => Dead(c)'
<1> SUFFICES ASSUME NEW c \in Commands, Dead(c) PROVE Dead(c)'
  OBVIOUS
<1>1. status'[c] \notin Open \cup {"none"}
  BY DEF Dead
<1>2. c \notin Pollable
  BY DEF Dead, Pollable, Open
<1>3. \A r \in Runs : c \notin Range(batch'[r])
  BY <1>2 DEF Dead
<1> QED
  BY <1>1, <1>3 DEF Dead

\* Every step of the queue settles.
LEMMA NextSettles == QueueFacts /\ [Next]_vars => Settles
<1> SUFFICES ASSUME QueueFacts, [Next]_vars PROVE Settles
  OBVIOUS
<1>t. TypeOK
  BY DEF QueueFacts
<1>d. ASSUME \A c \in Commands : Dead(c) => status'[c] = status[c],
             \A r \in Runs : Range(batch'[r]) \subseteq Range(batch[r]) \cup Pollable,
             \A c \in Commands : status[c] # "none" => status'[c] # "none",
             now' = now \/ now' = now + 1
      PROVE  Settles
  <2>1. \A c \in Commands : Dead(c) => Dead(c)'
    BY <1>d, DeadStays
  <2>2. \A e \in Nat : e <= now => e <= now'
    BY <1>d, <1>t, QueueAssumption DEF TypeOK
  <2>3. Queued \subseteq Queued'
    BY <1>d DEF Queued
  <2> QED
    BY <2>1, <2>2, <2>3 DEF Settles
<1>1. ASSUME NEW c \in Commands, NEW p \in Priorities, queue_command(c, p)
      PROVE  Settles
  <2>1. batch' = batch /\ now' = now /\ status[c] = "none"
        /\ status' = [status EXCEPT ![c] = "pending"]
    BY <1>1 DEF queue_command, agentVars
  <2>2. \A d \in Commands : Dead(d) => d # c
    BY <2>1 DEF Dead
  <2>3. \A d \in Commands : status'[d] = IF d = c THEN "pending" ELSE status[d]
    BY <2>1, <1>t DEF TypeOK
  <2> QED
    BY <2>1, <2>2, <2>3, <1>d
<1>2. ASSUME NEW r \in Runs, PollSelect(r) PROVE Settles
  <2>1. PICK s \in Batches : get_pending_commands(s) /\ batch' = [batch EXCEPT ![r] = s]
    BY <1>2 DEF PollSelect
  <2>2. status' = status /\ now' = now
    BY <1>2 DEF PollSelect, rowVars
  <2>3. Range(s) \subseteq Pollable
    BY <2>1 DEF get_pending_commands
  <2>4. \A q \in Runs : batch'[q] = IF q = r THEN s ELSE batch[q]
    BY <2>1, <1>t DEF TypeOK
  <2> QED
    BY <2>2, <2>3, <2>4, <1>d
<1>e. Range(<< >>) = {}
  BY DEF Range
<1>3. ASSUME NEW r \in Runs, NEW answered \in BOOLEAN, PollCommit(r, answered)
      PROVE  Settles
  <2>1. /\ now' = now
        /\ status' = [c \in Commands |-> IF c \in Range(batch[r]) THEN "sent" ELSE status[c]]
        /\ batch' = [batch EXCEPT ![r] = IF answered THEN @ ELSE << >>]
    BY <1>3 DEF PollCommit, mark_commands_sent
  <2>2. \A q \in Runs : batch'[q] = batch[q] \/ batch'[q] = << >>
    BY <2>1, <1>t DEF TypeOK
  <2>3. \A c \in Commands : Dead(c) => c \notin Range(batch[r])
    BY DEF Dead
  <2> QED
    BY <2>1, <2>2, <2>3, <1>e, <1>d
<1>4. ASSUME NEW r \in Runs, PollAbort(r) \/ Reboot(r) PROVE Settles
  <2>1. status' = status /\ now' = now /\ batch' = [batch EXCEPT ![r] = << >>]
    BY <1>4 DEF PollAbort, Reboot, rowVars
  <2>2. \A q \in Runs : batch'[q] = batch[q] \/ batch'[q] = << >>
    BY <2>1, <1>t DEF TypeOK
  <2> QED
    BY <2>1, <2>2, <1>e, <1>d
<1>5. ASSUME NEW r \in Runs, NEW o \in Outcomes, Execute(r, o) PROVE Settles
  <2>1. status' = status /\ now' = now /\ batch' = batch
    BY <1>5 DEF Execute, rowVars
  <2> QED
    BY <2>1, <1>d
<1>6. ASSUME NEW r \in Runs, ReportLoad(r) PROVE Settles
  <2>1. status' = status /\ now' = now /\ batch' = batch
    BY <1>6 DEF ReportLoad, rowVars
  <2> QED
    BY <2>1, <1>d
<1>7. ASSUME NEW r \in Runs, pc[r] # "idle", NextCommand(r)
      PROVE  \A q \in Runs : Range(batch'[q]) \subseteq Range(batch[q])
  <2>1. batch[r] \in Seq(Commands) /\ batch[r] # << >>
    BY <1>7, <1>t DEF TypeOK
  <2>2. Range(Tail(batch[r])) \subseteq Range(batch[r])
    BY <2>1, TailRange
  <2>3. \A q \in Runs : batch'[q] = IF q = r THEN Tail(batch[r]) ELSE batch[q]
    BY <1>7, <1>t DEF NextCommand, TypeOK
  <2> QED
    BY <2>2, <2>3
<1>8. ASSUME NEW r \in Runs, ReportCommit(r) PROVE Settles
  <2> DEFINE c == Head(batch[r])
             new == process_command_result(loaded[r], outcome[r]).status
  <2>1. /\ pc[r] = "loaded" /\ NextCommand(r) /\ now' = now
        /\ status' = [status EXCEPT ![c] = Flush(@, loaded[r].status, new)]
    BY <1>8 DEF ReportCommit
  <2>2. c \in Queued /\ c \in Range(batch[r])
    BY <2>1, HeadInHand
  <2>3. new \in {"success", "failed", "pending"}
    BY ResultRow, <1>t DEF TypeOK
  <2>4. \A d \in Commands : d # c => status'[d] = status[d]
    BY <2>1, <1>t DEF TypeOK
  <2>5. status'[c] # "none"
    BY <2>1, <2>2, <2>3, <1>t DEF TypeOK, Flush, Queued
  <2>6. \A d \in Commands : Dead(d) => d # c
    BY <2>2 DEF Dead
  <2> HIDE DEF c, new
  <2>7. \A q \in Runs : Range(batch'[q]) \subseteq Range(batch[q]) \cup Pollable
    BY <2>1, <1>7
  <2> QED
    BY <2>1, <2>4, <2>5, <2>6, <2>7, <1>d
<1>9. ASSUME NEW r \in Runs, ReportLost(r) PROVE Settles
  <2>1. status' = status /\ now' = now /\ NextCommand(r) /\ pc[r] # "idle"
    BY <1>9 DEF ReportLost, rowVars
  <2> QED
    BY <2>1, <1>7, <1>d
<1>10. CASE cleanup_expired_commands
  <2>1. /\ batch' = batch /\ now' = now
        /\ status' = [c \in Commands |-> IF Expirable(c) THEN "expired" ELSE status[c]]
    BY <1>10 DEF cleanup_expired_commands, agentVars
  <2>2. \A c \in Commands : Expirable(c) => ~ Dead(c)
    BY DEF Expirable, Dead
  <2> QED
    BY <2>1, <2>2, <1>d
<1>11. CASE reset_stale_sent_commands
  <2>1. /\ batch' = batch /\ now' = now
        /\ status' = [c \in Commands |-> IF StaleSent(c) THEN "pending" ELSE status[c]]
    BY <1>11 DEF reset_stale_sent_commands, agentVars
  <2>2. \A c \in Commands : StaleSent(c) => ~ Dead(c)
    BY DEF StaleSent, Dead, Open
  <2> QED
    BY <2>1, <2>2, <1>d
<1>12. CASE CleanupFails \/ Tick
  <2>1. status' = status /\ batch' = batch /\ (now' = now \/ now' = now + 1)
    BY <1>12 DEF CleanupFails, Tick, rowVars, agentVars
  <2> QED
    BY <2>1, <1>d
<1>13. CASE UNCHANGED vars
  <2>1. status' = status /\ batch' = batch /\ now' = now
    BY <1>13 DEF vars, rowVars, agentVars
  <2> QED
    BY <2>1, <1>d
<1> QED
  BY <1>1, <1>2, <1>3, <1>4, <1>5, <1>6, <1>8, <1>9, <1>10, <1>11, <1>12, <1>13
     DEF Next, RunStep, Cleanup

\* The steps of the queue that subscriptions take no part in, or look at only.
PlainStep ==
    \/ \E r \in Runs : \/ PollSelect(r) \/ PollAbort(r) \/ Reboot(r)
                       \/ \E answered \in BOOLEAN : PollCommit(r, answered)
                       \/ ReportLoad(r) \/ ReportCommit(r) \/ ReportLost(r)
    \/ Cleanup
    \/ Tick
    \/ UNCHANGED vars

\* They queue nothing and execute nothing.
LEMMA PlainQueuesNothing ==
    ASSUME QueueFacts, PlainStep PROVE Queued' = Queued /\ executed' = executed
<1>t. TypeOK
  BY DEF QueueFacts
<1>d. ASSUME \A c \in Commands : status'[c] = "none" <=> status[c] = "none"
      PROVE  Queued' = Queued
  BY <1>d DEF Queued
<1>1. ASSUME NEW r \in Runs, PollSelect(r) \/ PollAbort(r) \/ Reboot(r)
             \/ ReportLoad(r) \/ ReportLost(r)
      PROVE  Queued' = Queued /\ executed' = executed
  <2>1. status' = status /\ executed' = executed
    BY <1>1 DEF PollSelect, PollAbort, Reboot, ReportLoad, ReportLost, rowVars
  <2> QED
    BY <2>1, <1>d
<1>2. ASSUME NEW r \in Runs, NEW answered \in BOOLEAN, PollCommit(r, answered)
      PROVE  Queued' = Queued /\ executed' = executed
  <2>1. /\ executed' = executed
        /\ status' = [c \in Commands |-> IF c \in Range(batch[r]) THEN "sent" ELSE status[c]]
    BY <1>2 DEF PollCommit, mark_commands_sent
  <2>2. \A c \in Range(batch[r]) : status[c] # "none"
    BY DEF QueueFacts, BatchIsQueued, Range
  <2> QED
    BY <2>1, <2>2, <1>d
<1>3. ASSUME NEW r \in Runs, ReportCommit(r)
      PROVE  Queued' = Queued /\ executed' = executed
  <2> DEFINE c == Head(batch[r])
             new == process_command_result(loaded[r], outcome[r]).status
  <2>1. /\ pc[r] = "loaded" /\ executed' = executed
        /\ status' = [status EXCEPT ![c] = Flush(@, loaded[r].status, new)]
    BY <1>3 DEF ReportCommit
  <2>2. c \in Queued
    BY <2>1, HeadInHand
  <2>3. new \in {"success", "failed", "pending"}
    BY ResultRow, <1>t DEF TypeOK
  <2>4. status'[c] # "none" /\ status[c] # "none"
    BY <2>1, <2>2, <2>3, <1>t DEF TypeOK, Flush, Queued
  <2>5. \A d \in Commands : d # c => status'[d] = status[d]
    BY <2>1, <1>t DEF TypeOK
  <2> HIDE DEF c, new
  <2> QED
    BY <2>1, <2>4, <2>5, <1>d
<1>4. CASE Cleanup
  <2>1. CASE cleanup_expired_commands
    <3>1. \A c \in Commands : status'[c] = IF Expirable(c) THEN "expired" ELSE status[c]
      BY <2>1 DEF cleanup_expired_commands
    <3>2. \A c \in Commands : Expirable(c) => status[c] # "none"
      BY DEF Expirable, Open
    <3>3. executed' = executed
      BY <2>1 DEF cleanup_expired_commands
    <3> QED
      BY <3>1, <3>2, <3>3, <1>d
  <2>2. CASE reset_stale_sent_commands
    <3>1. \A c \in Commands : status'[c] = IF StaleSent(c) THEN "pending" ELSE status[c]
      BY <2>2 DEF reset_stale_sent_commands
    <3>2. \A c \in Commands : StaleSent(c) => status[c] # "none"
      BY DEF StaleSent
    <3>3. executed' = executed
      BY <2>2 DEF reset_stale_sent_commands
    <3> QED
      BY <3>1, <3>2, <3>3, <1>d
  <2>3. CASE CleanupFails
    BY <2>3, <1>d DEF CleanupFails, rowVars
  <2> QED
    BY <1>4, <2>1, <2>2, <2>3 DEF Cleanup
<1>5. CASE Tick \/ UNCHANGED vars
  BY <1>5, <1>d DEF Tick, vars, rowVars
<1> QED
  BY <1>1, <1>2, <1>3, <1>4, <1>5 DEF PlainStep


-----------------------------------------------------------------------------
(***************************************************************************)
(* Frames: what a step that is about one subscription leaves alone.        *)
(***************************************************************************)

\* Nothing is changed for t.
Same(t) ==
    /\ sub'[t] = sub[t] /\ end_date'[t] = end_date[t] /\ synced'[t] = synced[t]
    /\ user'[t] = user[t]
    /\ t \in misreported' <=> t \in misreported
    /\ t \in ignored' <=> t \in ignored
    /\ t \in crossed' <=> t \in crossed
    /\ t \in renewed' <=> t \in renewed

\* t has the same commands, and the same ones are executed.
SameCommands(t) ==
    \A c \in Commands : command'[c].of = t \/ command[c].of = t =>
        /\ c \in Queued' <=> c \in Queued
        /\ c \in executed' <=> c \in executed
        /\ command'[c].of = command[c].of /\ command'[c].action = command[c].action
        /\ command'[c].seq = command[c].seq /\ command'[c].amid = command[c].amid

\* A step that is about s, or about no subscription when s is not one.
About(s) ==
    /\ Settles /\ now \in Nat /\ now' \in Nat /\ AgentInstalled' = AgentInstalled
    /\ executed \subseteq Commands /\ executed' \subseteq Commands
    /\ \A t \in Subscriptions : t # s => Same(t) /\ SameCommands(t)

\* What the commands of t have done stands if its account stays.
LEMMA CommandsFrame ==
    ASSUME NEW t, SameCommands(t), user'[t] = user[t], t \in ignored' <=> t \in ignored,
           executed \subseteq Commands, executed' \subseteq Commands
    PROVE  /\ CommandsOK(t) => CommandsOK(t)'
           /\ Provided(t) => Provided(t)'
<1>1. ASSUME NEW c \in executed', Youngest(t, c)', CommandsOK(t) PROVE Left(t, c)'
  <2>1. c \in Commands /\ command'[c].of = t /\ c \in Queued'
    BY <1>1 DEF Youngest
  <2>2. c \in executed /\ c \in Queued /\ command[c].of = t
    BY <2>1 DEF SameCommands
  <2>3. \A d \in Queued : command[d].of = t => command[d].seq <= command[c].seq
    BY <1>1, <2>1, <2>2 DEF Youngest, SameCommands, Queued
  <2>4. Left(t, c)
    BY <2>2, <2>3, <1>1 DEF CommandsOK, Youngest
  <2> QED
    BY <2>1, <2>2, <2>4 DEF Left, SameCommands
<1>2. ASSUME Provided(t) PROVE Provided(t)'
  <2>1. PICK c \in executed :
          /\ command[c].of = t /\ command[c].action = "create_user"
          /\ user[t] # "absent" \/ "remove_user" \in command[c].amid
          /\ \A d \in Queued : command[d].of = t /\ command[d].action = "remove_user"
                                  => command[d].seq < command[c].seq
    BY <1>2 DEF Provided
  <2>2. /\ c \in executed' /\ command'[c].of = t /\ command'[c].action = "create_user"
        /\ user'[t] # "absent" \/ "remove_user" \in command'[c].amid
        /\ command'[c].seq = command[c].seq
    BY <2>1 DEF SameCommands
  <2>3. \A d \in Queued' : command'[d].of = t /\ command'[d].action = "remove_user"
                              => command'[d].seq < command'[c].seq
    BY <2>1, <2>2 DEF SameCommands, Queued
  <2> QED
    BY <2>2, <2>3 DEF Provided
<1> QED
  BY <1>1, <1>2 DEF CommandsOK

\* A subscription that the step is not about is as true as it was.
LEMMA RowFrame ==
    ASSUME Consistent, NEW s, About(s), NEW t \in Subscriptions, t # s
    PROVE  CommandsOK(t)' /\ RowTrue(t)'
<1>1. Same(t) /\ SameCommands(t) /\ CommandsOK(t) /\ RowTrue(t)
  BY DEF Consistent, About
<1>2. CommandsOK(t)' /\ (Provided(t) => Provided(t)')
  BY <1>1, CommandsFrame DEF About, Same
<1>3. end_date[t] \in Nat
  BY DEF Consistent, SyncTypes
<1>4. /\ is_active(t)' => is_active(t)
      /\ end_date[t] <= now => end_date'[t] <= now'
  BY <1>1, <1>3 DEF About, Settles, Same, is_active
<1>5. Usable(t)' <=> Usable(t)
  BY <1>1 DEF Same, Usable
<1>6. RowTrue(t)'
  BY <1>1, <1>2, <1>4, <1>5 DEF RowTrue, Same, About
<1> QED
  BY <1>2, <1>6

\* A handler that stays where it is, on a subscription the step is not about.
LEMMA HandlerFrame ==
    ASSUME Consistent, NEW s, About(s), NEW g \in Handlers, req'[g] = req[g], req[g].of # s
    PROVE  HandlerOK(g)'
<1>1. CASE req[g].pc = "idle"
  BY <1>1 DEF Consistent, HandlerOK
<1>2. CASE req[g].pc # "idle"
  <2>0. PICK t \in Subscriptions : t = req[g].of
    BY <1>2 DEF Consistent, HandlerOK, Knows
  <2>1. Knows(g, t) /\ t # s
    BY <1>2, <2>0 DEF Consistent, HandlerOK
  <2>2. Same(t) /\ end_date[t] \in Nat
    BY <2>1 DEF About, Consistent, SyncTypes
  <2>3. /\ is_active(t)' => is_active(t)
        /\ end_date[t] <= now => end_date'[t] <= now'
    BY <2>2 DEF About, Settles, Same, is_active
  <2>4. Usable(t)' <=> Usable(t)
    BY <2>2 DEF Same, Usable
  <2>5. Knows(g, t)'
    BY <2>1, <2>2, <2>3, <2>4 DEF Knows, Same, About
  <2> QED
    BY <2>0, <2>5, <1>2 DEF HandlerOK
<1> QED
  BY <1>1, <1>2

\* A step of handler h on its subscription s keeps the invariant if it keeps it
\* for s and for the handlers on s.
LEMMA ActsKeeps ==
    ASSUME Consistent, NEW h \in Handlers, NEW s \in Subscriptions, About(s),
           \A g \in Handlers : g # h => req'[g] = req[g],
           SyncTypes', Rows', HandlerOK(h)',
           \A g \in Handlers : g # h /\ req[g].of = s => HandlerOK(g)',
           CommandsOK(s)', RowTrue(s)'
    PROVE  Consistent'
<1>1. \A g \in Handlers : HandlerOK(g)'
  BY HandlerFrame
<1>2. \A t \in Subscriptions : CommandsOK(t)' /\ RowTrue(t)'
  BY RowFrame
<1> QED
  BY <1>1, <1>2 DEF Consistent

\* The links of commands to rows may be cut, nothing else of them changes.
Relinked ==
    /\ command' \in [Commands -> CommandRec]
    /\ \A c \in Commands :
          /\ command[c] = NoCommand => command'[c] = NoCommand
          /\ command'[c].action = command[c].action /\ command'[c].of = command[c].of
          /\ command'[c].seq = command[c].seq /\ command'[c].amid = command[c].amid
          /\ command'[c].sync => command[c].sync

\* The table is in order after a step that queues nothing.
LEMMA RowsKept ==
    ASSUME Consistent, Settles, Relinked, AgentInstalled' = AgentInstalled,
           Queued' = Queued, executed' \subseteq Queued'
    PROVE  /\ Rows'
           /\ executed' = executed => \A t \in Subscriptions : SameCommands(t)
<1>1. Rows
  BY DEF Consistent
<1>2. IsFiniteSet(Queued')
  BY <1>1 DEF Rows
<1>3. ASSUME NEW c \in Commands
      PROVE  IF status'[c] = "none" THEN command'[c] = NoCommand ELSE RowOK(c)'
  <2>1. status'[c] = "none" <=> status[c] = "none"
    BY DEF Queued
  <2>2. CASE status[c] = "none"
    BY <1>1, <2>1, <2>2 DEF Rows, Relinked
  <2>3. CASE status[c] # "none"
    <3>1. RowOK(c)
      BY <1>1, <2>3 DEF Rows
    <3> QED
      BY <3>1, <2>1, <2>3 DEF RowOK, Relinked
  <2> QED
    BY <2>2, <2>3
<1>4. \A c, d \in Queued' : command'[c].seq = command'[d].seq => c = d
  BY <1>1 DEF Rows, Relinked, Queued
<1>5. ASSUME NEW c \in Queued', NEW d \in Queued', command'[c].of = command'[d].of,
             command'[d].seq < command'[c].seq, ~ Dead(d)'
      PROVE  command'[d].action \in command'[c].amid
  <2>1. c \in Queued /\ d \in Queued /\ c \in Commands /\ d \in Commands
    BY <1>5 DEF Queued
  <2>2. ~ Dead(d)
    BY <1>5, <2>1 DEF Settles
  <2>3. command[d].action \in command[c].amid
    BY <1>1, <1>5, <2>1, <2>2 DEF Rows, Relinked
  <2> QED
    BY <2>1, <2>3 DEF Relinked
<1>6. Rows'
  BY <1>2, <1>3, <1>4, <1>5 DEF Rows
<1>7. executed' = executed => \A t \in Subscriptions : SameCommands(t)
  BY DEF SameCommands, Relinked
<1> QED
  BY <1>6, <1>7

\* What a step needs to know of the queue.
Stepping ==
    /\ QueueFacts /\ Settles /\ now \in Nat /\ now' \in Nat /\ AgentInstalled' = AgentInstalled

\* A step that leaves the queue alone, or relinks its commands only.
LEMMA StillAbout ==
    ASSUME Consistent, Stepping, Relinked, Queued' = Queued, executed' = executed, NEW s,
           \A t \in Subscriptions : t # s => Same(t)
    PROVE  About(s) /\ Rows' /\ \A t \in Subscriptions : SameCommands(t)
<1>1. executed \subseteq Commands /\ executed' \subseteq Queued'
  BY DEF Consistent, Rows, Queued
<1>2. Rows' /\ \A t \in Subscriptions : SameCommands(t)
  BY <1>1, RowsKept DEF Stepping
<1> QED
  BY <1>1, <1>2 DEF About, Stepping

\* The queue is left alone.
LEMMA Untouched ==
    ASSUME Consistent, UNCHANGED <<vars, command>>
    PROVE  Relinked /\ Queued' = Queued /\ executed' = executed /\ now' = now
<1>1. UNCHANGED <<now, status, executed>>
  BY DEF vars, rowVars
<1>2. Relinked
  BY DEF Relinked, Consistent, SyncTypes
<1> QED
  BY <1>1, <1>2 DEF Queued

\* A handler moves on.
LEMMA Assign ==
    ASSUME SyncTypes, NEW h \in Handlers, NEW x \in RequestRec,
           req' = [req EXCEPT ![h] = x]
    PROVE  /\ req' \in [Handlers -> RequestRec] /\ req'[h] = x
           /\ \A g \in Handlers : g # h => req'[g] = req[g]
BY DEF SyncTypes

\* The request is over.
LEMMA DoneIdles ==
    ASSUME SyncTypes, NEW h \in Handlers, Done(h)
    PROVE  /\ req' \in [Handlers -> RequestRec]
           /\ HandlerOK(h)'
           /\ \A g \in Handlers : g # h => req'[g] = req[g]
<1>1. /\ NoRequest \in RequestRec /\ NoRequest.pc = "idle" /\ NoRequest.of = "none"
      /\ NoRequest.op = "none"
  BY DEF NoRequest, RequestRec
<1>2. req' = [req EXCEPT ![h] = NoRequest]
  BY DEF Done
<1> HIDE DEF NoRequest
<1>3. req' \in [Handlers -> RequestRec] /\ req'[h] = NoRequest
      /\ \A g \in Handlers : g # h => req'[g] = req[g]
  BY <1>1, <1>2, Assign
<1> QED
  BY <1>1, <1>3 DEF HandlerOK

\* A handler that is not idle has a subscription.
LEMMA Owns ==
    ASSUME Consistent, NEW h \in Handlers, req[h].pc # "idle"
    PROVE  req[h].of \in Subscriptions /\ Knows(h, req[h].of)
BY DEF Consistent, HandlerOK, Knows

\* A step of a handler that changes nothing but itself.
LEMMA MovesOn ==
    ASSUME Consistent, Stepping, NEW h \in Handlers, UNCHANGED <<vars, command>>, SyncTypes',
           \A t \in Subscriptions : Same(t),
           \A g \in Handlers : g # h => req'[g] = req[g], HandlerOK(h)'
    PROVE  Consistent'
<1>1. About("none") /\ Rows'
  BY StillAbout, Untouched
<1>2. ASSUME NEW g \in Handlers, g # h PROVE HandlerOK(g)'
  <2>1. CASE req[g].pc = "idle"
    BY <1>2, <2>1 DEF Consistent, HandlerOK
  <2>2. CASE req[g].pc # "idle"
    BY <1>1, <1>2, <2>2, Owns, HandlerFrame, SyncAssumption
  <2> QED
    BY <2>1, <2>2
<1>3. \A t \in Subscriptions : CommandsOK(t)' /\ RowTrue(t)'
  BY <1>1, RowFrame, SyncAssumption
<1> QED
  BY <1>1, <1>2, <1>3 DEF Consistent

-----------------------------------------------------------------------------
(***************************************************************************)
(* The handlers' steps that leave the queue alone.                         *)
(***************************************************************************)

\* A customer comes: nobody works on the row, and nothing is claimed of it.
LEMMA CreateKeeps ==
    ASSUME Consistent, Stepping, NEW s \in Subscriptions, create_subscription(s)
    PROVE  Consistent'
<1>1. /\ UNCHANGED <<vars, user, synced_seen, req, ops, ignored>>
      /\ sub' = [sub EXCEPT ![s] = "pending"]
      /\ \E d \in 0 .. Period : end_date' = [end_date EXCEPT ![s] = now + d]
      /\ synced' = [synced EXCEPT ![s] = FALSE]
      /\ misreported' = misreported \ {s} /\ crossed' = crossed \ {s}
      /\ renewed' = renewed \ {s}
      /\ \A h \in Handlers : req[h].of # s
  BY DEF create_subscription
<1>2. command' = [c \in Commands |->
                    IF command[c].of = s THEN [command[c] EXCEPT !.sync = FALSE] ELSE command[c]]
  BY DEF create_subscription
<1>3. \A c \in Commands : command[c] \in CommandRec
  BY DEF Consistent, SyncTypes
<1>4. Relinked
  <2>1. ASSUME NEW c \in Commands
        PROVE  /\ command'[c] \in CommandRec
               /\ command'[c].action = command[c].action /\ command'[c].of = command[c].of
               /\ command'[c].seq = command[c].seq /\ command'[c].amid = command[c].amid
               /\ command'[c].sync => command[c].sync
    BY <1>2, <1>3 DEF CommandRec
  <2>2. ASSUME NEW c \in Commands, command[c] = NoCommand PROVE command'[c] = NoCommand
    <3>1. command[c].of # s
      BY <2>2, SyncAssumption DEF NoCommand
    <3> QED
      BY <1>2, <2>2, <3>1
  <2> QED
    BY <2>1, <2>2, <1>2 DEF Relinked
<1>5. Queued' = Queued /\ executed' = executed /\ now' = now
  BY <1>1 DEF vars, rowVars, Queued
<1>6. PICK d \in 0 .. Period : end_date' = [end_date EXCEPT ![s] = now + d]
  BY <1>1
<1>d. d \in Nat /\ now + d \in Nat
  BY <1>6, SyncAssumption DEF Stepping
<1>7. SyncTypes'
  BY <1>1, <1>4, <1>6, <1>d DEF Consistent, SyncTypes, Relinked, SubscriptionStatus, Stepping
<1>8. \A t \in Subscriptions : t # s => Same(t)
  BY <1>1, <1>6 DEF Consistent, SyncTypes, Same
<1>9. About(s) /\ Rows' /\ SameCommands(s)
  BY <1>4, <1>5, <1>8, StillAbout
<1>10. \A g \in Handlers : HandlerOK(g)'
  BY <1>1, <1>9, HandlerFrame
<1>11. CommandsOK(s)'
  <2>1. CommandsOK(s) /\ user'[s] = user[s] /\ (s \in ignored' <=> s \in ignored)
    BY <1>1 DEF Consistent
  <2> QED
    BY <2>1, <1>9, CommandsFrame DEF About
<1>12. RowTrue(s)'
  <2>1. sub'[s] = "pending"
    BY <1>1 DEF Consistent, SyncTypes
  <2> QED
    BY <2>1 DEF RowTrue, is_active
<1>13. \A t \in Subscriptions : CommandsOK(t)' /\ RowTrue(t)'
  BY <1>9, <1>11, <1>12, RowFrame
<1> QED
  BY <1>7, <1>9, <1>10, <1>13 DEF Consistent

\* Load: a task selects only what is past its end.
LEMMA LoadKeeps ==
    ASSUME Consistent, Stepping, NEW h \in Handlers, NEW op \in Requests \cup Tasks,
           NEW s \in Subscriptions, Load(h, op, s)
    PROVE  Consistent'
<1> DEFINE x == [pc |-> "loaded", op |-> op, of |-> s, ok |-> FALSE,
                 status |-> sub[s], synced |-> synced[s]]
<1>1. /\ UNCHANGED <<vars, sub, end_date, synced, user, command, synced_seen, flawVars>>
      /\ req' = [req EXCEPT ![h] = x] /\ ops < MaxOps /\ ops' = ops + 1
      /\ op \in Tasks => Selects(op, s)
  BY DEF Load
<1>2. /\ x \in RequestRec /\ x.pc = "loaded" /\ x.op = op /\ x.of = s
  BY DEF RequestRec, Consistent, SyncTypes
<1> HIDE DEF x
<1>3. /\ req' \in [Handlers -> RequestRec] /\ req'[h] = x
      /\ \A g \in Handlers : g # h => req'[g] = req[g]
  BY <1>1, <1>2, Assign DEF Consistent
<1>4. SyncTypes'
  <2>1. ops' \in 0 .. MaxOps
    BY <1>1, SyncAssumption DEF Consistent, SyncTypes
  <2> QED
    BY <1>1, <1>3, <2>1 DEF Consistent, SyncTypes, Stepping
<1>5. \A t \in Subscriptions : Same(t)
  BY <1>1 DEF Same, flawVars
<1>6. op \in {"expire", "churn"} => end_date'[s] <= now'
  <2>1. end_date[s] \in Nat /\ end_date' = end_date /\ now' = now
    BY <1>1 DEF Consistent, SyncTypes, vars
  <2>2. CASE op = "expire"
    BY <2>1, <2>2, <1>1 DEF Selects, Tasks
  <2>3. CASE op = "churn"
    <3>1. end_date[s] + Prune < now
      BY <2>3, <1>1 DEF Selects, Tasks
    <3> QED
      BY <2>1, <3>1, SyncAssumption DEF Stepping
  <2> QED
    BY <2>2, <2>3
<1>7. HandlerOK(h)'
  BY <1>2, <1>3, <1>6 DEF HandlerOK, Knows
<1> QED
  BY <1>1, <1>3, <1>4, <1>5, <1>7, MovesOn

\* Crash: the handler is gone, and with it what it held.
LEMMA CrashKeeps ==
    ASSUME Consistent, Stepping, NEW h \in Handlers, Crash(h)
    PROVE  Consistent'
<1>1. /\ UNCHANGED <<vars, sub, end_date, synced, user, command, synced_seen, ops, flawVars>>
      /\ Done(h)
  BY DEF Crash
<1>2. /\ req' \in [Handlers -> RequestRec] /\ HandlerOK(h)'
      /\ \A g \in Handlers : g # h => req'[g] = req[g]
  BY <1>1, DoneIdles DEF Consistent
<1>3. SyncTypes'
  BY <1>1, <1>2 DEF Consistent, SyncTypes, Stepping
<1>4. \A t \in Subscriptions : Same(t)
  BY <1>1 DEF Same, flawVars
<1> QED
  BY <1>1, <1>2, <1>3, <1>4, MovesOn

\* Refresh: the handler holds what the row says.
LEMMA RefreshKeeps ==
    ASSUME Consistent, Stepping, NEW h \in Handlers, Refresh(h)
    PROVE  Consistent'
<1>0. req[h].pc = "committed" /\ req[h] \in RequestRec
  BY DEF Refresh, Consistent, SyncTypes
<1>s. PICK s \in Subscriptions : s = req[h].of
  BY <1>0, Owns
<1> DEFINE x == [req[h] EXCEPT !.pc = "sync", !.status = sub[s], !.synced = synced[s]]
<1>1. /\ UNCHANGED <<vars, sub, end_date, synced, user, command, synced_seen, ops, flawVars>>
      /\ req' = [req EXCEPT ![h] = x]
  BY <1>s DEF Refresh
<1>2. /\ x \in RequestRec /\ x.pc = "sync" /\ x.op = req[h].op /\ x.of = s
      /\ x.status = sub[s]
  BY <1>0, <1>s DEF RequestRec, Consistent, SyncTypes
<1> HIDE DEF x
<1>3. /\ req' \in [Handlers -> RequestRec] /\ req'[h] = x
      /\ \A g \in Handlers : g # h => req'[g] = req[g]
  BY <1>1, <1>2, Assign DEF Consistent
<1>4. SyncTypes'
  BY <1>1, <1>3 DEF Consistent, SyncTypes, Stepping
<1>5. \A t \in Subscriptions : Same(t)
  BY <1>1 DEF Same, flawVars
<1>6. req[h].op \in Requests
  BY <1>0, <1>s, Owns DEF Knows
<1>7. req'[h].op \notin {"expire", "churn"}
  BY <1>2, <1>3, <1>6 DEF Requests
<1>8. HandlerOK(h)'
  BY <1>1, <1>2, <1>3, <1>6, <1>7 DEF HandlerOK, Knows
<1> QED
  BY <1>1, <1>3, <1>4, <1>5, <1>8, MovesOn

\* The commit of a request: whoever it could mislead is noted.
LEMMA CommitKeeps ==
    ASSUME Consistent, Stepping, NEW h \in Handlers, Commit(h)
    PROVE  Consistent'
<1>0. req[h].pc = "loaded" /\ req[h].op \in Requests /\ req[h] \in RequestRec
  BY DEF Commit, Consistent, SyncTypes
<1>s. PICK s \in Subscriptions : s = req[h].of
  BY <1>0, Owns
<1> DEFINE op == req[h].op
           x == [req[h] EXCEPT !.pc = "committed"]
           moving(g) == req[g].of = s /\ req[g].pc \in {"sync", "flag"}
           ending(g) == req[g].of = s /\ req[g].op \in {"expire", "churn"}
<1>1. UNCHANGED <<vars, user, command, synced_seen, ops, ignored>>
  BY DEF Commit
<1>2. /\ sub' = [sub EXCEPT ![s] = Flush(@, req[h].status, NewStatus(op))]
      /\ synced' = [synced EXCEPT ![s] =
                      IF Marks(op) THEN Flush(@, req[h].synced, FALSE) ELSE @]
      /\ \E d \in 0 .. Period :
            end_date' = [end_date EXCEPT ![s] = IF op = "renew" THEN now + d ELSE @]
  BY <1>s DEF Commit
<1>3. /\ misreported' = IF Marks(op) THEN Noted(misreported, s, synced'[s]) ELSE misreported
      /\ crossed' = IF Marks(op) /\ sub'[s] = "active"
                    THEN Noted(crossed, s, synced'[s] \/ \E g \in Handlers \ {h} : moving(g))
                    ELSE crossed
      /\ renewed' = IF op = "renew"
                    THEN Noted(renewed, s, sub'[s] # "active"
                                           \/ \E g \in Handlers \ {h} : ending(g))
                    ELSE renewed
  BY <1>s DEF Commit, Noted
<1>4. IF SyncsAfter(op, req[h].status) THEN req' = [req EXCEPT ![h] = x] ELSE Done(h)
  BY DEF Commit
<1>5. NewStatus(op) \in {"active", "suspended", "cancelled"}
      /\ (NewStatus(op) = "active" => Marks(op)) /\ (op = "renew" => Marks(op))
  BY <1>0 DEF NewStatus, Requests, Marks
<1>6. /\ x \in RequestRec /\ x.pc = "committed" /\ x.op = op /\ x.of = s
  BY <1>0, <1>s DEF RequestRec
<1>7. op \in Requests /\ op \notin {"expire", "churn"}
  BY <1>0 DEF Requests
<1> HIDE DEF x, op
<1>8. /\ req' \in [Handlers -> RequestRec] /\ HandlerOK(h)'
      /\ \A g \in Handlers : g # h => req'[g] = req[g]
  <2>1. CASE req' = [req EXCEPT ![h] = x]
    <3>1. /\ req' \in [Handlers -> RequestRec] /\ req'[h] = x
          /\ \A g \in Handlers : g # h => req'[g] = req[g]
      BY <2>1, <1>6, Assign DEF Consistent
    <3> QED
      BY <3>1, <1>6, <1>7 DEF HandlerOK, Knows
  <2>2. CASE Done(h)
    BY <2>2, DoneIdles DEF Consistent
  <2> QED
    BY <2>1, <2>2, <1>4
<1>9. PICK d \in 0 .. Period :
        end_date' = [end_date EXCEPT ![s] = IF op = "renew" THEN now + d ELSE @]
  BY <1>2
<1>d. d \in Nat /\ now + d \in Nat
  BY <1>9, SyncAssumption DEF Stepping
<1>10. /\ sub' \in [Subscriptions -> SubscriptionStatus \cup {"none"}]
       /\ synced' \in [Subscriptions -> BOOLEAN]
       /\ end_date' \in [Subscriptions -> Nat]
  BY <1>2, <1>5, <1>9, <1>d DEF Consistent, SyncTypes, SubscriptionStatus, Flush
<1>11. SyncTypes'
  BY <1>1, <1>8, <1>10 DEF Consistent, SyncTypes, Stepping
<1>12. \A t \in Subscriptions : t # s => Same(t)
  <2>1. ASSUME NEW t \in Subscriptions, t # s
        PROVE  /\ sub'[t] = sub[t] /\ synced'[t] = synced[t] /\ end_date'[t] = end_date[t]
    BY <1>2, <1>9, <2>1 DEF Consistent, SyncTypes
  <2>2. ASSUME NEW t \in Subscriptions, t # s
        PROVE  /\ t \in misreported' <=> t \in misreported
               /\ t \in crossed' <=> t \in crossed
               /\ t \in renewed' <=> t \in renewed
    BY <1>3, <2>2 DEF Noted
  <2> QED
    BY <1>1, <2>1, <2>2 DEF Same
<1>13. About(s) /\ Rows' /\ SameCommands(s) /\ now' = now
  BY <1>1, <1>12, StillAbout, Untouched
<1>14. CommandsOK(s)' /\ (Provided(s) => Provided(s)')
  <2>1. CommandsOK(s) /\ user'[s] = user[s] /\ (s \in ignored' <=> s \in ignored)
    BY <1>1 DEF Consistent
  <2> QED
    BY <2>1, <1>13, CommandsFrame DEF About
\* what becomes of s, by kind of operation
<1>15. /\ sub'[s] = sub[s] \/ (sub'[s] = NewStatus(op))
       /\ op # "renew" => end_date'[s] = end_date[s] /\ (s \in renewed' <=> s \in renewed)
       /\ ~ Marks(op) => /\ synced'[s] = synced[s] /\ (s \in misreported' <=> s \in misreported)
                         /\ s \in crossed' <=> s \in crossed
                         /\ sub'[s] = "active" => sub[s] = "active"
       /\ Marks(op) /\ synced'[s] => s \in misreported'
  BY <1>2, <1>3, <1>5, <1>9 DEF Consistent, SyncTypes, Flush, Noted
<1>16. /\ Marks(op) /\ sub'[s] = "active" /\ s \notin crossed'
             => ~ synced'[s] /\ \A g \in Handlers : g # h => ~ moving(g)
       /\ op = "renew" /\ s \notin renewed'
             => sub'[s] = "active" /\ \A g \in Handlers : g # h => ~ ending(g)
  BY <1>3 DEF Noted
<1>17. ASSUME NEW g \in Handlers, g # h, req[g].of = s PROVE HandlerOK(g)'
  <2>1. CASE req[g].pc = "idle"
    BY <1>8, <1>17, <2>1 DEF Consistent, HandlerOK
  <2>2. CASE req[g].pc # "idle"
    <3>1. Knows(g, s) /\ req'[g] = req[g]
      BY <1>8, <1>17, <2>2, Owns
    <3>2. Usable(s)' <=> Usable(s)
      BY <1>1 DEF Usable
    <3>3. req[g].op \in {"expire", "churn"} => end_date'[s] <= now' \/ s \in renewed'
      BY <3>1, <1>13, <1>15, <1>16, <1>17 DEF Knows
    <3>4. req[g].pc \in {"sync", "flag"} /\ sub'[s] = "active" /\ s \notin crossed'
            => /\ sub[s] = "active" /\ s \notin crossed /\ op # "renew"
      BY <1>5, <1>15, <1>16, <1>17
    <3>5. req[g].pc \in {"sync", "flag"} /\ is_active(s)' /\ s \notin crossed'
            => is_active(s) /\ s \notin crossed
      BY <3>4, <1>13, <1>15 DEF is_active
    <3>6. Knows(g, s)'
      BY <3>1, <3>2, <3>3, <3>4, <3>5 DEF Knows, Stepping
    <3> QED
      BY <3>1, <3>6, <1>17, <2>2 DEF HandlerOK
  <2> QED
    BY <2>1, <2>2
<1>18. RowTrue(s)'
  <2>1. RowTrue(s)
    BY DEF Consistent
  <2>2. AgentInstalled' /\ sub'[s] = "active" /\ synced'[s] /\ s \notin misreported'
          => Provided(s)'
    BY <2>1, <1>14, <1>15 DEF RowTrue, Stepping
  <2>3. ~ AgentInstalled' /\ is_active(s)' /\ synced'[s] /\ s \notin crossed' => Usable(s)'
    <3>1. Usable(s)' <=> Usable(s)
      BY <1>1 DEF Usable
    <3>2. is_active(s)' /\ synced'[s] /\ s \notin crossed'
            => is_active(s) /\ synced[s] /\ s \notin crossed
      BY <1>5, <1>13, <1>15, <1>16 DEF is_active
    <3> QED
      BY <2>1, <3>1, <3>2 DEF RowTrue, Stepping
  <2>4. sub'[s] \in {"expired", "inactive"} => end_date'[s] <= now' \/ s \in renewed'
    BY <2>1, <1>5, <1>13, <1>15, <1>16 DEF RowTrue
  <2> QED
    BY <2>2, <2>3, <2>4 DEF RowTrue
<1> QED
  BY <1>8, <1>11, <1>13, <1>14, <1>17, <1>18, ActsKeeps

\* Without the agent there are no commands.
LEMMA NoRows ==
    ASSUME Consistent, ~ AgentInstalled PROVE Queued = {} /\ executed = {}
BY DEF Consistent, Rows, RowOK, Queued

\* DirectCall: an account is enabled for who is active; whom an expiry cuts off has
\* come to the end, or is noted.
LEMMA DirectCallKeeps ==
    ASSUME Consistent, Stepping, NEW h \in Handlers, NEW done \in BOOLEAN, NEW told \in BOOLEAN,
           DirectCall(h, done, told)
    PROVE  Consistent'
<1> DEFINE expiry == req[h].pc = "loaded"
           st == IF expiry THEN "expired" ELSE req[h].status
<1>0. /\ ~ AgentInstalled /\ req[h].pc # "idle" /\ req[h] \in RequestRec
      /\ req[h].pc = "sync" \/ (expiry /\ req[h].op = "expire")
  BY DEF DirectCall, Consistent, SyncTypes
<1>s. PICK s \in Subscriptions : s = req[h].of
  BY <1>0, Owns
<1> DEFINE x == [req[h] EXCEPT !.pc = "flag", !.ok = told, !.status = st]
<1>1. UNCHANGED <<vars, sub, end_date, synced, command, synced_seen, ops, misreported, renewed>>
  BY DEF DirectCall
<1>2. /\ user' = [user EXCEPT ![s] = IF done THEN DirectEffect(st, @) ELSE @]
      /\ req' = [req EXCEPT ![h] = x]
      /\ crossed' = IF expiry /\ end_date[s] > now THEN crossed \cup {s} ELSE crossed
  BY <1>s DEF DirectCall
<1>3. ignored' = IF done \/ told THEN Noted(ignored, s, ~ done) ELSE ignored
  BY <1>s DEF DirectCall, Noted
<1>4. /\ done \/ told => st \in Enforced
      /\ told /\ ~ done => st = "active" /\ user[s] # "absent"
  BY <1>s DEF DirectCall
<1>5. user[s] \in Account
  BY DEF Consistent, SyncTypes
<1>6. done => /\ DirectEffect(st, user[s]) \in Account
              /\ st = "active" => DirectEffect(st, user[s]) = "enabled"
  BY <1>4, <1>5 DEF DirectEffect, Account, Blocked, Enforced
<1>7. /\ x \in RequestRec /\ x.pc = "flag" /\ x.op = req[h].op /\ x.of = s
      /\ x.ok = told /\ x.status = st
  BY <1>0, <1>s DEF RequestRec, SubscriptionStatus
<1> HIDE DEF x
<1>8. /\ req' \in [Handlers -> RequestRec] /\ req'[h] = x
      /\ \A g \in Handlers : g # h => req'[g] = req[g]
  BY <1>2, <1>7, Assign DEF Consistent
<1>9. user' \in [Subscriptions -> Account]
      /\ user'[s] = IF done THEN DirectEffect(st, user[s]) ELSE user[s]
  BY <1>2, <1>6 DEF Consistent, SyncTypes
<1>10. SyncTypes'
  BY <1>1, <1>8, <1>9 DEF Consistent, SyncTypes, Stepping
<1>11. \A t \in Subscriptions : t # s => Same(t)
  BY <1>1, <1>2, <1>3 DEF Consistent, SyncTypes, Same, Noted
<1>12. About(s) /\ Rows' /\ now' = now
  BY <1>1, <1>11, StillAbout, Untouched
\* who is asked to be enabled is, or the router has ignored it
<1>13. /\ st = "active" /\ Usable(s) => Usable(s)'
       /\ st = "active" /\ told => Usable(s)'
  <2>1. CASE done
    BY <2>1, <1>6, <1>9 DEF Usable
  <2>2. CASE ~ done /\ ~ told
    BY <2>2, <1>3, <1>9 DEF Usable
  <2>3. CASE ~ done /\ told
    <3>1. s \in ignored' /\ user'[s] \in {"enabled", "disabled"}
      BY <2>3, <1>3, <1>4, <1>5, <1>9 DEF Noted, Account
    <3> QED
      BY <3>1 DEF Usable
  <2> QED
    BY <2>1, <2>2, <2>3
<1>14. Knows(h, s) /\ sub'[s] = sub[s] /\ end_date'[s] = end_date[s] /\ synced'[s] = synced[s]
       /\ (s \in crossed => s \in crossed') /\ (s \in renewed' <=> s \in renewed)
  BY <1>0, <1>s, <1>1, <1>2, Owns
<1>15. is_active(s)' /\ s \notin crossed' => is_active(s) /\ s \notin crossed /\ st = "active"
  <2>1. SUFFICES ASSUME is_active(s)', s \notin crossed'
                 PROVE  is_active(s) /\ s \notin crossed /\ st = "active"
    OBVIOUS
  <2>2. is_active(s) /\ s \notin crossed /\ ~ expiry
    BY <2>1, <1>2, <1>12, <1>14 DEF is_active
  <2>3. req[h].pc = "sync" /\ req[h].op # "expire"
    BY <2>2, <1>0, <1>14 DEF Knows, Requests
  <2>4. req[h].status = "active"
    BY <2>2, <2>3, <1>14 DEF Knows, is_active
  <2> QED
    BY <2>2, <2>4
<1>16. HandlerOK(h)'
  <2>1. req[h].op # "expire" => req[h].pc = "sync" /\ st = req[h].status
    BY <1>0
  <2>2. sub'[s] = "active" /\ s \notin crossed' /\ req[h].op # "expire" => st = "active"
    BY <2>1, <1>14 DEF Knows
  <2> HIDE DEF st, expiry
  <2>3. Knows(h, s)'
    BY <2>2, <1>0, <1>7, <1>8, <1>12, <1>13, <1>14, <1>15 DEF Knows, Stepping
  <2> QED
    BY <2>3, <1>7, <1>8 DEF HandlerOK
<1>17. ASSUME NEW g \in Handlers, g # h, req[g].of = s PROVE HandlerOK(g)'
  <2>1. CASE req[g].pc = "idle"
    BY <1>8, <1>17, <2>1 DEF Consistent, HandlerOK
  <2>2. CASE req[g].pc # "idle"
    <3>1. Knows(g, s) /\ req'[g] = req[g]
      BY <1>8, <1>17, <2>2, Owns
    <3> HIDE DEF st, expiry
    <3>2. Knows(g, s)'
      BY <3>1, <1>12, <1>13, <1>14, <1>15 DEF Knows, Stepping
    <3> QED
      BY <3>1, <3>2, <1>17, <2>2 DEF HandlerOK
  <2> QED
    BY <2>1, <2>2
<1>18. CommandsOK(s)'
  BY <1>0, <1>1, NoRows, Untouched DEF CommandsOK
<1>19. RowTrue(s)'
  <2>1. RowTrue(s)
    BY DEF Consistent
  <2> HIDE DEF st, expiry
  <2> QED
    BY <2>1, <1>0, <1>12, <1>13, <1>14, <1>15 DEF RowTrue, Stepping
<1> QED
  BY <1>8, <1>10, <1>12, <1>16, <1>17, <1>18, <1>19, ActsKeeps

\* The handlers on s when only its status or its flag changes, and nobody becomes
\* active.
LEMMA OthersKnow ==
    ASSUME Consistent, Stepping, NEW s \in Subscriptions, NEW g \in Handlers,
           req[g].of = s, req'[g] = req[g], now' = now,
           sub'[s] = "active" => sub[s] = "active",
           end_date'[s] = end_date[s] \/ end_date'[s] <= now,
           end_date'[s] = end_date[s] \/ sub'[s] # "active",
           user'[s] = user[s], UNCHANGED flawVars
    PROVE  HandlerOK(g)'
<1>1. CASE req[g].pc = "idle"
  BY <1>1 DEF Consistent, HandlerOK
<1>2. CASE req[g].pc # "idle"
  <2>1. Knows(g, s)
    BY <1>2, Owns
  <2>2. UNCHANGED <<ignored, crossed, renewed>>
    BY DEF flawVars
  <2>3. Usable(s)' <=> Usable(s)
    BY <2>2 DEF Usable
  <2>4. is_active(s)' => is_active(s)
    BY DEF is_active
  <2>5. Knows(g, s)'
    BY <2>1, <2>2, <2>3, <2>4 DEF Knows, Stepping
  <2> QED
    BY <2>5, <1>2 DEF HandlerOK
<1> QED
  BY <1>1, <1>2

\* DirectCommit: the flag is set only for who is as the row says.
LEMMA DirectCommitKeeps ==
    ASSUME Consistent, Stepping, NEW h \in Handlers, DirectCommit(h)
    PROVE  Consistent'
<1>0. req[h].pc = "flag" /\ req[h] \in RequestRec /\ Done(h)
  BY DEF DirectCommit, Consistent, SyncTypes
<1>s. PICK s \in Subscriptions : s = req[h].of
  BY <1>0, Owns
<1>1. UNCHANGED <<vars, end_date, user, command, synced_seen, ops, flawVars>>
  BY DEF DirectCommit
<1>2. /\ synced' = [synced EXCEPT ![s] = Flush(@, req[h].synced, req[h].ok)]
      /\ sub' = IF req[h].op = "expire" THEN [sub EXCEPT ![s] = "expired"] ELSE sub
  BY <1>s DEF DirectCommit
<1>3. /\ req' \in [Handlers -> RequestRec] /\ HandlerOK(h)'
      /\ \A g \in Handlers : g # h => req'[g] = req[g]
  BY <1>0, DoneIdles DEF Consistent
<1>4. /\ sub' \in [Subscriptions -> SubscriptionStatus \cup {"none"}]
      /\ synced' \in [Subscriptions -> BOOLEAN]
      /\ synced'[s] => synced[s] \/ req[h].ok
      /\ sub'[s] = IF req[h].op = "expire" THEN "expired" ELSE sub[s]
  <2>1. synced[s] \in BOOLEAN /\ req[h].ok \in BOOLEAN
    BY <1>0 DEF Consistent, SyncTypes, RequestRec
  <2> QED
    BY <2>1, <1>2 DEF Consistent, SyncTypes, SubscriptionStatus, Flush
<1>5. SyncTypes'
  BY <1>1, <1>3, <1>4 DEF Consistent, SyncTypes, Stepping
<1>6. \A t \in Subscriptions : t # s => Same(t)
  BY <1>1, <1>2 DEF Consistent, SyncTypes, Same, flawVars
<1>7. About(s) /\ Rows' /\ now' = now
  BY <1>1, <1>6, StillAbout, Untouched
<1>8. Knows(h, s) /\ ~ AgentInstalled
  BY <1>0, <1>s, Owns DEF Knows
<1>9. \A g \in Handlers : g # h /\ req[g].of = s => HandlerOK(g)'
  BY <1>1, <1>3, <1>4, <1>7, OthersKnow
<1>10. CommandsOK(s)'
  BY <1>1, <1>8, NoRows, Untouched DEF CommandsOK
<1>11. RowTrue(s)'
  <2>1. RowTrue(s)
    BY DEF Consistent
  <2>2. UNCHANGED <<end_date, ignored, crossed, renewed>>
    BY <1>1 DEF flawVars
  <2>3. (Usable(s)' <=> Usable(s)) /\ (is_active(s)' => is_active(s) /\ req[h].op # "expire")
    BY <2>2, <1>1, <1>4, <1>7 DEF Usable, is_active
  <2>4. is_active(s)' /\ synced'[s] /\ s \notin crossed' => Usable(s)'
    BY <2>1, <2>2, <2>3, <1>0, <1>4, <1>8 DEF RowTrue, Knows
  <2>5. sub'[s] \in {"expired", "inactive"} => end_date'[s] <= now' \/ s \in renewed'
    BY <2>1, <2>2, <1>4, <1>7, <1>8 DEF RowTrue, Knows
  <2> QED
    BY <2>4, <2>5, <1>8 DEF RowTrue, Stepping
<1> QED
  BY <1>3, <1>5, <1>7, <1>9, <1>10, <1>11, ActsKeeps

\* DirectUnreachable: the flag stays, and an expiry ends who is past the end.
LEMMA UnreachableKeeps ==
    ASSUME Consistent, Stepping, NEW h \in Handlers, DirectUnreachable(h)
    PROVE  Consistent'
<1>0. /\ req[h].pc # "idle" /\ Done(h) /\ ~ AgentInstalled
      /\ UNCHANGED <<vars, end_date, synced, user, command, synced_seen, ops, flawVars>>
  BY DEF DirectUnreachable
<1>s. PICK s \in Subscriptions : s = req[h].of
  BY <1>0, Owns
<1>1. /\ req' \in [Handlers -> RequestRec] /\ HandlerOK(h)'
      /\ \A g \in Handlers : g # h => req'[g] = req[g]
  BY <1>0, DoneIdles DEF Consistent
<1>2. CASE UNCHANGED sub
  <2>1. SyncTypes'
    BY <1>0, <1>1, <1>2 DEF Consistent, SyncTypes, Stepping
  <2>2. \A t \in Subscriptions : Same(t)
    BY <1>0, <1>2 DEF Same, flawVars
  <2> QED
    BY <1>0, <1>1, <2>1, <2>2, MovesOn
<1>3. CASE req[h].op = "expire" /\ sub' = [sub EXCEPT ![s] = "expired"]
  <2>1. SyncTypes' /\ sub'[s] = "expired"
    BY <1>0, <1>1, <1>3 DEF Consistent, SyncTypes, SubscriptionStatus, Stepping
  <2>2. \A t \in Subscriptions : t # s => Same(t)
    BY <1>0, <1>3 DEF Consistent, SyncTypes, Same, flawVars
  <2>3. About(s) /\ Rows' /\ now' = now
    BY <1>0, <2>2, StillAbout, Untouched
  <2>4. \A g \in Handlers : g # h /\ req[g].of = s => HandlerOK(g)'
    BY <1>0, <1>1, <2>1, <2>3, OthersKnow
  <2>5. CommandsOK(s)'
    BY <1>0, NoRows, Untouched DEF CommandsOK
  <2>6. end_date[s] <= now \/ s \in renewed
    BY <1>0, <1>s, <1>3, Owns DEF Knows
  <2>7. RowTrue(s)'
    BY <1>0, <2>1, <2>3, <2>6 DEF RowTrue, is_active, flawVars
  <2> QED
    BY <1>1, <2>1, <2>3, <2>4, <2>5, <2>7, ActsKeeps
<1> QED
  BY <1>2, <1>3, <1>s DEF DirectUnreachable

-----------------------------------------------------------------------------
(***************************************************************************)
(* The handlers' steps that queue a command.                               *)
(***************************************************************************)

\* The commands of a subscription are queued ones.
LEMMA OfIsQueued ==
    ASSUME Consistent, NEW s \in Subscriptions, NEW c \in Commands, command[c].of = s
    PROVE  c \in Queued /\ RowOK(c)
<1>1. command[c] # NoCommand
  BY SyncAssumption DEF NoCommand
<1> QED
  BY <1>1 DEF Consistent, Rows, Queued

\* One command is added, it is younger than all others, and it knows who of them
\* is still alive.
LEMMA QueuedOne ==
    ASSUME Consistent, QueueFacts, NEW s \in Subscriptions, NEW action \in Actions,
           NEW p \in {2, 3}, NEW sync \in BOOLEAN, QueueFor(s, action, p, sync)
    PROVE  /\ command' \in [Commands -> CommandRec]
           /\ executed' = executed /\ now' = now /\ batch' = batch
           /\ \E c \in Commands :
                 /\ c \notin Queued /\ Queued' = Queued \cup {c} /\ status'[c] = "pending"
                 /\ command'[c].action = action /\ command'[c].of = s
                 /\ command'[c].sync = sync /\ command'[c].seq = Cardinality(Queued)
                 /\ \A d \in Queued : command[d].of = s /\ ~ Dead(d)
                                         => command[d].action \in command'[c].amid
                 /\ \A d \in Commands : d # c => command'[d] = command[d]
                                                 /\ status'[d] = status[d]
<1> DEFINE amid == {command[d].action : d \in {e \in CommandsOf(s) : Live(e)}}
           x == [action |-> action, of |-> s, sync |-> sync, seq |-> Cardinality(Queued),
                 amid |-> amid]
<1>1. PICK c \in Commands : queue_command(c, p) /\ command' = [command EXCEPT ![c] = x]
  BY DEF QueueFor, Queued
<1>2. /\ status[c] = "none" /\ executed' = executed /\ now' = now /\ batch' = batch
      /\ status' = [status EXCEPT ![c] = "pending"]
  BY <1>1 DEF queue_command, agentVars
<1>3. c \notin Queued /\ Queued' = Queued \cup {c} /\ status'[c] = "pending"
      /\ \A d \in Commands : d # c => status'[d] = status[d]
  BY <1>2 DEF Queued, QueueFacts, TypeOK
<1>4. Cardinality(Queued) \in Nat
  BY FS_CardinalityType DEF Consistent, Rows
<1>5. amid \subseteq Actions
  BY OfIsQueued DEF CommandsOf, RowOK
<1>6. \A d \in Queued : command[d].of = s /\ ~ Dead(d) => command[d].action \in amid
  BY DEF Queued, Dead, Live, CommandsOf
<1> HIDE DEF amid
<1>7. /\ x \in CommandRec /\ x.action = action /\ x.of = s /\ x.sync = sync
      /\ x.seq = Cardinality(Queued) /\ x.amid = amid
  BY <1>4, <1>5 DEF CommandRec
<1> HIDE DEF x
<1>8. /\ command' \in [Commands -> CommandRec] /\ command'[c] = x
      /\ \A d \in Commands : d # c => command'[d] = command[d]
  BY <1>1, <1>7 DEF Consistent, SyncTypes
<1> QED
  BY <1>2, <1>3, <1>6, <1>7, <1>8

\* The table is in order with it, no other subscription has to do with it, and it
\* is not executed yet.
LEMMA QueueForKeeps ==
    ASSUME Consistent, Stepping, AgentInstalled, NEW s \in Subscriptions, NEW action \in Actions,
           NEW p \in {2, 3}, NEW sync \in BOOLEAN, QueueFor(s, action, p, sync),
           sync => action # "remove_user"
    PROVE  /\ command' \in [Commands -> CommandRec] /\ Rows' /\ now' = now
           /\ executed' \subseteq Commands
           /\ \A t \in Subscriptions : t # s => SameCommands(t)
           /\ CommandsOK(s)'
           /\ action # "remove_user" /\ user'[s] = user[s] /\ Provided(s) => Provided(s)'
<1>1. command' \in [Commands -> CommandRec] /\ executed' = executed /\ now' = now
  BY QueuedOne DEF Stepping
<1>2. PICK c \in Commands :
        /\ c \notin Queued /\ Queued' = Queued \cup {c} /\ status'[c] = "pending"
        /\ command'[c].action = action /\ command'[c].of = s
        /\ command'[c].sync = sync /\ command'[c].seq = Cardinality(Queued)
        /\ \A d \in Queued : command[d].of = s /\ ~ Dead(d)
                                => command[d].action \in command'[c].amid
        /\ \A d \in Commands : d # c => command'[d] = command[d] /\ status'[d] = status[d]
  BY QueuedOne DEF Stepping
<1>r. Rows
  BY DEF Consistent
<1>3. IsFiniteSet(Queued') /\ Cardinality(Queued') = Cardinality(Queued) + 1
      /\ Cardinality(Queued) \in Nat
  BY <1>2, <1>r, FS_AddElement, FS_CardinalityType DEF Rows
<1>4. \A d \in Queued : d # c /\ d \in Commands /\ command[d].seq < Cardinality(Queued)
                        /\ command[d].seq \in Nat
  BY <1>2, <1>r DEF Rows, RowOK, Queued, Consistent, SyncTypes, CommandRec
<1>5. ASSUME NEW d \in Commands
      PROVE  IF status'[d] = "none" THEN command'[d] = NoCommand ELSE RowOK(d)'
  <2>1. CASE d = c
    BY <2>1, <1>2, <1>3 DEF RowOK, Stepping
  <2>2. CASE d # c /\ status[d] = "none"
    BY <2>2, <1>2, <1>r DEF Rows
  <2>3. CASE d # c /\ status[d] # "none"
    <3>1. RowOK(d) /\ command'[d] = command[d] /\ status'[d] = status[d] /\ d \in Queued
      BY <2>3, <1>2, <1>r DEF Rows, Queued
    <3> QED
      BY <3>1, <2>3, <1>3, <1>4 DEF RowOK, Stepping
  <2> QED
    BY <2>1, <2>2, <2>3
<1>6. \A d, e \in Queued' : command'[d].seq = command'[e].seq => d = e
  BY <1>2, <1>3, <1>4, <1>r DEF Rows
<1>7. ASSUME NEW d \in Queued', NEW e \in Queued', command'[d].of = command'[e].of,
             command'[e].seq < command'[d].seq, ~ Dead(e)'
      PROVE  command'[e].action \in command'[d].amid
  <2>1. e # c
    BY <1>2, <1>3, <1>4, <1>7
  <2>2. e \in Queued /\ command'[e] = command[e] /\ ~ Dead(e)
    BY <2>1, <1>2, <1>7 DEF Queued, Stepping, Settles
  <2>3. CASE d = c
    BY <2>2, <2>3, <1>2, <1>7
  <2>4. CASE d # c
    BY <2>2, <2>4, <1>2, <1>4, <1>7, <1>r DEF Rows
  <2> QED
    BY <2>3, <2>4
<1>8. Rows'
  <2>1. executed' \subseteq Queued'
    BY <1>1, <1>2, <1>r DEF Rows
  <2> QED
    BY <2>1, <1>3, <1>5, <1>6, <1>7 DEF Rows
<1>9. executed \subseteq Queued /\ executed' \subseteq Commands /\ c \notin executed
  BY <1>1, <1>2, <1>r DEF Rows, Queued
<1>10. ASSUME NEW t \in Subscriptions, t # s PROVE SameCommands(t)
  <2>1. command[c].of # t
    BY <1>2, OfIsQueued
  <2> QED
    BY <2>1, <1>1, <1>2, <1>10 DEF SameCommands
<1>11. CommandsOK(s)'
  <2>1. ASSUME NEW d \in executed', Youngest(s, d)' PROVE FALSE
    <3>1. d \in Queued /\ command'[d] = command[d]
      BY <2>1, <1>1, <1>2, <1>4, <1>9
    <3>2. command'[c].seq <= command'[d].seq
      BY <2>1, <1>2 DEF Youngest
    <3> QED
      BY <3>1, <3>2, <1>2, <1>3, <1>4
  <2> QED
    BY <2>1 DEF CommandsOK
<1>12. ASSUME action # "remove_user", user'[s] = user[s], Provided(s) PROVE Provided(s)'
  <2>1. PICK d \in executed :
          /\ command[d].of = s /\ command[d].action = "create_user"
          /\ user[s] # "absent" \/ "remove_user" \in command[d].amid
          /\ \A e \in Queued : command[e].of = s /\ command[e].action = "remove_user"
                                  => command[e].seq < command[d].seq
    BY <1>12 DEF Provided
  <2>2. d \in Queued /\ command'[d] = command[d]
    BY <1>2, <1>4, <1>9
  <2>3. \A e \in Queued' : command'[e].of = s /\ command'[e].action = "remove_user"
                              => command'[e].seq < command'[d].seq
    BY <2>1, <2>2, <1>2, <1>4, <1>12
  <2> QED
    BY <2>1, <2>2, <2>3, <1>1, <1>12 DEF Provided
<1> QED
  BY <1>1, <1>8, <1>9, <1>10, <1>11, <1>12

\* SyncViaQueue: what is queued is not a removal, or nothing is.
LEMMA SyncViaQueueKeeps ==
    ASSUME Consistent, Stepping, NEW h \in Handlers, SyncViaQueue(h)
    PROVE  Consistent'
<1>0. /\ req[h].pc # "idle" /\ AgentInstalled /\ Done(h)
      /\ UNCHANGED <<sub, end_date, synced, user, synced_seen, ops, flawVars>>
      /\ _sync_via_agent_queue(req[h].of, req[h].status)
  BY DEF SyncViaQueue
<1>s. PICK s \in Subscriptions : s = req[h].of
  BY <1>0, Owns
<1>1. /\ req' \in [Handlers -> RequestRec] /\ HandlerOK(h)'
      /\ \A g \in Handlers : g # h => req'[g] = req[g]
  BY <1>0, DoneIdles DEF Consistent
<1>2. \A t \in Subscriptions : Same(t)
  BY <1>0 DEF Same, flawVars
<1>3. CASE UNCHANGED <<vars, command>>
  <2>1. SyncTypes'
    BY <1>0, <1>1, <1>3 DEF Consistent, SyncTypes, Stepping
  <2> QED
    BY <1>1, <1>2, <1>3, <2>1, MovesOn
<1>4. ASSUME NEW action \in {"create_user", "disable_user"}, NEW p \in {2, 3},
             QueueFor(s, action, p, TRUE)
      PROVE  Consistent'
  <2>0. action \in Actions /\ action # "remove_user" /\ user'[s] = user[s]
    BY <1>0 DEF Actions
  <2>1. /\ command' \in [Commands -> CommandRec] /\ Rows' /\ now' = now
        /\ executed' \subseteq Commands
        /\ \A t \in Subscriptions : t # s => SameCommands(t)
        /\ CommandsOK(s)' /\ (Provided(s) => Provided(s)')
    BY <1>0, <1>4, <2>0, QueueForKeeps
  <2>2. SyncTypes'
    BY <1>0, <1>1, <2>1 DEF Consistent, SyncTypes, Stepping
  <2>3. About(s)
    BY <1>2, <2>1 DEF About, Stepping, Consistent, Rows, Queued
  <2>4. \A g \in Handlers : g # h /\ req[g].of = s => HandlerOK(g)'
    BY <1>0, <1>1, <2>1, OthersKnow
  <2>5. RowTrue(s)'
    <3>1. RowTrue(s)
      BY DEF Consistent
    <3> QED
      BY <3>1, <1>0, <2>1 DEF RowTrue, flawVars, Stepping
  <2> QED
    BY <1>1, <2>1, <2>2, <2>3, <2>4, <2>5, ActsKeeps
<1> QED
  BY <1>0, <1>3, <1>4, <1>s DEF _sync_via_agent_queue

\* A task ends s, with or without a command, and is done.
LEMMA TaskEnds ==
    ASSUME Consistent, Stepping, NEW h \in Handlers, req[h].pc # "idle", Done(h),
           NEW s \in Subscriptions, s = req[h].of,
           NEW st \in {"expired", "inactive", "none"}, sub' = [sub EXCEPT ![s] = st],
           st # "none" => UNCHANGED <<end_date, synced>> /\ req[h].op \in {"expire", "churn"},
           st = "none" => /\ end_date' = [end_date EXCEPT ![s] = 0]
                          /\ synced' = [synced EXCEPT ![s] = FALSE],
           UNCHANGED <<user, synced_seen, ops, flawVars>>,
           IF AgentInstalled
           THEN \E action \in Actions, p \in {2, 3}, sync \in BOOLEAN :
                    QueueFor(s, action, p, sync) /\ (sync => action # "remove_user")
           ELSE UNCHANGED <<vars, command>>
    PROVE  Consistent'
<1>1. /\ req' \in [Handlers -> RequestRec] /\ HandlerOK(h)'
      /\ \A g \in Handlers : g # h => req'[g] = req[g]
  BY DoneIdles DEF Consistent
<1>2. /\ sub' \in [Subscriptions -> SubscriptionStatus \cup {"none"}]
      /\ end_date' \in [Subscriptions -> Nat] /\ synced' \in [Subscriptions -> BOOLEAN]
      /\ sub'[s] = st /\ (st = "none" => end_date'[s] = 0)
      /\ st # "none" => end_date'[s] = end_date[s]
  <2>1. CASE st = "none"
    <3>1. /\ end_date' = [end_date EXCEPT ![s] = 0] /\ synced' = [synced EXCEPT ![s] = FALSE]
          /\ sub' = [sub EXCEPT ![s] = "none"]
      BY <2>1
    <3>2. /\ sub \in [Subscriptions -> SubscriptionStatus \cup {"none"}]
          /\ end_date \in [Subscriptions -> Nat] /\ synced \in [Subscriptions -> BOOLEAN]
      BY DEF Consistent, SyncTypes
    <3>3. /\ sub' \in [Subscriptions -> SubscriptionStatus \cup {"none"}] /\ sub'[s] = st
          /\ synced' \in [Subscriptions -> BOOLEAN]
      BY <2>1, <3>1, <3>2
    <3>4. end_date' \in [Subscriptions -> Nat] /\ end_date'[s] = 0
      BY <3>1, <3>2
    <3> QED
      BY <2>1, <3>3, <3>4
  <2>2. CASE st # "none"
    BY <2>2 DEF Consistent, SyncTypes, SubscriptionStatus
  <2> QED
    BY <2>1, <2>2
<1>3. \A t \in Subscriptions : t # s => Same(t)
  BY DEF Consistent, SyncTypes, Same, flawVars
<1>4. /\ command' \in [Commands -> CommandRec] /\ Rows' /\ now' = now /\ About(s)
      /\ CommandsOK(s)'
  <2>1. CASE AgentInstalled
    <3>1. PICK action \in Actions, p \in {2, 3}, sync \in BOOLEAN :
             QueueFor(s, action, p, sync) /\ (sync => action # "remove_user")
      BY <2>1
    <3>3. /\ command' \in [Commands -> CommandRec] /\ Rows' /\ now' = now
          /\ executed' \subseteq Commands
          /\ \A t \in Subscriptions : t # s => SameCommands(t)
          /\ CommandsOK(s)'
      BY <2>1, <3>1, QueueForKeeps
    <3>4. About(s)
      BY <1>3, <3>3 DEF About, Stepping, Consistent, Rows, Queued
    <3> QED
      BY <3>3, <3>4
  <2>2. CASE ~ AgentInstalled
    <3>1. UNCHANGED <<vars, command>>
      BY <2>2
    <3>2. About(s) /\ Rows' /\ now' = now
      BY <3>1, <1>3, StillAbout, Untouched
    <3>3. CommandsOK(s)'
      BY <3>1, <2>2, NoRows, Untouched DEF CommandsOK
    <3> QED
      BY <3>1, <3>2, <3>3 DEF Consistent, SyncTypes
  <2> QED
    BY <2>1, <2>2
<1>5. SyncTypes'
  BY <1>1, <1>2, <1>4 DEF Consistent, SyncTypes, Stepping
<1>6. \A g \in Handlers : g # h /\ req[g].of = s => HandlerOK(g)'
  <2>1. /\ sub'[s] # "active" /\ (end_date'[s] = end_date[s] \/ end_date'[s] <= now)
    BY <1>2 DEF Stepping
  <2> QED
    BY <1>1, <1>4, <2>1, OthersKnow
<1>7. RowTrue(s)'
  <2>1. st # "none" => end_date[s] <= now \/ s \in renewed
    BY Owns DEF Knows
  <2> QED
    BY <2>1, <1>2, <1>4 DEF RowTrue, is_active, flawVars
<1> QED
  BY <1>1, <1>4, <1>5, <1>6, <1>7, ActsKeeps

\* ExpireCommit, ChurnCommit and PurgeCommit.
LEMMA TasksKeep ==
    ASSUME Consistent, Stepping, NEW h \in Handlers,
           ExpireCommit(h) \/ ChurnCommit(h) \/ PurgeCommit(h)
    PROVE  Consistent'
<1>0. req[h].pc = "loaded" /\ Done(h)
  BY DEF ExpireCommit, ChurnCommit, PurgeCommit
<1>s. PICK s \in Subscriptions : s = req[h].of
  BY <1>0, Owns
<1>1. CASE ExpireCommit(h)
  <2>1. /\ AgentInstalled /\ req[h].op = "expire" /\ sub' = [sub EXCEPT ![s] = "expired"]
        /\ UNCHANGED <<end_date, synced, user, synced_seen, ops, flawVars>>
    BY <1>1, <1>s DEF ExpireCommit
  <2>2. QueueFor(s, "disable_user", 2, TRUE)
    BY <1>1, <1>s DEF ExpireCommit, _sync_via_agent_queue, Blocked, Enforced
  <2>3. \E action \in Actions, p \in {2, 3}, sync \in BOOLEAN :
           QueueFor(s, action, p, sync) /\ (sync => action # "remove_user")
    BY <2>2 DEF Actions
  <2> QED
    BY <1>0, <1>s, <2>1, <2>3, TaskEnds
<1>2. ASSUME QueueFor(s, "remove_user", 3, FALSE)
      PROVE  \E action \in Actions, p \in {2, 3}, sync \in BOOLEAN :
                QueueFor(s, action, p, sync) /\ (sync => action # "remove_user")
  BY <1>2 DEF Actions
<1>3. CASE ChurnCommit(h)
  <2>1. /\ req[h].op = "churn" /\ sub' = [sub EXCEPT ![s] = "inactive"]
        /\ UNCHANGED <<end_date, synced, user, synced_seen, ops, flawVars>>
        /\ IF AgentInstalled THEN QueueFor(s, "remove_user", 3, FALSE)
                             ELSE UNCHANGED <<vars, command>>
    BY <1>3, <1>s DEF ChurnCommit
  <2> QED
    BY <1>0, <1>s, <1>2, <2>1, TaskEnds
<1>4. CASE PurgeCommit(h)
  <2>1. /\ sub' = [sub EXCEPT ![s] = "none"] /\ end_date' = [end_date EXCEPT ![s] = 0]
        /\ synced' = [synced EXCEPT ![s] = FALSE]
        /\ UNCHANGED <<user, synced_seen, ops, flawVars>>
        /\ IF AgentInstalled THEN QueueFor(s, "remove_user", 3, FALSE)
                             ELSE UNCHANGED <<vars, command>>
    BY <1>4, <1>s DEF PurgeCommit
  <2> QED
    BY <1>0, <1>s, <1>2, <2>1, TaskEnds
<1> QED
  BY <1>1, <1>3, <1>4

-----------------------------------------------------------------------------
(***************************************************************************)
(* The router's steps and the queue's own.                                 *)
(***************************************************************************)

\* A step of the queue that changes nothing for subscriptions, but for the links
\* of commands to rows.
LEMMA PlainKeeps ==
    ASSUME Consistent, Stepping, PlainStep, Relinked, synced_seen' \in [Runs -> BOOLEAN],
           UNCHANGED <<sub, end_date, synced, user, req, ops, flawVars>>
    PROVE  Consistent'
<1>1. Queued' = Queued /\ executed' = executed
  BY PlainQueuesNothing DEF Stepping
<1>2. \A t \in Subscriptions : Same(t)
  BY DEF Same, flawVars
<1>3. About("none") /\ Rows'
  BY <1>1, <1>2, StillAbout
<1>4. ASSUME NEW g \in Handlers PROVE HandlerOK(g)'
  <2>1. CASE req[g].pc = "idle"
    BY <2>1 DEF Consistent, HandlerOK
  <2>2. CASE req[g].pc # "idle"
    BY <1>3, <2>2, Owns, HandlerFrame, SyncAssumption
  <2> QED
    BY <2>1, <2>2
<1>5. \A t \in Subscriptions : CommandsOK(t)' /\ RowTrue(t)'
  BY <1>3, RowFrame, SyncAssumption
<1>6. SyncTypes'
  BY DEF Consistent, SyncTypes, Relinked, Stepping
<1> QED
  BY <1>3, <1>4, <1>5, <1>6 DEF Consistent

\* ExecuteOnRouter: the account follows the youngest command, unless an older one
\* with the opposite effect is alive, which the youngest one knows.
LEMMA ExecuteKeeps ==
    ASSUME Consistent, Stepping, NEW r \in Runs, NEW o \in Outcomes, NEW done \in BOOLEAN,
           ExecuteOnRouter(r, o, done)
    PROVE  Consistent'
<1>0. pc[r] = "executing" /\ Execute(r, o)
  BY DEF ExecuteOnRouter, Execute
<1>c. PICK c \in Commands : c = Head(batch[r]) /\ c \in Queued /\ ~ Dead(c)
  BY <1>0, HeadInHand DEF Stepping, Dead, Queued
<1>1. RowOK(c)
  BY <1>c DEF Consistent, Rows, Queued
<1>s. PICK s \in Subscriptions : s = command[c].of
  BY <1>1 DEF RowOK
<1> DEFINE action == command[c].action
<1>2. /\ action = "remove_user" => o = "success"
      /\ action # "remove_user" => done = (o = "success")
      /\ user' = IF done THEN [user EXCEPT ![s] = AgentEffect(action, @)] ELSE user
      /\ UNCHANGED <<sub, end_date, synced, command, synced_seen, ops, req,
                     misreported, crossed, renewed>>
  BY <1>c, <1>s DEF ExecuteOnRouter
<1>3. ignored' = IF action = "remove_user"
                 THEN Noted(ignored, s, ~ done /\ user[s] # "absent") ELSE ignored
  BY <1>c, <1>s DEF ExecuteOnRouter, Noted
<1>4. /\ executed' = IF o = "success" THEN executed \cup {c} ELSE executed
      /\ status' = status /\ now' = now
  BY <1>0, <1>c DEF Execute, rowVars
<1>5. action \in Actions /\ AgentInstalled /\ user[s] \in Account
  BY <1>1 DEF RowOK, Consistent, SyncTypes
<1>6. /\ AgentEffect(action, user[s]) \in Account
      /\ action = "create_user" => AgentEffect(action, user[s]) # "absent"
      /\ action = "disable_user" => /\ AgentEffect(action, user[s]) # "enabled"
                                    /\ user[s] # "absent" => AgentEffect(action, user[s]) # "absent"
                                    /\ user[s] = "absent" => AgentEffect(action, user[s]) = "absent"
      /\ action = "remove_user" => AgentEffect(action, user[s]) = "absent"
  BY <1>5 DEF AgentEffect, Account, Actions
<1>7. /\ user' \in [Subscriptions -> Account]
      /\ user'[s] = IF done THEN AgentEffect(action, user[s]) ELSE user[s]
      /\ \A t \in Subscriptions : t # s => user'[t] = user[t]
  BY <1>2, <1>6 DEF Consistent, SyncTypes
<1>8. SyncTypes'
  BY <1>2, <1>7 DEF Consistent, SyncTypes, Stepping
<1>9. Queued' = Queued /\ executed \subseteq Queued /\ executed' \subseteq Queued'
      /\ executed \subseteq Commands /\ executed' \subseteq Commands
  BY <1>4, <1>c DEF Queued, Consistent, Rows
<1>10. Rows'
  <2>1. Relinked
    BY <1>2 DEF Relinked, Consistent, SyncTypes
  <2> QED
    BY <2>1, <1>9, RowsKept DEF Stepping
<1>11. \A t \in Subscriptions : t # s => Same(t) /\ SameCommands(t)
  <2>1. ASSUME NEW t \in Subscriptions, t # s PROVE Same(t)
    BY <1>2, <1>3, <1>7, <2>1 DEF Same, Noted
  <2>2. ASSUME NEW t \in Subscriptions, t # s PROVE SameCommands(t)
    BY <1>2, <1>4, <1>9, <1>s, <2>2 DEF SameCommands
  <2> QED
    BY <2>1, <2>2
<1>12. About(s)
  BY <1>9, <1>11 DEF About, Stepping
<1>13. ASSUME NEW g \in Handlers PROVE HandlerOK(g)'
  <2>1. CASE req[g].of # s
    BY <2>1, <1>2, <1>12, HandlerFrame
  <2>2. CASE req[g].of = s /\ req[g].pc = "idle"
    BY <2>2, <1>2 DEF Consistent, HandlerOK
  <2>3. CASE req[g].of = s /\ req[g].pc # "idle"
    <3>1. Knows(g, s) /\ req[g].pc # "flag"
      BY <2>3, <1>5, Owns DEF Knows
    <3>2. Knows(g, s)'
      BY <3>1, <1>2, <1>4 DEF Knows, Stepping
    <3> QED
      BY <3>2, <2>3, <1>2 DEF HandlerOK
  <2> QED
    BY <2>1, <2>2, <2>3
\* what an execution of c may do to the account that d has left behind
<1>14. ASSUME NEW d \in Queued, command[d].of = s,
              command[c].seq < command[d].seq \/ c = d
       PROVE  action \in command[d].amid \/ c = d
  BY <1>14, <1>c, <1>s DEF Consistent, Rows
<1> HIDE DEF action
<1>15. CommandsOK(s)'
  <2> SUFFICES ASSUME NEW d \in executed', Youngest(s, d)' PROVE Left(s, d)'
    BY DEF CommandsOK
  <2>1. d \in Queued /\ d \in Commands /\ command[d].of = s /\ command'[d] = command[d]
    BY <1>2, <1>9 DEF Youngest, Queued
  <2>2. Youngest(s, d)
    BY <1>2, <1>9 DEF Youngest
  <2>3. command[c].seq <= command[d].seq /\ command[c].seq \in Nat /\ command[d].seq \in Nat
    BY <2>2, <1>c, <1>s, <2>1 DEF Youngest, Consistent, SyncTypes, CommandRec
  <2>4. command[c].seq < command[d].seq \/ c = d
    BY <2>1, <2>3, <1>c DEF Consistent, Rows
  <2>5. CASE c = d /\ o = "success"
    BY <2>1, <2>5, <1>2, <1>3, <1>6, <1>7 DEF Left, Noted, action
  <2>6. CASE ~ (c = d /\ o = "success")
    <3>1. d \in executed
      BY <2>6, <1>4
    <3>2. Left(s, d)
      BY <3>1, <2>2 DEF Consistent, CommandsOK
    <3>3. CASE c = d
      <4>1. ~ done /\ action # "remove_user"
        BY <3>3, <2>6, <1>2
      <4> QED
        BY <4>1, <3>2, <2>1, <1>3, <1>7 DEF Left
    <3>4. CASE c # d
      <4>1. action \in command[d].amid
        BY <3>4, <2>1, <2>4, <1>14
      <4>2. action \in {"create_user", "disable_user", "remove_user"}
        BY <1>5 DEF Actions
      <4>3. CASE action = "create_user"
        BY <4>1, <4>3, <3>2, <2>1, <1>3, <1>6, <1>7 DEF Left
      <4>4. CASE action = "disable_user"
        BY <4>1, <4>4, <3>2, <2>1, <1>3, <1>6, <1>7 DEF Left
      <4>5. CASE action = "remove_user"
        BY <4>1, <4>5, <3>2, <2>1, <1>3, <1>6, <1>7 DEF Left, Noted
      <4> QED
        BY <4>2, <4>3, <4>4, <4>5
    <3> QED
      BY <3>3, <3>4
  <2> QED
    BY <2>5, <2>6
<1>16. Provided(s) => Provided(s)'
  <2> SUFFICES ASSUME Provided(s) PROVE Provided(s)'
    OBVIOUS
  <2>1. PICK d \in executed :
          /\ command[d].of = s /\ command[d].action = "create_user"
          /\ user[s] # "absent" \/ "remove_user" \in command[d].amid
          /\ \A e \in Queued : command[e].of = s /\ command[e].action = "remove_user"
                                  => command[e].seq < command[d].seq
    BY DEF Provided
  <2>2. d \in Queued /\ d \in executed' /\ command' = command
    BY <1>2, <1>4, <1>9
  <2>3. user'[s] # "absent" \/ "remove_user" \in command[d].amid
    <3>1. CASE action = "remove_user"
      <4>1. command[c].seq < command[d].seq
        BY <3>1, <2>1, <1>c, <1>s DEF action
      <4>2. c # d
        BY <3>1, <2>1 DEF action
      <4> QED
        BY <4>1, <4>2, <3>1, <2>1, <2>2, <1>14
    <3>2. CASE action # "remove_user"
      <4>1. user[s] # "absent" => user'[s] # "absent"
        BY <3>2, <1>5, <1>6, <1>7 DEF Actions
      <4> QED
        BY <4>1, <2>1
    <3> QED
      BY <3>1, <3>2
  <2> QED
    BY <2>1, <2>2, <2>3, <1>9 DEF Provided
<1>17. RowTrue(s)'
  <2>1. RowTrue(s)
    BY DEF Consistent
  <2> QED
    BY <2>1, <1>2, <1>4, <1>5, <1>16 DEF RowTrue, Stepping
<1>18. \A t \in Subscriptions : CommandsOK(t)' /\ RowTrue(t)'
  BY <1>12, <1>15, <1>17, RowFrame
<1> QED
  BY <1>8, <1>10, <1>13, <1>18 DEF Consistent

\* ReportLoadSub: the link of a command whose row is gone is cut.
LEMMA ReportLoadKeeps ==
    ASSUME Consistent, Stepping, NEW r \in Runs, ReportLoadSub(r)
    PROVE  Consistent'
<1>0. ReportLoad(r) /\ pc[r] # "idle"
      /\ UNCHANGED <<sub, end_date, synced, user, req, ops, flawVars>>
  BY DEF ReportLoadSub, ReportLoad
<1>1. PICK c \in Commands : c = Head(batch[r]) /\ c \in Queued
  BY <1>0, HeadInHand DEF Stepping, Queued
<1>2. RowOK(c)
  BY <1>1 DEF Consistent, Rows, Queued
<1> DEFINE x == [command[c] EXCEPT !.sync = @ /\ sub[command[c].of] # "none"]
<1>3. /\ synced_seen' = [synced_seen EXCEPT ![r] = synced[command[c].of]]
      /\ command' = [command EXCEPT ![c] = x]
  BY <1>1 DEF ReportLoadSub
<1>4. command[c] \in CommandRec /\ synced[command[c].of] \in BOOLEAN
  BY <1>2 DEF RowOK, Consistent, SyncTypes
<1>5. /\ x \in CommandRec /\ x.action = command[c].action /\ x.of = command[c].of
      /\ x.seq = command[c].seq /\ x.amid = command[c].amid /\ (x.sync => command[c].sync)
  BY <1>4 DEF CommandRec
<1> HIDE DEF x
<1>6. command' \in [Commands -> CommandRec] /\ command'[c] = x
      /\ \A d \in Commands : d # c => command'[d] = command[d]
  BY <1>3, <1>5 DEF Consistent, SyncTypes
<1>7. command[c] # NoCommand
  BY <1>2 DEF RowOK, NoCommand, Actions
<1>8. Relinked
  BY <1>5, <1>6, <1>7 DEF Relinked
<1>9. synced_seen' \in [Runs -> BOOLEAN]
  BY <1>3, <1>4 DEF Consistent, SyncTypes
<1> QED
  BY <1>0, <1>8, <1>9, PlainKeeps DEF PlainStep

\* ReportLostSub changes nothing but the handler's copy.
LEMMA ReportLostKeeps ==
    ASSUME Consistent, Stepping, NEW r \in Runs, ReportLostSub(r)
    PROVE  Consistent'
<1>1. ReportLost(r) /\ UNCHANGED <<sub, end_date, synced, user, command, req, ops, flawVars>>
  BY DEF ReportLostSub
<1>2. synced_seen' \in [Runs -> BOOLEAN] /\ Relinked
  BY <1>1 DEF ReportLostSub, Consistent, SyncTypes, Relinked
<1> QED
  BY <1>1, <1>2, PlainKeeps DEF PlainStep

\* ReportCommitSub: the flag of an active subscription is set by its youngest
\* command, a create_user that was executed, or the report is noted.
LEMMA ReportCommitKeeps ==
    ASSUME Consistent, Stepping, NEW r \in Runs, ReportCommitSub(r)
    PROVE  Consistent'
<1>0. ReportCommit(r) /\ pc[r] = "loaded"
      /\ UNCHANGED <<sub, end_date, user, command, req, ops, ignored, crossed, renewed>>
  BY DEF ReportCommitSub, ReportCommit
<1>c. PICK c \in Commands : c = Head(batch[r]) /\ c \in Queued
  BY <1>0, HeadInHand DEF Stepping, Queued
<1>1. RowOK(c)
  BY <1>c DEF Consistent, Rows, Queued
<1>s. PICK s \in Subscriptions : s = command[c].of
  BY <1>1 DEF RowOK
<1> DEFINE marks == outcome[r] = "success" /\ command[c].sync
           right == Latest(s, c) /\ (sub[s] = "active" => command[c].action = "create_user")
<1>2. /\ synced' = IF marks THEN [synced EXCEPT ![s] = Flush(@, synced_seen[r], TRUE)] ELSE synced
      /\ synced_seen' = [synced_seen EXCEPT ![r] = FALSE]
  BY <1>c, <1>s DEF ReportCommitSub
<1>3. misreported' = IF synced' # synced THEN Noted(misreported, s, ~ right) ELSE misreported
  BY <1>c, <1>s DEF ReportCommitSub, Noted
<1> HIDE DEF right
<1>4. /\ synced' \in [Subscriptions -> BOOLEAN] /\ synced_seen' \in [Runs -> BOOLEAN]
      /\ \A t \in Subscriptions : t # s => synced'[t] = synced[t]
      /\ synced' # synced => marks /\ synced'[s]
  BY <1>2 DEF Consistent, SyncTypes, Flush
<1>5. PlainStep
  BY <1>0 DEF PlainStep
<1>6. Queued' = Queued /\ executed' = executed
  BY <1>5, PlainQueuesNothing DEF Stepping
<1>7. Relinked /\ SyncTypes'
  BY <1>0, <1>4 DEF Relinked, Consistent, SyncTypes, Stepping
<1>8. \A t \in Subscriptions : t # s => Same(t)
  BY <1>0, <1>3, <1>4 DEF Same, Noted
<1>9. About(s) /\ Rows' /\ SameCommands(s)
  BY <1>6, <1>7, <1>8, StillAbout
<1>n. now' = now
  BY <1>0 DEF ReportCommit
<1>10. ASSUME NEW g \in Handlers PROVE HandlerOK(g)'
  <2>1. CASE req[g].of # s
    BY <2>1, <1>0, <1>9, HandlerFrame
  <2>2. CASE req[g].of = s /\ req[g].pc = "idle"
    BY <2>2, <1>0 DEF Consistent, HandlerOK
  <2>3. CASE req[g].of = s /\ req[g].pc # "idle"
    <3>1. Knows(g, s)
      BY <2>3, Owns
    <3>2. Knows(g, s)'
      BY <3>1, <1>0, <1>n DEF Knows, Stepping, is_active, Usable
    <3> QED
      BY <3>2, <2>3, <1>0 DEF HandlerOK
  <2> QED
    BY <2>1, <2>2, <2>3
<1>11. CommandsOK(s)' /\ (Provided(s) => Provided(s)') /\ CommandsOK(s)
  <2>1. CommandsOK(s) /\ user'[s] = user[s] /\ (s \in ignored' <=> s \in ignored)
    BY <1>0 DEF Consistent
  <2> QED
    BY <2>1, <1>9, CommandsFrame DEF About
<1>12. AgentInstalled /\ sub[s] = "active" /\ synced'[s] /\ s \notin misreported'
          => Provided(s)
  <2>1. CASE synced' = synced
    BY <2>1, <1>3 DEF Consistent, RowTrue
  <2>2. CASE synced' # synced /\ ~ right
    BY <2>2, <1>3 DEF Noted
  <2>3. CASE synced' # synced /\ right /\ sub[s] = "active"
    <3>1. outcome[r] = "success"
      BY <2>3, <1>4
    <3>2. c \in executed
      BY <3>1, <1>0, <1>c DEF Stepping, QueueFacts, OutcomeIsEarned
    <3>3. command[c].action = "create_user" /\ Latest(s, c)
      BY <2>3 DEF right
    <3>4. Youngest(s, c)
      BY <3>3, <1>c, <1>s DEF Latest, Youngest, CommandsOf, Queued
    <3>5. user[s] # "absent" \/ "remove_user" \in command[c].amid
      BY <3>2, <3>3, <3>4, <1>11 DEF CommandsOK, Left
    <3>6. ASSUME NEW d \in Queued, command[d].of = s, command[d].action = "remove_user"
          PROVE  command[d].seq < command[c].seq
      <4>1. command[d].seq <= command[c].seq /\ d # c
        BY <3>6, <3>3, <3>4 DEF Youngest
      <4>2. command[d].seq # command[c].seq
        BY <4>1, <1>c, <3>6 DEF Consistent, Rows
      <4>3. command[d].seq \in Nat /\ command[c].seq \in Nat
        BY <1>c, <3>6 DEF Consistent, SyncTypes, CommandRec, Queued
      <4> QED
        BY <4>1, <4>2, <4>3
    <3> QED
      BY <3>2, <3>3, <3>5, <3>6, <1>s DEF Provided
  <2> QED
    BY <2>1, <2>2, <2>3
<1>13. RowTrue(s)'
  <2>1. RowTrue(s)
    BY DEF Consistent
  <2>2. AgentInstalled
    BY <1>1 DEF RowOK
  <2> QED
    BY <2>1, <2>2, <1>0, <1>n, <1>11, <1>12 DEF RowTrue, Stepping
<1>14. \A t \in Subscriptions : CommandsOK(t)' /\ RowTrue(t)'
  BY <1>9, <1>11, <1>13, RowFrame
<1> QED
  BY <1>7, <1>9, <1>10, <1>14 DEF Consistent

-----------------------------------------------------------------------------
(***************************************************************************)
(* The theorems about subscriptions.                                       *)
(***************************************************************************)

\* Consistent holds in the initial state,
LEMMA InitConsistent == SyncInit => Consistent
<1> SUFFICES ASSUME SyncInit PROVE Consistent
  OBVIOUS
<1>1. NoCommand \in CommandRec /\ NoRequest \in RequestRec
      /\ NoRequest.pc = "idle" /\ NoRequest.of = "none" /\ NoRequest.op = "none"
  BY DEF NoCommand, NoRequest, CommandRec, RequestRec
<1> HIDE DEF NoCommand, NoRequest
<1>2. SyncTypes
  BY <1>1, SyncAssumption DEF SyncInit, SyncTypes, SubscriptionStatus, Account
<1>3. Queued = {} /\ executed = {} /\ \A c \in Commands : status[c] = "none"
  BY DEF SyncInit, Init, Queued
<1>4. Rows
  BY <1>3, FS_EmptySet DEF Rows, SyncInit
<1>5. \A h \in Handlers : HandlerOK(h)
  BY <1>1 DEF SyncInit, HandlerOK
<1>6. \A s \in Subscriptions : CommandsOK(s) /\ RowTrue(s)
  BY <1>3 DEF SyncInit, CommandsOK, RowTrue, is_active
<1> QED
  BY <1>2, <1>4, <1>5, <1>6 DEF Consistent

\* and every step keeps it.
LEMMA NextConsistent ==
    Consistent /\ QueueFacts /\ QueueFacts' /\ [SyncNext]_allVars => Consistent'
<1> SUFFICES ASSUME Consistent, QueueFacts, QueueFacts', [SyncNext]_allVars PROVE Consistent'
  OBVIOUS
<1>1. Settles /\ AgentInstalled' = AgentInstalled
  BY SyncStepQueues, NextSettles DEF SyncNext, allVars
<1>2. now \in Nat /\ now' \in Nat
  BY QueueAssumption DEF QueueFacts, TypeOK
<1>3. Stepping
  BY <1>1, <1>2 DEF Stepping
<1>4. CASE SyncNext
  <2>1. ASSUME NEW s \in Subscriptions, create_subscription(s) PROVE Consistent'
    BY <1>3, <2>1, CreateKeeps
  <2>2. ASSUME NEW h \in Handlers, NEW op \in Operations[AgentInstalled],
               NEW s \in Subscriptions, Load(h, op, s)
        PROVE  Consistent'
    <3>1. op \in Requests \cup Tasks
      BY SyncAssumption DEF Consistent, SyncTypes
    <3> QED
      BY <1>3, <2>2, <3>1, LoadKeeps
  <2>3. ASSUME NEW h \in Handlers, HandlerStep(h) PROVE Consistent'
    BY <1>3, <2>3, CommitKeeps, RefreshKeeps, SyncViaQueueKeeps, TasksKeep, DirectCallKeeps,
       DirectCommitKeeps, UnreachableKeeps, CrashKeeps DEF HandlerStep
  <2>4. ASSUME NEW r \in Runs, RouterStep(r) PROVE Consistent'
    BY <1>3, <2>4, ExecuteKeeps, ReportLoadKeeps, ReportCommitKeeps, ReportLostKeeps
       DEF RouterStep
  <2>5. CASE QueueStep
    <3>1. PlainStep /\ UNCHANGED subVars
      BY <2>5 DEF QueueStep, PlainStep
    <3>2. UNCHANGED <<sub, end_date, synced, user, command, synced_seen, req, ops, flawVars>>
      BY <3>1 DEF subVars
    <3>3. synced_seen' \in [Runs -> BOOLEAN] /\ Relinked
      BY <3>2 DEF Consistent, SyncTypes, Relinked
    <3> QED
      BY <3>1, <3>2, <3>3, <1>3, PlainKeeps
  <2> QED
    BY <1>4, <2>1, <2>2, <2>3, <2>4, <2>5 DEF SyncNext
<1>5. CASE UNCHANGED allVars
  <2>1. /\ UNCHANGED vars
        /\ UNCHANGED <<sub, end_date, synced, user, command, synced_seen, req, ops, flawVars>>
    BY <1>5 DEF allVars, subVars
  <2>2. PlainStep /\ synced_seen' \in [Runs -> BOOLEAN] /\ Relinked
    BY <2>1 DEF PlainStep, Consistent, SyncTypes, Relinked
  <2> QED
    BY <2>1, <2>2, <1>3, PlainKeeps
<1> QED
  BY <1>4, <1>5

\* Consistent and the queue's invariant hold in every state, for any number of
\* subscriptions, handlers under way, commands and overlapping runs of the agent.
THEOREM SyncConsistent == SyncSpec => [](Consistent /\ QueueFacts)
<1> QED
  BY InitConsistent, NextConsistent, SyncUsesQueue, QueueFactsHold, PTL DEF SyncSpec

\* What a row says of its customer is true of the router and of the clock, in the
\* conditions that SyncInv names: for any number of customers, of handlers that
\* overtake each other and of agent runs that overlap, with and without the agent,
\* whatever is retried, reset, lost, reported late or ignored by the router.
THEOREM RowsAreTrue == SyncSpec => []SyncInv
<1>1. Consistent /\ QueueFacts => SyncInv
  <2> SUFFICES ASSUME Consistent, QueueFacts PROVE SyncInv
    OBVIOUS
  <2>1. \A c \in Commands : command[c] = NoCommand <=> status[c] = "none"
    <3>1. NoCommand.action \notin Actions
      BY DEF NoCommand, Actions
    <3> HIDE DEF NoCommand
    <3> QED
      BY <3>1 DEF Consistent, Rows, RowOK
  <2>2. \A h \in Handlers :
           /\ req[h].pc \in {"idle", "loaded", "committed", "sync", "flag"}
           /\ req[h].pc = "flag" => ~ AgentInstalled
    <3>1. \A h \in Handlers : req[h] \in RequestRec
      BY DEF Consistent, SyncTypes
    <3>2. \A h \in Handlers : req[h].pc \in {"idle", "loaded", "committed", "sync", "flag"}
      BY <3>1 DEF RequestRec
    <3>3. \A h \in Handlers : req[h].pc = "flag" => ~ AgentInstalled
      BY DEF Consistent, HandlerOK, Knows
    <3> QED
      BY <3>2, <3>3
  <2>3. SyncTypeOK
    BY <2>1, <2>2 DEF Consistent, SyncTypes, SyncTypeOK
  <2>4. \A s \in Subscriptions : RowTrue(s)
    BY DEF Consistent
  <2>5. ActiveSyncedPresent
    <3>1. ASSUME NEW s \in Subscriptions, Provided(s)
          PROVE  \/ user[s] # "absent"
                 \/ \E c \in CommandsOf(s) : /\ command[c].action = "create_user"
                                             /\ "remove_user" \in command[c].amid
      BY <3>1 DEF Provided, CommandsOf, Consistent, Rows, Queued
    <3> QED
      BY <2>4, <3>1 DEF RowTrue, ActiveSyncedPresent
  <2>6. EnabledWithoutAgent /\ ExpiredMeansPastEnd
    BY <2>4 DEF RowTrue, Usable, EnabledWithoutAgent, ExpiredMeansPastEnd
  <2> QED
    BY <2>3, <2>5, <2>6 DEF SyncInv
<1> QED
  BY <1>1, SyncConsistent, PTL

\* The youngest command that the router has executed for a customer decides what
\* the account is like, unless a removal was ignored or an older command with the
\* opposite effect was still alive when it was queued, for any number of commands,
\* handlers and overlapping runs.
THEOREM YoungestDecides == SyncSpec => []LatestCommandDecides
<1>1. Consistent /\ QueueFacts => LatestCommandDecides
  <2> SUFFICES ASSUME Consistent, QueueFacts, NEW s \in Subscriptions, NEW c \in Commands,
                      Latest(s, c), c \in executed
               PROVE  CASE command[c].action = "disable_user" ->
                              user[s] # "enabled" \/ "create_user" \in command[c].amid
                        [] command[c].action = "remove_user" ->
                              \/ user[s] = "absent"
                              \/ s \in ignored \/ "create_user" \in command[c].amid
                        [] command[c].action = "create_user" ->
                              user[s] # "absent" \/ "remove_user" \in command[c].amid
    BY DEF LatestCommandDecides
  <2>1. c \in Queued /\ RowOK(c)
    BY OfIsQueued DEF Latest, CommandsOf
  <2>2. Youngest(s, c)
    BY <2>1 DEF Latest, CommandsOf, Youngest, Queued
  <2>3. Left(s, c)
    BY <2>2 DEF Consistent, CommandsOK
  <2>4. command[c].action \in {"create_user", "disable_user", "remove_user"}
    BY <2>1 DEF RowOK, Actions
  <2> QED
    BY <2>3, <2>4 DEF Left
<1> QED
  BY <1>1, SyncConsistent, PTL
=============================================================================
