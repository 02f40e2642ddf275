---------------------------- MODULE EventOutbox ----------------------------
(***************************************************************************)
(* The transactional outbox: a domain transaction adds rows to             *)
(* outbox_events (record_event) and commits them with its own changes, and *)
(* the beat task publish_outbox_events publishes the rows that wait to the *)
(* JetStream stream and stamps them.                                       *)
(*                                                                         *)
(* The task selects its batch, publishes the rows one by one and commits   *)
(* all stamps and attempt counters at the end.  Nothing is locked and the  *)
(* stream does not deduplicate (every publish makes a new envelope id), so *)
(* a crash before the commit, or a task that starts before the last one    *)
(* has ended, publishes rows again.                                        *)
(*                                                                         *)
(* Every transaction here is one that confirms a purchase: it records      *)
(* payment.received and then subscriber.created.                           *)
(***************************************************************************)
EXTENDS Integers, FiniteSets

CONSTANTS
    Transactions,   \* domain transactions that record events
    Publishers,     \* executions of the task that can be under way at once
    MaxAttempts,    \* MAX_PUBLISH_ATTEMPTS
    Batch,          \* PUBLISH_BATCH
    Raced,          \* bound: the transactions when publishers overlap
    MaxCrashes      \* bound on the crashes of publishers

ASSUME OutboxAssumption ==
    /\ IsFiniteSet(Transactions)
    /\ MaxAttempts \in Nat \ {0}
    /\ Batch \in Nat \ {0}
    /\ Raced \subseteq Transactions
    /\ MaxCrashes \in Nat

Events == Transactions \X {1, 2}    \* <<t, 1>> payment.received, <<t, 2>> the other

VARIABLES
    txn,            \* the domain transactions
    created_at,     \* the columns of outbox_events; created_at counts the rows
    published_at,   \*   recorded so far, published_at: is the stamp set?
    attempts,
    stream,         \* the copies of each event in the JetStream stream
    pc,             \* where each publisher is
    rows,           \* the rows of its batch it has still to publish
    seen,           \* attempts as it has loaded them
    sent,           \* rows it has published, their stamps not committed yet
    refused,        \* rows whose publish raised, not committed yet
    crashes,        \* crashes so far
    overlap         \* may a task start before the last one has ended?

taskVars == <<pc, rows, seen, sent, refused>>
vars == <<txn, created_at, published_at, attempts, stream, taskVars, crashes,
          overlap>>

OutboxTypeOK ==
    /\ txn \in [Transactions -> {"none", "open", "committed", "rolled_back"}]
    /\ created_at \in [Events -> Nat]
    /\ published_at \in [Events -> BOOLEAN]
    /\ attempts \in [Events -> 0 .. MaxAttempts]
    /\ stream \in [Events -> Nat]
    /\ pc \in [Publishers -> {"idle", "selected", "publishing"}]
    /\ rows \in [Publishers -> SUBSET Events]
    /\ seen \in [Publishers -> [Events -> 0 .. MaxAttempts]]
    /\ sent \in [Publishers -> SUBSET Events]
    /\ refused \in [Publishers -> SUBSET Events]
    /\ crashes \in 0 .. MaxCrashes
    /\ overlap \in BOOLEAN
    \* what a publisher holds was under the cap when it was selected
    /\ \A w \in Publishers : \A e \in rows[w] \cup refused[w] : seen[w][e] < MaxAttempts

NothingSeen == [e \in Events |-> 0]

Init ==
    /\ txn = [t \in Transactions |-> "none"]
    /\ created_at = [e \in Events |-> 0]
    /\ published_at = [e \in Events |-> FALSE]
    /\ attempts = [e \in Events |-> 0]
    /\ stream = [e \in Events |-> 0]
    /\ pc = [w \in Publishers |-> "idle"]
    /\ rows = [w \in Publishers |-> {}]
    /\ seen = [w \in Publishers |-> NothingSeen]
    /\ sent = [w \in Publishers |-> {}]
    /\ refused = [w \in Publishers |-> {}]
    /\ crashes = 0
    /\ overlap \in BOOLEAN

-----------------------------------------------------------------------------
(***************************************************************************)
(* Writing.                                                                *)
(***************************************************************************)

\* record_event, for both events of a transaction that is not committed yet.
record_event(t) ==
    /\ txn[t] = "none"
    /\ overlap => t \in Raced
    /\ LET n == Cardinality({e \in Events : created_at[e] > 0}) IN
          created_at' = [created_at EXCEPT ![<<t, 1>>] = n + 1, ![<<t, 2>>] = n + 2]
    /\ txn' = [txn EXCEPT ![t] = "open"]
    /\ UNCHANGED <<published_at, attempts, stream, taskVars, crashes, overlap>>

DomainCommit(t) ==
    /\ txn[t] = "open"
    /\ txn' = [txn EXCEPT ![t] = "committed"]
    /\ UNCHANGED <<created_at, published_at, attempts, stream, taskVars, crashes, overlap>>

\* The domain transaction is rolled back, and its outbox rows with it.
DomainRollback(t) ==
    /\ txn[t] = "open"
    /\ txn' = [txn EXCEPT ![t] = "rolled_back"]
    /\ UNCHANGED <<created_at, published_at, attempts, stream, taskVars, crashes, overlap>>

-----------------------------------------------------------------------------
(***************************************************************************)
(* Publishing.                                                             *)
(***************************************************************************)

\* Mutation: a row that failed once is not selected again.
WaitingFresh ==
    {e \in Events : /\ txn[e[1]] = "committed"
                    /\ ~ published_at[e]
                    /\ attempts[e] = 0}

\* The WHERE clause of publish_pending.
Waiting ==
    {e \in Events : /\ txn[e[1]] = "committed"
                    /\ ~ published_at[e]
                    /\ attempts[e] < MaxAttempts}

\* Mutation: the select has lost its ORDER BY.
OldestOfUnordered(s, all) ==
    s \subseteq all /\ s # {} /\ (Cardinality(s) = Batch \/ s = all)

\* Its ORDER BY and LIMIT: s is the first Batch rows of all.
OldestOf(s, all) ==
    /\ s \subseteq all /\ s # {}
    /\ Cardinality(s) = Batch \/ (s = all /\ Cardinality(s) < Batch)
    /\ \A e \in s, f \in all \ s : created_at[e] < created_at[f]

\* publish_pending up to its select; with nothing to publish it returns.
Select(w) ==
    /\ pc[w] = "idle"
    /\ overlap \/ \A v \in Publishers : pc[v] = "idle"
    /\ \E s \in SUBSET Events :
          /\ OldestOf(s, Waiting)
          /\ rows' = [rows EXCEPT ![w] = s]
    /\ seen' = [seen EXCEPT ![w] = attempts]
    /\ pc' = [pc EXCEPT ![w] = "selected"]
    /\ UNCHANGED <<txn, created_at, published_at, attempts, stream, sent, refused,
                   crashes, overlap>>

\* connect returns a connection.
Connect(w) ==
    /\ pc[w] = "selected"
    /\ pc' = [pc EXCEPT ![w] = "publishing"]
    /\ UNCHANGED <<txn, created_at, published_at, attempts, stream, rows, seen, sent,
                   refused, crashes, overlap>>

\* connect returns None: nothing is attempted and nothing is counted.
NotConnected(w) ==
    /\ pc[w] = "selected"
    /\ pc' = [pc EXCEPT ![w] = "idle"]
    /\ rows' = [rows EXCEPT ![w] = {}]
    /\ seen' = [seen EXCEPT ![w] = NothingSeen]
    /\ UNCHANGED <<txn, created_at, published_at, attempts, stream, sent, refused,
                   crashes, overlap>>

\* js.publish for the oldest row left in the batch.  It can raise although the
\* stream has stored the event: the acknowledgement did not come in time.
Publish(w, stored, raised) ==
    /\ pc[w] = "publishing"
    /\ stored \/ raised
    /\ \E e \in rows[w] :
          /\ \A f \in rows[w] \ {e} : created_at[e] < created_at[f]
          /\ rows' = [rows EXCEPT ![w] = @ \ {e}]
          /\ stream' = [stream EXCEPT ![e] = IF stored THEN @ + 1 ELSE @]
          /\ sent' = [sent EXCEPT ![w] = IF raised THEN @ ELSE @ \cup {e}]
          /\ refused' = [refused EXCEPT ![w] = IF raised THEN @ \cup {e} ELSE @]
    /\ UNCHANGED <<txn, created_at, published_at, attempts, pc, seen, crashes, overlap>>

Finish(w) ==
    /\ pc' = [pc EXCEPT ![w] = "idle"]
    /\ rows' = [rows EXCEPT ![w] = {}]
    /\ seen' = [seen EXCEPT ![w] = NothingSeen]
    /\ sent' = [sent EXCEPT ![w] = {}]
    /\ refused' = [refused EXCEPT ![w] = {}]

\* Mutation: a row whose publish raised is stamped, too.
StampedAll(w) == sent[w] \cup refused[w]

\* Mutation: no row is stamped.
StampedNone(w) == {}

\* The rows whose stamp the commit writes.
Stamped(w) == sent[w]

\* The rows whose attempt counter the commit writes.
Counted(w) == refused[w]

\* The commit at the end of the batch.  A counter is written from the value that
\* was loaded.
Commit(w) ==
    /\ pc[w] = "publishing" /\ rows[w] = {}
    /\ published_at' = [e \in Events |-> published_at[e] \/ e \in Stamped(w)]
    /\ attempts' = [e \in Events |->
                      IF e \in Counted(w) THEN seen[w][e] + 1 ELSE attempts[e]]
    /\ Finish(w)
    /\ UNCHANGED <<txn, created_at, stream, crashes, overlap>>

\* The worker dies, or its commit fails: the stamps are lost, the copies are not.
Crash(w) ==
    /\ pc[w] = "publishing" /\ crashes < MaxCrashes
    /\ crashes' = crashes + 1
    /\ Finish(w)
    /\ UNCHANGED <<txn, created_at, published_at, attempts, stream, overlap>>

-----------------------------------------------------------------------------
PublishStep(w) ==
    \E stored, raised \in BOOLEAN : Publish(w, stored, raised)

Next ==
    \/ \E t \in Transactions : record_event(t) \/ DomainCommit(t) \/ DomainRollback(t)
    \/ \E w \in Publishers : \/ Select(w) \/ Connect(w) \/ NotConnected(w)
                             \/ PublishStep(w) \/ Commit(w) \/ Crash(w)

Spec == Init /\ [][Next]_vars

\* Beat starts the task again and again, a task that has a connection comes to
\* its end, and NATS is not unreachable for ever.
Fairness ==
    \A w \in Publishers : /\ WF_vars(Select(w))
                          /\ SF_vars(Connect(w))
                          /\ WF_vars(PublishStep(w) \/ Commit(w))

FairSpec == Spec /\ Fairness

-----------------------------------------------------------------------------
(***************************************************************************)
(* Properties.                                                             *)
(***************************************************************************)

\* A row is stamped only if the stream has stored the event: no event is given
\* up as delivered, however publishers overlap or crash (publish_pending).
PublishedIsInStream ==
    \A e \in Events : published_at[e] => stream[e] > 0

\* When tasks do not overlap, every copy of an event beyond the first is
\* accounted for by a crash or by an attempt on record.
DuplicatesExplained ==
    ~ overlap => \A e \in Events : stream[e] <= 1 + crashes + attempts[e]

\* subscriber.created reaches the stream before the payment.received of the same
\* transaction only if a publish of the latter raised, or a task crashed, even
\* though tasks may overlap.
PaymentBeforeSubscriber ==
    \A t \in Transactions :
        stream[<<t, 2>>] > 0 /\ stream[<<t, 1>>] = 0 =>
            \/ attempts[<<t, 1>>] > 0
            \/ \E w \in Publishers : <<t, 1>> \in refused[w]
            \/ crashes > 0

\* Every committed event is in the end stamped or has used up its attempts, and
\* stays so, even though overlapping tasks overwrite each other's counters.
EveryEventSettles ==
    <>[](\A e \in Events : txn[e[1]] = "committed" =>
            published_at[e] \/ attempts[e] = MaxAttempts)

\* No row passes the limit on attempts, and no event is lost as published.
OutboxInv == OutboxTypeOK /\ PublishedIsInStream
=============================================================================
