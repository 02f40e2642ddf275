------------------------- MODULE EventOutboxProofs -------------------------
(***************************************************************************)
(* Proofs about EventOutbox, for any finite number of transactions, any    *)
(* number of publishers, any batch size and any limit on attempts.         *)
(***************************************************************************)
EXTENDS EventOutbox, FiniteSetTheorems, TLAPS

-----------------------------------------------------------------------------
(***************************************************************************)
(* Types, and what a publisher holds at each of its steps.                 *)
(***************************************************************************)

\* A publisher has results in hand only while it publishes.
HandsEmpty ==
    \A w \in Publishers : pc[w] # "publishing" => sent[w] = {} /\ refused[w] = {}

\* The number of recorded rows, from which created_at is drawn, is a number.
LEMMA RowsCounted == Cardinality({e \in Events : created_at[e] > 0}) \in Nat
<1>1. IsFiniteSet({1, 2})
  <2>1. IsFiniteSet({1}) /\ {1, 2} = {1} \cup {2}
    BY FS_Singleton
  <2>2. IsFiniteSet({1} \cup {2})
    BY <2>1, FS_AddElement
  <2> QED
    BY <2>1, <2>2
<1>2. IsFiniteSet(Events)
  BY <1>1, FS_Product, OutboxAssumption DEF Events
<1>3. IsFiniteSet({e \in Events : created_at[e] > 0})
  BY <1>2, FS_Subset, {e \in Events : created_at[e] > 0} \in SUBSET Events
<1> QED
  BY <1>3, FS_CardinalityType

\* Init establishes both.
LEMMA InitType == Init => OutboxTypeOK /\ HandsEmpty
  BY OutboxAssumption DEF Init, OutboxTypeOK, HandsEmpty, NothingSeen

\* What Finish does to the state of a publisher keeps its types.
LEMMA FinishType ==
    ASSUME OutboxTypeOK, HandsEmpty, NEW w \in Publishers, Finish(w)
    PROVE  /\ pc' \in [Publishers -> {"idle", "selected", "publishing"}]
           /\ rows' \in [Publishers -> SUBSET Events]
           /\ seen' \in [Publishers -> [Events -> 0 .. MaxAttempts]]
           /\ sent' \in [Publishers -> SUBSET Events]
           /\ refused' \in [Publishers -> SUBSET Events]
           /\ \A v \in Publishers : \A e \in rows'[v] \cup refused'[v] :
                 seen'[v][e] < MaxAttempts
           /\ HandsEmpty'
<1>1. NothingSeen \in [Events -> 0 .. MaxAttempts]
  BY OutboxAssumption DEF NothingSeen
<1> QED
  BY <1>1 DEF Finish, OutboxTypeOK, HandsEmpty

\* Every step keeps them: a row a publisher holds was under the cap when it was
\* selected, so the counter it writes back does not pass MAX_PUBLISH_ATTEMPTS.
LEMMA NextType ==
    OutboxTypeOK /\ HandsEmpty /\ [Next]_vars => OutboxTypeOK' /\ HandsEmpty'
<1> SUFFICES ASSUME OutboxTypeOK, HandsEmpty, [Next]_vars
             PROVE  OutboxTypeOK' /\ HandsEmpty'
  OBVIOUS
<1> USE OutboxAssumption
<1>1. ASSUME NEW t \in Transactions, record_event(t)
      PROVE  OutboxTypeOK' /\ HandsEmpty'
  <2> DEFINE n == Cardinality({e \in Events : created_at[e] > 0})
  <2>1. n \in Nat
    BY RowsCounted
  <2>2. created_at' = [created_at EXCEPT ![<<t, 1>>] = n + 1, ![<<t, 2>>] = n + 2]
    BY <1>1 DEF record_event
  <2> HIDE DEF n
  <2>3. created_at' \in [Events -> Nat]
    <3>1. created_at \in [Events -> Nat] /\ n + 1 \in Nat /\ n + 2 \in Nat
      BY <2>1 DEF OutboxTypeOK
    <3>2. [created_at EXCEPT ![<<t, 1>>] = n + 1] \in [Events -> Nat]
      BY <3>1
    <3> QED
      BY <2>2, <3>1, <3>2
  <2>4. txn' \in [Transactions -> {"none", "open", "committed", "rolled_back"}]
    BY <1>1 DEF record_event, OutboxTypeOK
  <2> QED
    BY <1>1, <2>3, <2>4 DEF record_event, taskVars, OutboxTypeOK, HandsEmpty
<1>2. ASSUME NEW t \in Transactions, DomainCommit(t) \/ DomainRollback(t)
      PROVE  OutboxTypeOK' /\ HandsEmpty'
  BY <1>2 DEF DomainCommit, DomainRollback, taskVars, OutboxTypeOK, HandsEmpty
<1>3. ASSUME NEW w \in Publishers, Select(w)
      PROVE  OutboxTypeOK' /\ HandsEmpty'
  <2>1. PICK s \in SUBSET Events : /\ OldestOf(s, Waiting)
                                   /\ rows' = [rows EXCEPT ![w] = s]
    BY <1>3 DEF Select
  <2>2. \A e \in s : attempts[e] < MaxAttempts
    BY <2>1 DEF OldestOf, Waiting
  <2>3. /\ seen' = [seen EXCEPT ![w] = attempts]
        /\ pc' = [pc EXCEPT ![w] = "selected"]
        /\ sent[w] = {} /\ refused[w] = {}
        /\ UNCHANGED <<txn, created_at, published_at, attempts, stream, sent, refused,
                       crashes, overlap>>
    BY <1>3 DEF Select, HandsEmpty
  <2>4. \A v \in Publishers : \A e \in rows'[v] \cup refused'[v] : seen'[v][e] < MaxAttempts
    BY <2>1, <2>2, <2>3 DEF OutboxTypeOK
  <2> QED
    BY <2>1, <2>3, <2>4 DEF OutboxTypeOK, HandsEmpty
<1>4. ASSUME NEW w \in Publishers, Connect(w)
      PROVE  OutboxTypeOK' /\ HandsEmpty'
  BY <1>4 DEF Connect, OutboxTypeOK, HandsEmpty
<1>5. ASSUME NEW w \in Publishers, NotConnected(w)
      PROVE  OutboxTypeOK' /\ HandsEmpty'
  <2>1. Finish(w)
    BY <1>5 DEF NotConnected, Finish, HandsEmpty, OutboxTypeOK
  <2> QED
    BY <1>5, <2>1, FinishType DEF NotConnected, OutboxTypeOK
<1>6. ASSUME NEW w \in Publishers, PublishStep(w)
      PROVE  OutboxTypeOK' /\ HandsEmpty'
  BY <1>6 DEF PublishStep, Publish, OutboxTypeOK, HandsEmpty
<1>7. ASSUME NEW w \in Publishers, Commit(w)
      PROVE  OutboxTypeOK' /\ HandsEmpty'
  <2>1. attempts' \in [Events -> 0 .. MaxAttempts]
    BY <1>7 DEF Commit, Counted, OutboxTypeOK
  <2>2. published_at' \in [Events -> BOOLEAN]
    BY <1>7 DEF Commit
  <2>3. Finish(w) /\ UNCHANGED <<txn, created_at, stream, crashes, overlap>>
    BY <1>7 DEF Commit
  <2> QED
    BY <2>1, <2>2, <2>3, FinishType DEF OutboxTypeOK
<1>8. ASSUME NEW w \in Publishers, Crash(w)
      PROVE  OutboxTypeOK' /\ HandsEmpty'
  <2>1. crashes' \in 0 .. MaxCrashes
    BY <1>8 DEF Crash, OutboxTypeOK
  <2>2. /\ Finish(w)
        /\ UNCHANGED <<txn, created_at, published_at, attempts, stream, overlap>>
    BY <1>8 DEF Crash
  <2> QED
    BY <2>1, <2>2, FinishType DEF OutboxTypeOK
<1>9. CASE UNCHANGED vars
  BY <1>9 DEF vars, taskVars, OutboxTypeOK, HandsEmpty
<1> QED
  BY <1>1, <1>2, <1>3, <1>4, <1>5, <1>6, <1>7, <1>8, <1>9 DEF Next

\* The columns keep their types, and no attempt counter passes
\* MAX_PUBLISH_ATTEMPTS although publishers overwrite each other's counters.
THEOREM OutboxTypeCorrect == Spec => [](OutboxTypeOK /\ HandsEmpty)
  BY InitType, NextType, PTL DEF Spec

-----------------------------------------------------------------------------
(***************************************************************************)
(* No event is lost as published.  A stamp comes from a publisher's hands, *)
(* so the invariant has to speak of these, too.                            *)
(***************************************************************************)

\* What a publisher is about to stamp is in the stream.
SentIsInStream == \A w \in Publishers : \A e \in sent[w] : stream[e] > 0

\* Every step keeps it.
LEMMA NextInStream ==
    /\ OutboxTypeOK /\ HandsEmpty /\ PublishedIsInStream /\ SentIsInStream /\ [Next]_vars
    => PublishedIsInStream' /\ SentIsInStream'
<1> SUFFICES ASSUME OutboxTypeOK, HandsEmpty, PublishedIsInStream, SentIsInStream, [Next]_vars
             PROVE  PublishedIsInStream' /\ SentIsInStream'
  OBVIOUS
<1> USE DEF PublishedIsInStream, SentIsInStream
<1>1. ASSUME NEW t \in Transactions, record_event(t) \/ DomainCommit(t) \/ DomainRollback(t)
      PROVE  PublishedIsInStream' /\ SentIsInStream'
  BY <1>1 DEF record_event, DomainCommit, DomainRollback, taskVars
<1>2. ASSUME NEW w \in Publishers, Select(w) \/ Connect(w) \/ NotConnected(w)
      PROVE  PublishedIsInStream' /\ SentIsInStream'
  BY <1>2 DEF Select, Connect, NotConnected
<1>3. ASSUME NEW w \in Publishers, PublishStep(w)
      PROVE  PublishedIsInStream' /\ SentIsInStream'
  <2>1. PICK stored \in BOOLEAN, raised \in BOOLEAN : Publish(w, stored, raised)
    BY <1>3 DEF PublishStep
  <2>2. PICK e \in rows[w] :
           /\ stream' = [stream EXCEPT ![e] = IF stored THEN @ + 1 ELSE @]
           /\ sent' = [sent EXCEPT ![w] = IF raised THEN @ ELSE @ \cup {e}]
    BY <2>1 DEF Publish
  <2>3. e \in Events /\ (stored \/ raised) /\ UNCHANGED published_at
    BY <2>1 DEF Publish, OutboxTypeOK
  <2>4. \A f \in Events : stream[f] > 0 => stream'[f] > 0
    BY <2>2, <2>3 DEF OutboxTypeOK
  <2>5. ~ raised => stream'[e] > 0
    BY <2>2, <2>3 DEF OutboxTypeOK
  <2>6. \A v \in Publishers : sent[v] \subseteq Events
    BY DEF OutboxTypeOK
  <2>7. \A v \in Publishers : \A f \in sent'[v] : f \in sent[v] \/ (f = e /\ ~ raised)
    BY <2>2 DEF OutboxTypeOK
  <2> QED
    BY <2>3, <2>4, <2>5, <2>6, <2>7
<1>4. ASSUME NEW w \in Publishers, Commit(w)
      PROVE  PublishedIsInStream' /\ SentIsInStream'
  <2>1. \A e \in Events : published_at'[e] => published_at[e] \/ e \in sent[w]
    BY <1>4 DEF Commit, Stamped
  <2>2. \A v \in Publishers : sent'[v] \subseteq sent[v]
    BY <1>4 DEF Commit, Finish, OutboxTypeOK
  <2> QED
    BY <1>4, <2>1, <2>2 DEF Commit
<1>5. ASSUME NEW w \in Publishers, Crash(w)
      PROVE  PublishedIsInStream' /\ SentIsInStream'
  <2>1. \A v \in Publishers : sent'[v] \subseteq sent[v]
    BY <1>5 DEF Crash, Finish, OutboxTypeOK
  <2> QED
    BY <1>5, <2>1 DEF Crash
<1>6. CASE UNCHANGED vars
  BY <1>6 DEF vars, taskVars
<1> QED
  BY <1>1, <1>2, <1>3, <1>4, <1>5, <1>6 DEF Next

\* However publishers overlap and crash, and whatever publishes raise, no row of
\* outbox_events is stamped unless the stream has its event (publish_pending),
\* and no attempt counter passes its limit.
THEOREM PublishedIsSafe == Spec => []OutboxInv
<1>1. Init => PublishedIsInStream /\ SentIsInStream
  BY DEF Init, PublishedIsInStream, SentIsInStream
<1>2. OutboxTypeOK /\ PublishedIsInStream => OutboxInv
  BY DEF OutboxInv
<1> QED
  BY <1>1, <1>2, OutboxTypeCorrect, NextInStream, PTL DEF Spec

-----------------------------------------------------------------------------
(***************************************************************************)
(* payment.received comes first.                                           *)
(***************************************************************************)

\* The rows of a batch are committed.
RowsCommitted == \A w \in Publishers : \A e \in rows[w] : txn[e[1]] = "committed"

\* record_event has put the two rows of a transaction in order.
PairInOrder ==
    \A t \in Transactions : txn[t] # "none" => created_at[<<t, 1>>] < created_at[<<t, 2>>]

\* A publisher that has still to send subscriber.created has payment.received
\* ahead of it, or has been refused it, or it has been sent or refused before.
PaymentAhead ==
    \A w \in Publishers, t \in Transactions :
        <<t, 2>> \in rows[w] => \/ <<t, 1>> \in rows[w] \cup refused[w]
                              \/ stream[<<t, 1>>] > 0 \/ attempts[<<t, 1>>] > 0

OrderInv == RowsCommitted /\ PairInOrder /\ PaymentAhead /\ PaymentBeforeSubscriber

\* Both events of a transaction are events.
LEMMA PairsAreEvents == \A t \in Transactions : <<t, 1>> \in Events /\ <<t, 2>> \in Events
  BY DEF Events

\* An attempt on record stays on record.
LEMMA CommitCounts ==
    ASSUME OutboxTypeOK, NEW w \in Publishers, Commit(w), NEW e \in Events
    PROVE  attempts[e] > 0 \/ e \in refused[w] => attempts'[e] > 0
<1>1. seen[w][e] \in Nat /\ attempts[e] \in Nat
  BY OutboxAssumption DEF OutboxTypeOK
<1> QED
  BY <1>1 DEF Commit, Counted

\* The transactions.
LEMMA WriteInOrder ==
    ASSUME OutboxTypeOK, OrderInv, NEW t \in Transactions,
           record_event(t) \/ DomainCommit(t) \/ DomainRollback(t)
    PROVE  OrderInv'
<1> USE PairsAreEvents
<1>1. UNCHANGED <<stream, attempts, rows, refused, crashes>>
  BY DEF record_event, DomainCommit, DomainRollback, taskVars
<1>2. \A u \in Transactions : txn[u] = "committed" => txn'[u] = "committed"
  BY DEF record_event, DomainCommit, DomainRollback, OutboxTypeOK
<1>3. RowsCommitted'
  BY <1>1, <1>2 DEF RowsCommitted, OrderInv, OutboxTypeOK, Events
<1>4. PairInOrder'
  <2>1. CASE record_event(t)
    <3> DEFINE n == Cardinality({e \in Events : created_at[e] > 0})
    <3>1. n \in Nat
      BY RowsCounted
    <3>2. /\ created_at' = [created_at EXCEPT ![<<t, 1>>] = n + 1, ![<<t, 2>>] = n + 2]
          /\ txn' = [txn EXCEPT ![t] = "open"]
      BY <2>1 DEF record_event
    <3> HIDE DEF n
    <3>3. /\ created_at'[<<t, 1>>] = n + 1 /\ created_at'[<<t, 2>>] = n + 2
          /\ \A u \in Transactions \ {t} : /\ created_at'[<<u, 1>>] = created_at[<<u, 1>>]
                                           /\ created_at'[<<u, 2>>] = created_at[<<u, 2>>]
      BY <3>2 DEF OutboxTypeOK
    <3>4. \A u \in Transactions \ {t} : txn'[u] = txn[u]
      BY <3>2 DEF OutboxTypeOK
    <3> QED
      BY <3>1, <3>3, <3>4 DEF PairInOrder, OrderInv
  <2>2. CASE DomainCommit(t) \/ DomainRollback(t)
    BY <2>2 DEF DomainCommit, DomainRollback, PairInOrder, OrderInv, OutboxTypeOK
  <2> QED
    BY <2>1, <2>2
<1>5. PaymentAhead' /\ PaymentBeforeSubscriber'
  BY <1>1 DEF PaymentAhead, PaymentBeforeSubscriber, OrderInv
<1> QED
  BY <1>3, <1>4, <1>5 DEF OrderInv

\* A batch takes the oldest rows, so payment.received is in it, or has been
\* stamped, or has used up its attempts.
LEMMA SelectInOrder ==
    ASSUME OutboxTypeOK, OutboxInv, HandsEmpty, OrderInv, NEW w \in Publishers, Select(w)
    PROVE  OrderInv'
<1> USE PairsAreEvents
<1>1. PICK s \in SUBSET Events : OldestOf(s, Waiting) /\ rows' = [rows EXCEPT ![w] = s]
  BY DEF Select
<1>2. UNCHANGED <<txn, created_at, published_at, attempts, stream, refused, crashes>>
  BY DEF Select
<1>3. \A e \in s : e \in Events /\ txn[e[1]] = "committed"
  BY <1>1 DEF OldestOf, Waiting
<1>4. RowsCommitted'
  BY <1>1, <1>2, <1>3 DEF RowsCommitted, OrderInv, OutboxTypeOK
<1>5. ASSUME NEW t \in Transactions, <<t, 2>> \in s
      PROVE  <<t, 1>> \in s \/ stream[<<t, 1>>] > 0 \/ attempts[<<t, 1>>] > 0
  <2>1. txn[t] = "committed" /\ created_at[<<t, 1>>] < created_at[<<t, 2>>]
    BY <1>3, <1>5 DEF OrderInv, PairInOrder
  <2>2. CASE <<t, 1>> \in Waiting
    <3>1. <<t, 1>> \notin s => created_at[<<t, 2>>] < created_at[<<t, 1>>]
      BY <1>1, <1>5, <2>2 DEF OldestOf
    <3> QED
      BY <2>1, <3>1 DEF OutboxTypeOK
  <2>3. CASE <<t, 1>> \notin Waiting
    <3>1. published_at[<<t, 1>>] \/ ~ (attempts[<<t, 1>>] < MaxAttempts)
      BY <2>1, <2>3 DEF Waiting
    <3>2. published_at[<<t, 1>>] => stream[<<t, 1>>] > 0
      BY DEF OutboxInv, PublishedIsInStream
    <3>3. attempts[<<t, 1>>] \in Nat /\ MaxAttempts \in Nat \ {0}
      <4>1. attempts \in [Events -> 0 .. MaxAttempts] /\ <<t, 1>> \in Events
        BY DEF OutboxTypeOK
      <4> QED
        BY <4>1, OutboxAssumption
    <3> QED
      BY <3>1, <3>2, <3>3
  <2> QED
    BY <2>2, <2>3
<1>6. PaymentAhead'
  BY <1>1, <1>2, <1>5 DEF PaymentAhead, OrderInv, OutboxTypeOK
<1>7. PairInOrder' /\ PaymentBeforeSubscriber'
  BY <1>2 DEF PairInOrder, PaymentBeforeSubscriber, OrderInv
<1> QED
  BY <1>4, <1>6, <1>7 DEF OrderInv

\* The oldest row of a batch goes first, so subscriber.created is sent when
\* payment.received has been.
LEMMA PublishInOrder ==
    ASSUME OutboxTypeOK, OrderInv, NEW w \in Publishers, PublishStep(w)
    PROVE  OrderInv'
<1> USE PairsAreEvents
<1>1. PICK stored \in BOOLEAN, raised \in BOOLEAN : Publish(w, stored, raised)
  BY DEF PublishStep
<1>2. PICK e \in rows[w] :
         /\ \A f \in rows[w] \ {e} : created_at[e] < created_at[f]
         /\ rows' = [rows EXCEPT ![w] = @ \ {e}]
         /\ stream' = [stream EXCEPT ![e] = IF stored THEN @ + 1 ELSE @]
         /\ refused' = [refused EXCEPT ![w] = IF raised THEN @ \cup {e} ELSE @]
  BY <1>1 DEF Publish
<1>3. /\ e \in Events /\ (stored \/ raised)
      /\ UNCHANGED <<txn, created_at, attempts, crashes>>
  BY <1>1 DEF Publish, OutboxTypeOK
<1>4. /\ \A f \in Events : stream[f] > 0 => stream'[f] > 0
      /\ \A f \in Events \ {e} : stream'[f] = stream[f]
      /\ stored => stream'[e] > 0
  BY <1>2, <1>3 DEF OutboxTypeOK
<1>5. /\ \A v \in Publishers : rows'[v] \subseteq rows[v] /\ refused[v] \subseteq refused'[v]
      /\ rows'[w] = rows[w] \ {e}
      /\ \A v \in Publishers \ {w} : rows'[v] = rows[v] /\ refused'[v] = refused[v]
      /\ raised => e \in refused'[w]
  BY <1>2 DEF OutboxTypeOK
<1>6. RowsCommitted' /\ PairInOrder'
  BY <1>3, <1>5 DEF RowsCommitted, PairInOrder, OrderInv
<1>7. PaymentAhead'
  <2> SUFFICES ASSUME NEW v \in Publishers, NEW t \in Transactions, <<t, 2>> \in rows'[v]
               PROVE  \/ <<t, 1>> \in rows'[v] \cup refused'[v]
                      \/ stream'[<<t, 1>>] > 0 \/ attempts'[<<t, 1>>] > 0
    BY DEF PaymentAhead
  <2>1. \/ <<t, 1>> \in rows[v] \cup refused[v]
        \/ stream[<<t, 1>>] > 0 \/ attempts[<<t, 1>>] > 0
    BY <1>5 DEF PaymentAhead, OrderInv
  <2>2. <<t, 1>> \in rows[v] =>
           \/ <<t, 1>> \in rows'[v] \cup refused'[v] \/ stream'[<<t, 1>>] > 0
    BY <1>3, <1>4, <1>5
  <2> QED
    BY <1>3, <1>4, <1>5, <2>1, <2>2
<1>8. PaymentBeforeSubscriber'
  <2> SUFFICES ASSUME NEW t \in Transactions,
                      stream'[<<t, 2>>] > 0, stream'[<<t, 1>>] = 0
               PROVE  \/ attempts'[<<t, 1>>] > 0
                      \/ \E v \in Publishers : <<t, 1>> \in refused'[v]
                      \/ crashes' > 0
    BY DEF PaymentBeforeSubscriber
  <2>1. ~ (stream[<<t, 1>>] > 0)
    BY <1>4
  <2>2. CASE e = <<t, 2>>
    <3>1. created_at[<<t, 1>>] < created_at[<<t, 2>>]
      BY <2>2 DEF OrderInv, RowsCommitted, PairInOrder
    <3>2. <<t, 1>> \notin rows[w]
      <4>1. <<t, 1>> # <<t, 2>>
        OBVIOUS
      <4>2. created_at[<<t, 1>>] \in Nat /\ created_at[<<t, 2>>] \in Nat
        BY DEF OutboxTypeOK
      <4> QED
        BY <1>2, <2>2, <3>1, <4>1, <4>2
    <3>3. <<t, 1>> \in refused[w] \/ attempts[<<t, 1>>] > 0
      BY <2>1, <2>2, <3>2 DEF OrderInv, PaymentAhead
    <3> QED
      BY <1>3, <1>5, <3>3
  <2>3. CASE e # <<t, 2>>
    <3>1. stream[<<t, 2>>] > 0 /\ stream[<<t, 1>>] = 0
      <4>1. stream[<<t, 1>>] \in Nat /\ stream'[<<t, 2>>] = stream[<<t, 2>>]
        BY <1>4, <2>3 DEF OutboxTypeOK
      <4> QED
        BY <2>1, <4>1
    <3> QED
      BY <1>3, <1>5, <3>1 DEF OrderInv, PaymentBeforeSubscriber
  <2> QED
    BY <2>2, <2>3
<1> QED
  BY <1>6, <1>7, <1>8 DEF OrderInv

\* The end of a task, with its commit or without.
LEMMA EndInOrder ==
    ASSUME OutboxTypeOK, HandsEmpty, OrderInv, NEW w \in Publishers,
           NotConnected(w) \/ Commit(w) \/ Crash(w)
    PROVE  OrderInv'
<1> USE PairsAreEvents
<1>1. UNCHANGED <<txn, created_at, stream>>
  BY DEF NotConnected, Commit, Crash
<1>2. /\ rows'[w] = {} /\ \A v \in Publishers \ {w} : rows'[v] = rows[v]
      /\ \A v \in Publishers \ {w} : refused'[v] = refused[v]
  BY DEF NotConnected, Commit, Crash, Finish, OutboxTypeOK
<1>3. /\ \A e \in Events : attempts[e] > 0 => attempts'[e] > 0
      /\ crashes > 0 => crashes' > 0
      /\ \A e \in refused[w] : attempts'[e] > 0 \/ crashes' > 0
  <2>1. CASE NotConnected(w)
    BY <2>1 DEF NotConnected, HandsEmpty
  <2>2. CASE Commit(w)
    <3>1. refused[w] \subseteq Events /\ UNCHANGED crashes
      BY <2>2 DEF OutboxTypeOK, Commit
    <3> QED
      BY <2>2, <3>1, CommitCounts
  <2>3. CASE Crash(w)
    BY <2>3 DEF Crash, OutboxTypeOK
  <2> QED
    BY <2>1, <2>2, <2>3
<1>4. RowsCommitted' /\ PairInOrder'
  BY <1>1, <1>2 DEF RowsCommitted, PairInOrder, OrderInv
<1>5. PaymentAhead'
  BY <1>1, <1>2, <1>3 DEF PaymentAhead, OrderInv
<1>6. PaymentBeforeSubscriber'
  BY <1>1, <1>2, <1>3 DEF PaymentBeforeSubscriber, OrderInv
<1> QED
  BY <1>4, <1>5, <1>6 DEF OrderInv

\* For every batch size and any overlap of publishers, subscriber.created reaches
\* the stream before payment.received of the same transaction only if a publish
\* of the latter raised or a publisher crashed (the ORDER BY of publish_pending).
THEOREM PaymentComesFirst == Spec => []PaymentBeforeSubscriber
<1>1. Init => OrderInv
  BY DEF Init, OrderInv, RowsCommitted, PairInOrder, PaymentAhead,
         PaymentBeforeSubscriber, Events
<1>2. OutboxTypeOK /\ HandsEmpty /\ OutboxInv /\ OrderInv /\ [Next]_vars => OrderInv'
  <2> SUFFICES ASSUME OutboxTypeOK, HandsEmpty, OutboxInv, OrderInv, [Next]_vars
               PROVE  OrderInv'
    OBVIOUS
  <2>1. ASSUME NEW w \in Publishers, Connect(w) PROVE OrderInv'
    BY <2>1 DEF Connect, OrderInv, RowsCommitted, PairInOrder, PaymentAhead,
               PaymentBeforeSubscriber
  <2>2. CASE UNCHANGED vars
    BY <2>2 DEF vars, taskVars, OrderInv, RowsCommitted, PairInOrder, PaymentAhead,
               PaymentBeforeSubscriber
  <2> QED
    BY <2>1, <2>2, WriteInOrder, SelectInOrder, PublishInOrder, EndInOrder DEF Next
<1>3. OrderInv => PaymentBeforeSubscriber
  BY DEF OrderInv
<1> QED
  BY <1>1, <1>2, <1>3, OutboxTypeCorrect, PublishedIsSafe, PTL DEF Spec

-----------------------------------------------------------------------------
(***************************************************************************)
(* Duplicates.  Without overlap one publisher works at a time, so what it  *)
(* has loaded stays true; a copy that is not accounted for by an attempt   *)
(* or a crash is then the one its event has a stamp for, or will have.     *)
(***************************************************************************)

\* One publisher works at a time, and an idle one has no batch.
Alone ==
    /\ \A w \in Publishers : pc[w] = "idle" => rows[w] = {}
    /\ ~ overlap => \A v, w \in Publishers : pc[v] # "idle" /\ pc[w] # "idle" => v = w

\* What it holds is not stamped, and has the attempts that it has loaded.
HandsFresh ==
    ~ overlap => \A w \in Publishers :
        /\ \A e \in rows[w] \cup sent[w] \cup refused[w] :
              ~ published_at[e] /\ seen[w][e] = attempts[e]
        /\ rows[w] \cap (sent[w] \cup refused[w]) = {}

\* An event that is stamped, or that a publisher has dealt with.
Handled(e) == published_at[e] \/ \E w \in Publishers : e \in sent[w] \cup refused[w]

\* One copy more than crashes and attempts is allowed to a handled event only.
CopiesCounted ==
    ~ overlap => \A e \in Events :
        /\ stream[e] <= 1 + crashes + attempts[e]
        /\ ~ Handled(e) => stream[e] <= crashes + attempts[e]

CopyInv == Alone /\ HandsFresh /\ CopiesCounted

\* A batch is loaded, and nothing is published yet.
LEMMA SelectCopies ==
    ASSUME OutboxTypeOK, HandsEmpty, CopyInv, NEW w \in Publishers, Select(w)
    PROVE  CopyInv'
<1>1. PICK s \in SUBSET Events : OldestOf(s, Waiting) /\ rows' = [rows EXCEPT ![w] = s]
  BY DEF Select
<1>2. /\ pc' = [pc EXCEPT ![w] = "selected"] /\ seen' = [seen EXCEPT ![w] = attempts]
      /\ sent[w] = {} /\ refused[w] = {}
      /\ overlap \/ \A v \in Publishers : pc[v] = "idle"
      /\ UNCHANGED <<published_at, attempts, stream, sent, refused, crashes, overlap>>
  BY DEF Select, HandsEmpty
<1>3. Alone'
  BY <1>1, <1>2 DEF Alone, CopyInv, OutboxTypeOK
<1>4. HandsFresh'
  <2>1. \A e \in s : ~ published_at[e]
    BY <1>1 DEF OldestOf, Waiting
  <2>2. /\ rows'[w] = s /\ seen'[w] = attempts
        /\ \A v \in Publishers \ {w} : rows'[v] = rows[v] /\ seen'[v] = seen[v]
    BY <1>1, <1>2 DEF OutboxTypeOK
  <2> QED
    BY <1>2, <2>1, <2>2 DEF HandsFresh, CopyInv
<1>5. CopiesCounted'
  BY <1>2 DEF CopiesCounted, Handled, CopyInv
<1> QED
  BY <1>3, <1>4, <1>5 DEF CopyInv

\* A publish adds a copy of an event that had none to spare, and handles it.
LEMMA PublishCopies ==
    ASSUME OutboxTypeOK, HandsEmpty, CopyInv, NEW w \in Publishers, PublishStep(w)
    PROVE  CopyInv'
<1>1. PICK stored \in BOOLEAN, raised \in BOOLEAN : Publish(w, stored, raised)
  BY DEF PublishStep
<1>2. PICK e \in rows[w] :
         /\ rows' = [rows EXCEPT ![w] = @ \ {e}]
         /\ stream' = [stream EXCEPT ![e] = IF stored THEN @ + 1 ELSE @]
         /\ sent' = [sent EXCEPT ![w] = IF raised THEN @ ELSE @ \cup {e}]
         /\ refused' = [refused EXCEPT ![w] = IF raised THEN @ \cup {e} ELSE @]
  BY <1>1 DEF Publish
<1>3. /\ e \in Events /\ pc[w] = "publishing"
      /\ UNCHANGED <<published_at, attempts, pc, seen, crashes, overlap>>
  BY <1>1 DEF Publish, OutboxTypeOK
<1>4. /\ rows'[w] = rows[w] \ {e}
      /\ sent'[w] \cup refused'[w] = sent[w] \cup refused[w] \cup {e}
      /\ \A v \in Publishers \ {w} :
            rows'[v] = rows[v] /\ sent'[v] = sent[v] /\ refused'[v] = refused[v]
  BY <1>2 DEF OutboxTypeOK
<1>5. Alone'
  BY <1>3, <1>4 DEF Alone, CopyInv
<1>6. HandsFresh'
  <2> SUFFICES ASSUME ~ overlap, NEW v \in Publishers
               PROVE  /\ \A f \in rows'[v] \cup sent'[v] \cup refused'[v] :
                            ~ published_at[f] /\ seen[v][f] = attempts[f]
                      /\ rows'[v] \cap (sent'[v] \cup refused'[v]) = {}
    BY <1>3 DEF HandsFresh
  <2>1. /\ \A f \in rows[v] \cup sent[v] \cup refused[v] :
              ~ published_at[f] /\ seen[v][f] = attempts[f]
        /\ rows[v] \cap (sent[v] \cup refused[v]) = {}
    BY DEF HandsFresh, CopyInv
  <2> QED
    BY <1>4, <2>1
<1>7. CopiesCounted'
  <2> SUFFICES ASSUME ~ overlap, NEW f \in Events
               PROVE  /\ stream'[f] <= 1 + crashes + attempts[f]
                      /\ ~ Handled(f)' => stream'[f] <= crashes + attempts[f]
    BY <1>3 DEF CopiesCounted
  <2>1. /\ stream[f] <= 1 + crashes + attempts[f]
        /\ ~ Handled(f) => stream[f] <= crashes + attempts[f]
    BY DEF CopiesCounted, CopyInv
  <2>2. CASE f = e
    <3>1. ~ Handled(e)
      <4>1. ~ published_at[e] /\ e \notin sent[w] \cup refused[w]
        BY DEF HandsFresh, CopyInv
      <4>2. \A v \in Publishers \ {w} : sent[v] = {} /\ refused[v] = {}
        BY <1>3 DEF Alone, CopyInv, HandsEmpty
      <4> QED
        BY <4>1, <4>2 DEF Handled
    <3>2. stream[e] \in Nat /\ attempts[e] \in Nat /\ crashes \in Nat
      BY <1>3, OutboxAssumption DEF OutboxTypeOK
    <3>3. stream'[e] <= stream[e] + 1
      BY <1>2, <1>3, <3>2 DEF OutboxTypeOK
    <3>4. stream'[e] \in Nat
      BY <1>2, <1>3, <3>2 DEF OutboxTypeOK
    <3>5. Handled(e)'
      BY <1>4 DEF Handled
    <3> QED
      BY <2>1, <2>2, <3>1, <3>2, <3>3, <3>4, <3>5
  <2>3. CASE f # e
    <3>1. stream'[f] = stream[f]
      BY <1>2, <2>3 DEF OutboxTypeOK
    <3>2. Handled(f) => Handled(f)'
      BY <1>3, <1>4, <2>3 DEF Handled
    <3> QED
      BY <2>1, <3>1, <3>2
  <2> QED
    BY <2>2, <2>3
<1> QED
  BY <1>5, <1>6, <1>7 DEF CopyInv

\* The end of a task leaves its publisher idle and with empty hands.
LEMMA EndCopies ==
    ASSUME OutboxTypeOK, HandsEmpty, CopyInv, NEW w \in Publishers,
           NotConnected(w) \/ Commit(w) \/ Crash(w)
    PROVE  CopyInv'
<1>1. /\ pc'[w] = "idle" /\ rows'[w] = {} /\ sent'[w] = {} /\ refused'[w] = {}
      /\ \A v \in Publishers \ {w} :
            /\ pc'[v] = pc[v] /\ rows'[v] = rows[v] /\ seen'[v] = seen[v]
            /\ sent'[v] = sent[v] /\ refused'[v] = refused[v]
      /\ UNCHANGED <<stream, overlap>> /\ pc[w] # "idle"
  BY DEF NotConnected, Commit, Crash, Finish, OutboxTypeOK, HandsEmpty
<1>2. Alone'
  BY <1>1 DEF Alone, CopyInv
<1>3. ASSUME ~ overlap, NEW v \in Publishers
      PROVE  rows'[v] = {} /\ sent'[v] = {} /\ refused'[v] = {}
  BY <1>1, <1>3 DEF Alone, CopyInv, HandsEmpty
<1>4. HandsFresh'
  BY <1>1, <1>3 DEF HandsFresh
<1>5. CopiesCounted'
  <2> SUFFICES ASSUME ~ overlap, NEW e \in Events
               PROVE  /\ stream[e] <= 1 + crashes' + attempts'[e]
                      /\ ~ published_at'[e] => stream[e] <= crashes' + attempts'[e]
    BY <1>1, <1>3 DEF CopiesCounted, Handled
  <2>1. /\ stream[e] <= 1 + crashes + attempts[e]
        /\ ~ Handled(e) => stream[e] <= crashes + attempts[e]
    BY DEF CopiesCounted, CopyInv
  <2>2. /\ stream[e] \in Nat /\ attempts[e] \in Nat /\ crashes \in Nat
        /\ seen[w][e] \in Nat
    BY OutboxAssumption DEF OutboxTypeOK
  <2>3. \A v \in Publishers \ {w} : sent[v] = {} /\ refused[v] = {}
    BY <1>1 DEF Alone, CopyInv, HandsEmpty
  <2>4. CASE NotConnected(w)
    <3>1. sent[w] = {} /\ refused[w] = {} /\ UNCHANGED <<published_at, attempts, crashes>>
      BY <2>4 DEF NotConnected, HandsEmpty
    <3>2. Handled(e) <=> published_at[e]
      BY <2>3, <3>1 DEF Handled
    <3> QED
      BY <2>1, <3>1, <3>2
  <2>5. CASE Commit(w)
    <3>1. /\ published_at'[e] <=> published_at[e] \/ e \in sent[w]
          /\ attempts'[e] = IF e \in refused[w] THEN seen[w][e] + 1 ELSE attempts[e]
          /\ UNCHANGED crashes
      BY <2>5 DEF Commit, Stamped, Counted
    <3>2. CASE e \in refused[w]
      <4>1. seen[w][e] = attempts[e]
        BY <3>2 DEF HandsFresh, CopyInv
      <4> QED
        BY <2>1, <2>2, <3>1, <3>2, <4>1
    <3>3. CASE e \notin refused[w]
      <4>1. ~ published_at'[e] => ~ Handled(e)
        BY <2>3, <3>1, <3>3 DEF Handled
      <4> QED
        BY <2>1, <2>2, <3>1, <3>3, <4>1
    <3> QED
      BY <3>2, <3>3
  <2>6. CASE Crash(w)
    <3>1. crashes' = crashes + 1 /\ UNCHANGED attempts
      BY <2>6 DEF Crash
    <3> QED
      BY <2>1, <2>2, <3>1
  <2> QED
    BY <2>4, <2>5, <2>6
<1> QED
  BY <1>2, <1>4, <1>5 DEF CopyInv

\* When tasks do not overlap, a consumer sees an event at most once more often
\* than publishers crashed and attempts were recorded, for every batch size,
\* limit and number of crashes (publish_pending commits at the end of a batch).
THEOREM DuplicatesAreExplained == Spec => []DuplicatesExplained
<1> USE DEF CopyInv, Alone, HandsFresh, CopiesCounted, Handled
<1>1. Init => CopyInv
  BY DEF Init
<1>2. OutboxTypeOK /\ HandsEmpty /\ CopyInv /\ [Next]_vars => CopyInv'
  <2> SUFFICES ASSUME OutboxTypeOK, HandsEmpty, CopyInv, [Next]_vars PROVE CopyInv'
    OBVIOUS
  <2>1. ASSUME NEW t \in Transactions, record_event(t) \/ DomainCommit(t) \/ DomainRollback(t)
        PROVE  CopyInv'
    BY <2>1 DEF record_event, DomainCommit, DomainRollback, taskVars
  <2>2. ASSUME NEW w \in Publishers, Connect(w) PROVE CopyInv'
    <3>1. \A v \in Publishers : pc'[v] = "idle" <=> pc[v] = "idle"
      BY <2>2 DEF Connect, OutboxTypeOK
    <3> QED
      BY <2>2, <3>1 DEF Connect
  <2>3. CASE UNCHANGED vars
    BY <2>3 DEF vars, taskVars
  <2> HIDE DEF CopyInv
  <2> QED
    BY <2>1, <2>2, <2>3, SelectCopies, PublishCopies, EndCopies DEF Next
<1>3. CopyInv => DuplicatesExplained
  BY DEF DuplicatesExplained
<1> HIDE DEF CopyInv
<1> QED
  BY <1>1, <1>2, <1>3, OutboxTypeCorrect, PTL DEF Spec
=============================================================================
