----------------------- MODULE HotspotPurchaseProofs -----------------------
(***************************************************************************)
(* Proofs about HotspotPurchase, for every set of purchases, organizations *)
(* and handlers: a payment that treasury settled, or that a callback       *)
(* reports, gets its voucher, its username and its dashboard rows once.    *)
(***************************************************************************)
EXTENDS HotspotPurchase, FiniteSetTheorems, TLAPS

Confirmations == [pc : Steps, kind : {"none", "nats", "poll", "webhook"},
                  of : Purchases \cup {"none"}, name : Nat, seen : BOOLEAN]
Rows          == [of : Purchases, name : Nat]

\* The sets the variables range over.
Types ==
    /\ payment_status \in [Purchases -> PaymentStatus \cup {"none"}]
    /\ intent \in [Purchases -> BOOLEAN]
    /\ buyer \in [Purchases -> {"none", "waiting", "done"}]
    /\ treasury \in [Purchases -> {"none", "open", "succeeded", "failed"}]
    /\ message \subseteq Purchases
    /\ counter \in [Orgs -> Nat]
    /\ vouchers \in Seq(Rows)
    /\ link \in [Purchases -> Nat]
    /\ \A p \in Purchases : link[p] <= Len(vouchers)
    /\ router \subseteq Orgs \X Nat
    /\ users \subseteq Orgs \X Nat
    /\ payments \in [Purchases -> Nat]
    /\ callbacks \in Nat
    /\ req \in [Handlers -> Confirmations]
    /\ \A h \in Handlers : req[h].pc # "idle" => req[h].of \in Purchases
    /\ told \in [Purchases -> SUBSET {"completed", "failed"}]
    /\ overlap \in BOOLEAN

\* The intent at treasury belongs to the row: nobody pays before the intent is
\* committed, only a settled payment is announced, and only a reported one
\* completes a purchase.
Opened ==
    \A p \in Purchases :
        /\ payment_status[p] = "none" \/ buyer[p] = "waiting" => treasury[p] = "none"
        /\ treasury[p] # "none" => intent[p]
        /\ p \in message => treasury[p] = "succeeded"
        /\ payment_status[p] = "completed" => Reported(p)
        /\ callbacks = 0 => told[p] = {}

\* What a confirmation has learnt from treasury stays true, and so does, when no
\* callback interferes, what it has made of the purchase.
Learnt ==
    \A h \in Handlers :
        /\ req[h].pc = "failing" /\ callbacks = 0 => treasury[req[h].of] = "failed"
        /\ req[h].pc \notin {"idle", "asked", "failing"} => Reported(req[h].of)
        /\ req[h].pc \in {"voucher", "queue", "bridge", "mirror"} /\ callbacks = 0 =>
              payment_status[req[h].of] = "completed"

\* Every voucher is for a reported payment; a confirmation past the voucher's
\* commit has its voucher, and so has every account on the router.
Backed ==
    /\ \A i \in DOMAIN vouchers : Reported(vouchers[i].of)
    /\ \A h \in Handlers : req[h].pc \in {"queue", "bridge", "mirror"} =>
          \E i \in DOMAIN vouchers :
              vouchers[i].of = req[h].of /\ vouchers[i].name = req[h].name
    /\ ProvisionedHasVoucher

\* A confirmation that saw a payment saw a row that stays.
Booked ==
    /\ \A p \in Purchases : payments[p] <= 1
    /\ \A h \in Handlers : req[h].pc = "mirror" /\ req[h].seen => payments[req[h].of] > 0

\* Without overlap, one confirmation is under way.
Serial ==
    ~ overlap => \A g, h \in Handlers : req[g].pc # "idle" /\ req[h].pc # "idle" => g = h

\* Without overlap, the counter is above every name that was given out, and the
\* name a confirmation has taken is nobody else's.
Names ==
    ~ overlap =>
        /\ \A i \in DOMAIN vouchers : vouchers[i].name < counter[OrgOf[vouchers[i].of]]
        /\ \A h \in Handlers :
              /\ req[h].pc = "creds" => req[h].name = counter[OrgOf[req[h].of]]
              /\ req[h].pc = "voucher" =>
                    /\ req[h].name < counter[OrgOf[req[h].of]]
                    /\ \A i \in DOMAIN vouchers :
                          OrgOf[vouchers[i].of] = OrgOf[req[h].of] =>
                              vouchers[i].name # req[h].name
        /\ UniqueUsernames

\* Without overlap and callbacks, only a completed purchase has a voucher, and a
\* confirmation that will make one works on a purchase that has none.
Once ==
    ~ overlap /\ callbacks = 0 =>
        /\ \A i, j \in DOMAIN vouchers : vouchers[i].of = vouchers[j].of => i = j
        /\ \A i \in DOMAIN vouchers : payment_status[vouchers[i].of] = "completed"
        /\ \A h \in Handlers : req[h].pc \in {"asked", "confirm", "creds", "voucher"} =>
              \A i \in DOMAIN vouchers : vouchers[i].of # req[h].of

\* Without overlap, what the bridge has read is still so when it commits.
Mirrored ==
    /\ ~ overlap => \A h \in Handlers :
          req[h].pc = "mirror" /\ payments[req[h].of] > 0 => req[h].seen
    /\ FinishedIsMirrored

\* A purchase is completed before its voucher is there: until then a confirmation
\* is about to make it.
Handed ==
    \A p \in Purchases \ broken :
        payment_status[p] = "completed" =>
            link[p] # 0 \/ \E h \in Handlers : req[h].pc = "voucher" /\ req[h].of = p

Inv == Types /\ Opened /\ Learnt /\ Backed /\ Booked /\ Serial /\ Names /\ Once
       /\ Mirrored /\ Handed

-----------------------------------------------------------------------------
(***************************************************************************)
(* Lemmas about the records.                                               *)
(***************************************************************************)

\* The fields of a confirmation.
LEMMA RequestShape ==
    ASSUME Types, NEW h \in Handlers
    PROVE  /\ req[h] \in Confirmations
           /\ req[h].pc \in Steps /\ req[h].name \in Nat /\ req[h].seen \in BOOLEAN
           /\ req[h].pc # "idle" => req[h].of \in Purchases
  BY DEF Types, Confirmations

\* The fields of a voucher.
LEMMA VoucherShape ==
    ASSUME Types
    PROVE  /\ Len(vouchers) \in Nat /\ DOMAIN vouchers = 1 .. Len(vouchers)
           /\ \A i \in DOMAIN vouchers :
                 vouchers[i].of \in Purchases /\ vouchers[i].name \in Nat
<1>1. vouchers \in Seq(Rows)
  BY DEF Types
<1>2. DOMAIN vouchers = 1 .. Len(vouchers)
  BY <1>1
<1>3. ASSUME NEW i \in DOMAIN vouchers
      PROVE  vouchers[i].of \in Purchases /\ vouchers[i].name \in Nat
  <2>1. vouchers[i] \in Rows
    BY <1>1, <1>2
  <2> QED
    BY <2>1 DEF Rows
<1> QED
  BY <1>1, <1>2, <1>3

\* A step that replaces the record of one confirmation leaves the others alone.
LEMMA RequestStep ==
    ASSUME Types, NEW h \in Handlers, NEW q \in Confirmations, req' = [req EXCEPT ![h] = q]
    PROVE  /\ req' \in [Handlers -> Confirmations]
           /\ req'[h] = q
           /\ \A g \in Handlers : g # h => req'[g] = req[g]
  BY DEF Types

\* A confirmation that has not begun, or has ended.
LEMMA NoRequestShape == NoRequest \in Confirmations /\ NoRequest.pc = "idle"
  BY DEF NoRequest, Confirmations, Steps

\* A set without two different elements has at most one.
LEMMA AtMostOne ==
    ASSUME NEW S, \A x, y \in S : x = y
    PROVE  Cardinality(S) <= 1
<1>1. CASE S = {}
  BY <1>1, FS_EmptySet
<1>2. CASE S # {}
  <2>1. PICK x \in S : TRUE
    BY <1>2
  <2>2. S = {x}
    BY <2>1
  <2> QED
    BY <2>2, FS_Singleton
<1> QED
  BY <1>1, <1>2

\* The first state satisfies the invariant.
LEMMA InitInv == Init => Inv
<1> SUFFICES ASSUME Init PROVE Inv
  OBVIOUS
<1>1. Types
  BY NoRequestShape DEF Init, Types, PaymentStatus
<1>2. Opened
  BY NoRequestShape, PurchaseAssumption DEF Init, Opened
<1>3. Learnt
  BY NoRequestShape, PurchaseAssumption DEF Init, Learnt
<1>4. Backed
  BY NoRequestShape, PurchaseAssumption DEF Init, Backed, ProvisionedHasVoucher
<1>5. Booked
  BY NoRequestShape, PurchaseAssumption DEF Init, Booked
<1>6. Serial
  BY NoRequestShape, PurchaseAssumption DEF Init, Serial
<1>7. Names
  BY NoRequestShape, PurchaseAssumption DEF Init, Names, UniqueUsernames
<1>8. Once
  BY NoRequestShape, PurchaseAssumption DEF Init, Once
<1>9. Mirrored
  BY NoRequestShape, PurchaseAssumption DEF Init, Mirrored, FinishedIsMirrored
<1>10. Handed
  BY NoRequestShape, PurchaseAssumption DEF Init, Handed
<1> QED
  BY <1>1, <1>2, <1>3, <1>4, <1>5, <1>6, <1>7, <1>8, <1>9, <1>10 DEF Inv

-----------------------------------------------------------------------------
(***************************************************************************)
(* One lemma per kind of step.                                             *)
(***************************************************************************)

\* What the customer and treasury do: an intent is opened once, and what treasury
\* has decided stays so.
LEMMA BuyKeeps ==
    ASSUME Inv, NEW p \in Purchases,
           \/ purchase_package(p) \/ IntentCreated(p) \/ IntentFailed(p)
           \/ Pay(p) \/ PayFails(p)
    PROVE  Inv'
<1> USE DEF Inv
<1>a. UNCHANGED <<counter, vouchers, link, router, users, payments, callbacks, req,
                  finished, broken, told, overlap>>
  BY DEF purchase_package, IntentCreated, IntentFailed, Pay, PayFails, rowVars, histVars
<1>b. /\ treasury' \in [Purchases -> {"none", "open", "succeeded", "failed"}]
      /\ \A q \in Purchases : treasury[q] \in {"succeeded", "failed"} => treasury'[q] = treasury[q]
  <2>1. /\ treasury \in [Purchases -> {"none", "open", "succeeded", "failed"}]
        /\ payment_status[p] = "none" \/ buyer[p] = "waiting" => treasury[p] = "none"
    BY DEF Types, Opened
  <2> HIDE DEF Inv
  <2>2. \/ treasury' = treasury
        \/ /\ treasury[p] \in {"none", "open"}
           /\ \E t \in {"open", "succeeded", "failed"} : treasury' = [treasury EXCEPT ![p] = t]
    BY <2>1, Zenon DEF purchase_package, IntentCreated, IntentFailed, Pay, PayFails
  <2> QED
    BY <2>1, <2>2
<1>c. /\ payment_status' \in [Purchases -> PaymentStatus \cup {"none"}]
      /\ \A q \in Purchases : payment_status'[q] = "completed" => payment_status[q] = "completed"
      /\ callbacks = 0 => \A q \in Purchases :
            payment_status[q] = "completed" => payment_status'[q] = "completed"
  <2>1. /\ payment_status \in [Purchases -> PaymentStatus \cup {"none"}]
        /\ (buyer[p] = "waiting" \/ payment_status[p] = "none") /\ callbacks = 0 =>
              payment_status[p] # "completed"
    BY DEF Types, Opened, Reported
  <2> HIDE DEF Inv
  <2>2. \/ payment_status' = payment_status
        \/ /\ callbacks = 0 => payment_status[p] # "completed"
           /\ \E t \in {"pending", "processing", "failed"} :
                 payment_status' = [payment_status EXCEPT ![p] = t]
    BY <2>1 DEF purchase_package, IntentCreated, IntentFailed, Pay, PayFails, rowVars
  <2>3. {"pending", "processing", "failed"} \subseteq PaymentStatus
    BY DEF PaymentStatus
  <2> QED
    BY <2>1, <2>2, <2>3
<1>1. Types'
  BY <1>a, <1>b, <1>c, ZenonT(60)
  DEF purchase_package, IntentCreated, IntentFailed, Pay, PayFails, rowVars, Types
<1>r. \A q \in Purchases : Reported(q) => Reported(q)'
  BY <1>a, <1>b DEF Reported
<1>2. Opened'
  <2>1. \A q \in Purchases :
           /\ payment_status'[q] = "completed" => Reported(q)'
           /\ callbacks' = 0 => told'[q] = {}
    BY <1>a, <1>c, <1>r DEF Opened
  <2>2. \A q \in Purchases :
           /\ payment_status'[q] = "none" \/ buyer'[q] = "waiting" => treasury'[q] = "none"
           /\ treasury'[q] # "none" => intent'[q]
           /\ q \in message' => treasury'[q] = "succeeded"
    <3>1. CASE purchase_package(p)
      BY <3>1 DEF purchase_package, Types, Opened
    <3>2. CASE IntentCreated(p)
      BY <3>2 DEF IntentCreated, Types, Opened
    <3>3. CASE IntentFailed(p)
      BY <3>3 DEF IntentFailed, Types, Opened
    <3>4. CASE Pay(p) \/ PayFails(p)
      BY <3>4 DEF Pay, PayFails, rowVars, Types, Opened
    <3> QED
      BY <3>1, <3>2, <3>3, <3>4
  <2> QED
    BY <2>1, <2>2 DEF Opened
<1>3. Learnt'
  BY <1>a, <1>b, <1>c, <1>r, RequestShape, VoucherShape DEF Learnt
<1>4. Backed'
  BY <1>a, <1>b, <1>c, <1>r, RequestShape, VoucherShape DEF Backed, ProvisionedHasVoucher
<1>5. Booked'
  BY <1>a, <1>b, <1>c, RequestShape, VoucherShape DEF Booked
<1>6. Serial'
  BY <1>a, <1>b, <1>c, RequestShape, VoucherShape DEF Serial
<1>7. Names'
  BY <1>a, <1>b, <1>c, RequestShape, VoucherShape DEF Names, UniqueUsernames
<1>8. Once'
  BY <1>a, <1>b, <1>c, RequestShape, VoucherShape DEF Once
<1>9. Mirrored'
  BY <1>a, <1>b, <1>c, RequestShape, VoucherShape
  DEF Mirrored, FinishedIsMirrored, VouchersOf, NameTaken
<1>10. Handed'
  BY <1>a, <1>b, <1>c, RequestShape, VoucherShape DEF Handed
<1> QED
  BY <1>1, <1>2, <1>3, <1>4, <1>5, <1>6, <1>7, <1>8, <1>9, <1>10 DEF Inv

\* A confirmation begins, on a purchase that treasury has decided about (or that
\* the poll asks about) and that is not completed, or on a callback.
LEMMA StartKeeps ==
    ASSUME Inv, NEW h \in Handlers, NEW p \in Purchases,
           NEW kind \in {"nats", "poll", "webhook"}, NEW step \in {"asked", "confirm", "failing"},
           req[h].pc = "idle", Start(h, p, kind, step),
           step = "confirm" => Reported(p)',
           step = "failing" /\ callbacks' = 0 => treasury[p] = "failed",
           callbacks' \in {callbacks, callbacks + 1},
           callbacks' = 0 => payment_status[p] # "completed" /\ UNCHANGED told,
           \/ UNCHANGED told
           \/ \E w \in {"completed", "failed"} : told' = [told EXCEPT ![p] = @ \cup {w}],
           UNCHANGED <<rowVars, buyer, treasury, message, finished, broken, overlap>>
    PROVE  Inv'
<1> USE DEF Inv
<1> DEFINE q == [NoRequest EXCEPT !.pc = step, !.kind = kind, !.of = p]
<1>a. q \in Confirmations /\ q.pc = step /\ q.of = p
  BY DEF NoRequest, Confirmations, Steps
<1>b. req' = [req EXCEPT ![h] = q] /\ (overlap \/ \A g \in Handlers : req[g].pc = "idle")
  BY DEF Start
<1> HIDE DEF q
<1>c. /\ req' \in [Handlers -> Confirmations]
      /\ req'[h].pc = step /\ req'[h].of = p
      /\ \A g \in Handlers : g # h => req'[g] = req[g]
  BY <1>a, <1>b, RequestStep
<1>d. UNCHANGED <<payment_status, intent, counter, vouchers, link, router, users, payments,
                  buyer, treasury, message, finished, broken, overlap>>
  BY DEF rowVars
<1>e. callbacks' \in Nat /\ (callbacks' = 0 => callbacks = 0)
  BY DEF Types
<1>f. /\ told' \in [Purchases -> SUBSET {"completed", "failed"}]
      /\ \A r \in Purchases : told[r] \subseteq told'[r]
  <2>1. told \in [Purchases -> SUBSET {"completed", "failed"}]
    BY DEF Types
  <2>2. CASE UNCHANGED told
    BY <2>1, <2>2
  <2>3. CASE \E w \in {"completed", "failed"} : told' = [told EXCEPT ![p] = @ \cup {w}]
    <3>1. PICK w \in {"completed", "failed"} : told' = [told EXCEPT ![p] = told[p] \cup {w}]
      BY <2>3
    <3>2. told[p] \cup {w} \in SUBSET {"completed", "failed"}
      BY <2>1
    <3> QED
      BY <2>1, <3>1, <3>2
  <2> QED
    BY <2>2, <2>3
<1>r. \A r \in Purchases : Reported(r) => Reported(r)'
  BY <1>d, <1>f DEF Reported
<1>1. Types'
  <2>1. \A g \in Handlers : req'[g].pc # "idle" => req'[g].of \in Purchases
    BY <1>c DEF Types
  <2> QED
    BY <1>c, <1>d, <1>e, <1>f, <2>1 DEF Types
<1>2. Opened'
  BY <1>d, <1>e, <1>r DEF Opened
<1>3. Learnt'
  BY <1>b, <1>c, <1>d, <1>e, <1>r, RequestShape, VoucherShape DEF Learnt
<1>4. Backed'
  BY <1>b, <1>c, <1>d, <1>r, RequestShape, VoucherShape DEF Backed, ProvisionedHasVoucher
<1>5. Booked'
  BY <1>b, <1>c, <1>d, RequestShape, VoucherShape DEF Booked
<1>6. Serial'
  BY <1>b, <1>c, <1>d, RequestShape, VoucherShape DEF Serial
<1>7. Names'
  BY <1>b, <1>c, <1>d, RequestShape, VoucherShape DEF Names, UniqueUsernames
<1>8. Once'
  BY <1>b, <1>c, <1>d, <1>e, RequestShape, VoucherShape DEF Once
<1>9. Mirrored'
  BY <1>b, <1>c, <1>d, RequestShape, VoucherShape
  DEF Mirrored, FinishedIsMirrored, VouchersOf, NameTaken
<1>10. Handed'
  BY <1>b, <1>c, <1>d, RequestShape, VoucherShape DEF Handed
<1> QED
  BY <1>1, <1>2, <1>3, <1>4, <1>5, <1>6, <1>7, <1>8, <1>9, <1>10 DEF Inv

\* A confirmation ends before its voucher, or without ending its purchase well: it
\* may write what it was told, and a purchase left without its voucher is marked.
LEMMA EndKeeps ==
    ASSUME Inv, NEW h \in Handlers, req[h].pc # "idle",
           req' = [req EXCEPT ![h] = NoRequest],
           message' \subseteq message, broken \subseteq broken',
           req[h].pc = "voucher" => req[h].of \in broken',
           \/ payment_status' = payment_status
           \/ /\ payment_status' = [payment_status EXCEPT ![req[h].of] = "failed"]
              /\ callbacks = 0 => treasury[req[h].of] = "failed"
           \/ /\ payment_status' = [payment_status EXCEPT ![req[h].of] = "completed"]
              /\ Reported(req[h].of) /\ req[h].of \in broken',
           UNCHANGED <<intent, counter, vouchers, link, router, users, payments, buyer,
                       treasury, finished, told, overlap, callbacks>>
    PROVE  Inv'
<1> USE DEF Inv
<1>a. /\ req' \in [Handlers -> Confirmations]
      /\ req'[h].pc = "idle"
      /\ \A g \in Handlers : g # h => req'[g] = req[g]
  BY NoRequestShape, RequestStep
<1>b. /\ req[h].of \in Purchases
      /\ payment_status' \in [Purchases -> PaymentStatus \cup {"none"}]
      /\ \A p \in Purchases : p # req[h].of => payment_status'[p] = payment_status[p]
      /\ \/ payment_status'[req[h].of] = payment_status[req[h].of]
         \/ /\ payment_status'[req[h].of] = "failed"
            /\ callbacks = 0 => treasury[req[h].of] = "failed"
         \/ payment_status'[req[h].of] = "completed" /\ Reported(req[h].of)
  BY RequestShape, ZenonT(60) DEF Types, PaymentStatus
<1>c. \A p \in Purchases : p \notin broken' =>
         /\ payment_status'[p] = "completed" => payment_status[p] = "completed"
         /\ p = req[h].of => req[h].pc # "voucher"
  BY <1>b DEF Types, PaymentStatus
<1>r. \A p \in Purchases : (Reported(p)' <=> Reported(p))
                            /\ (Reported(p) /\ callbacks = 0 => treasury[p] = "succeeded")
  BY DEF Reported, Opened
<1>1. Types'
  BY <1>a, <1>b DEF Types
<1>2. Opened'
  BY <1>b, <1>r DEF Types, Opened
<1>3. Learnt'
  BY <1>a, <1>b, <1>r, RequestShape DEF Learnt
<1>4. Backed'
  BY <1>a, <1>r, RequestShape, VoucherShape DEF Backed, ProvisionedHasVoucher
<1>5. Booked'
  BY <1>a, RequestShape, VoucherShape DEF Booked
<1>6. Serial'
  BY <1>a, RequestShape, VoucherShape DEF Serial
<1>7. Names'
  BY <1>a, RequestShape, VoucherShape DEF Names, UniqueUsernames
<1>8. Once'
  BY <1>a, <1>b, <1>r, RequestShape, VoucherShape DEF Once, Backed
<1>9. Mirrored'
  BY <1>a, RequestShape, VoucherShape DEF Mirrored, FinishedIsMirrored, VouchersOf, NameTaken
<1>10. Handed'
  BY <1>a, <1>b, <1>c DEF Types, Handed
<1> QED
  BY <1>1, <1>2, <1>3, <1>4, <1>5, <1>6, <1>7, <1>8, <1>9, <1>10 DEF Inv

\* Treasury's answer to the poll.
LEMMA AnswersKeeps ==
    ASSUME Inv, NEW h \in Handlers, TreasuryAnswers(h)
    PROVE  Inv'
<1> USE DEF Inv
<1> DEFINE step == Verdict(treasury[req[h].of])
           q == [req[h] EXCEPT !.pc = step]
<1>a. req[h].pc = "asked" /\ req[h].of \in Purchases
  BY RequestShape DEF TreasuryAnswers
<1>d. UNCHANGED <<payment_status, intent, counter, vouchers, link, router, users, payments,
                  buyer, treasury, message, callbacks, finished, broken, told, overlap>>
  BY DEF TreasuryAnswers, rowVars, histVars
<1>f. /\ step \in {"confirm", "failing", "idle"}
      /\ step = "confirm" => treasury[req[h].of] = "succeeded"
      /\ step = "failing" => treasury[req[h].of] = "failed"
  BY <1>a DEF Verdict, Types
<1>g. req' = [req EXCEPT ![h] = IF step = "idle" THEN NoRequest ELSE q]
  BY DEF TreasuryAnswers
<1>b. q \in Confirmations /\ q.pc = step /\ q.of = req[h].of
  BY <1>a, <1>f, RequestShape, ZenonT(60) DEF Types, Confirmations, Steps
<1> HIDE DEF step, q
<1>h. CASE step = "idle"
  BY <1>a, <1>d, <1>g, <1>h, EndKeeps DEF PaymentStatus
<1>i. CASE step \in {"confirm", "failing"}
  <2>a. /\ req' \in [Handlers -> Confirmations]
        /\ req'[h].pc = step /\ req'[h].of = req[h].of
        /\ \A g \in Handlers : g # h => req'[g] = req[g]
    BY <1>b, <1>g, <1>i, RequestStep
  <2>e. \A g \in Handlers : req'[g].pc # "idle" => req'[g].of \in Purchases
    BY <1>a, <2>a DEF Types
  <2>1. Types'
    BY <1>d, <2>a, <2>e, SMTT(60) DEF Types
  <2>2. Opened'
    BY <1>a, <1>d, <1>f, <1>i, <2>a, RequestShape, VoucherShape DEF Opened, Reported
  <2>3. Learnt'
    BY <1>a, <1>d, <1>f, <1>i, <2>a, RequestShape, VoucherShape DEF Learnt, Reported
  <2>4. Backed'
    BY <1>a, <1>d, <1>f, <1>i, <2>a, RequestShape, VoucherShape
    DEF Backed, Reported, ProvisionedHasVoucher
  <2>5. Booked'
    BY <1>a, <1>d, <1>f, <1>i, <2>a, RequestShape, VoucherShape DEF Booked
  <2>6. Serial'
    BY <1>a, <1>d, <1>f, <1>i, <2>a, RequestShape, VoucherShape DEF Serial
  <2>7. Names'
    BY <1>a, <1>d, <1>f, <1>i, <2>a, RequestShape, VoucherShape DEF Names, UniqueUsernames
  <2>8. Once'
    BY <1>a, <1>d, <1>f, <1>i, <2>a, RequestShape, VoucherShape DEF Once
  <2>9. Mirrored'
    BY <1>a, <1>d, <1>f, <1>i, <2>a, RequestShape, VoucherShape
    DEF Mirrored, FinishedIsMirrored, VouchersOf, NameTaken
  <2>10. Handed'
    BY <1>a, <1>d, <1>f, <1>i, <2>a, RequestShape, VoucherShape DEF Handed
  <2> QED
    BY <2>1, <2>2, <2>3, <2>4, <2>5, <2>6, <2>7, <2>8, <2>9, <2>10 DEF Inv
<1> QED
  BY <1>f, <1>h, <1>i

\* A confirmation reads the counter.
LEMMA ReadCounterKeeps ==
    ASSUME Inv, NEW h \in Handlers, ReadCounter(h)
    PROVE  Inv'
<1> USE DEF Inv
<1> DEFINE q == [req[h] EXCEPT !.pc = "creds", !.name = counter[OrgOf[req[h].of]]]
<1>a. req[h].pc = "confirm" /\ req[h].of \in Purchases /\ req' = [req EXCEPT ![h] = q]
  BY RequestShape DEF ReadCounter
<1>b. q \in Confirmations /\ q.pc = "creds" /\ q.of = req[h].of
                       /\ q.name = counter[OrgOf[req[h].of]]
  <2>1. req[h] \in Confirmations /\ counter[OrgOf[req[h].of]] \in Nat
    BY <1>a, RequestShape, PurchaseAssumption DEF Types
  <2> QED
    BY <2>1 DEF Confirmations, Steps
<1> HIDE DEF q
<1>c. /\ req' \in [Handlers -> Confirmations]
      /\ req'[h].pc = "creds" /\ req'[h].of = req[h].of
                       /\ req'[h].name = counter[OrgOf[req[h].of]]
      /\ \A g \in Handlers : g # h => req'[g] = req[g]
  BY <1>a, <1>b, RequestStep
<1>d. UNCHANGED <<payment_status, intent, counter, vouchers, link, router, users, payments,
                  buyer, treasury, message, callbacks, finished, broken, told, overlap>>
  BY DEF ReadCounter, rowVars, histVars
<1>e. \A g \in Handlers : req'[g].pc # "idle" => req'[g].of \in Purchases
  BY <1>a, <1>c DEF Types
<1>1. Types'
  BY <1>c, <1>d, <1>e DEF Types
<1>2. Opened'
  BY <1>a, <1>c, <1>d, RequestShape, VoucherShape DEF Opened, Reported
<1>3. Learnt'
  BY <1>a, <1>c, <1>d, RequestShape, VoucherShape DEF Learnt, Reported
<1>4. Backed'
  BY <1>a, <1>c, <1>d, RequestShape, VoucherShape DEF Backed, Reported, ProvisionedHasVoucher
<1>5. Booked'
  BY <1>a, <1>c, <1>d, RequestShape, VoucherShape DEF Booked
<1>6. Serial'
  BY <1>a, <1>c, <1>d, RequestShape, VoucherShape DEF Serial
<1>7. Names'
  BY <1>a, <1>c, <1>d, RequestShape, VoucherShape DEF Names, UniqueUsernames
<1>8. Once'
  BY <1>a, <1>c, <1>d, RequestShape, VoucherShape DEF Once
<1>9. Mirrored'
  BY <1>a, <1>c, <1>d, RequestShape, VoucherShape
  DEF Mirrored, FinishedIsMirrored, VouchersOf, NameTaken
<1>10. Handed'
  BY <1>a, <1>c, <1>d, RequestShape, VoucherShape DEF Handed
<1> QED
  BY <1>1, <1>2, <1>3, <1>4, <1>5, <1>6, <1>7, <1>8, <1>9, <1>10 DEF Inv

\* generate_hotspot_credentials commits: the purchase is completed, the counter has
\* moved past the name, and only this confirmation will make the voucher.
LEMMA CredentialsKeeps ==
    ASSUME Inv, NEW h \in Handlers, CredentialsCommit(h)
    PROVE  Inv'
<1> USE DEF Inv
<1> DEFINE q == [req[h] EXCEPT !.pc = "voucher"]
<1>a. req[h].pc = "creds" /\ req[h].of \in Purchases /\ req' = [req EXCEPT ![h] = q]
  BY RequestShape DEF CredentialsCommit
<1>b. q \in Confirmations /\ q.pc = "voucher" /\ q.of = req[h].of /\ q.name = req[h].name
  <2>1. req[h] \in Confirmations /\ counter[OrgOf[req[h].of]] \in Nat
    BY <1>a, RequestShape, PurchaseAssumption DEF Types
  <2> QED
    BY <2>1 DEF Confirmations, Steps
<1> HIDE DEF q
<1>c. /\ req' \in [Handlers -> Confirmations]
      /\ req'[h].pc = "voucher" /\ req'[h].of = req[h].of /\ req'[h].name = req[h].name
      /\ \A g \in Handlers : g # h => req'[g] = req[g]
  BY <1>a, <1>b, RequestStep
<1>d. UNCHANGED <<intent, vouchers, link, router, users, payments, buyer, treasury, message,
                  callbacks, finished, broken, told, overlap>>
  BY DEF CredentialsCommit, rowVars, histVars
<1>e. \A g \in Handlers : req'[g].pc # "idle" => req'[g].of \in Purchases
  BY <1>a, <1>c DEF Types
<1>f. /\ payment_status' \in [Purchases -> PaymentStatus \cup {"none"}]
      /\ payment_status'[req[h].of] = "completed"
      /\ \A p \in Purchases : p # req[h].of => payment_status'[p] = payment_status[p]
  BY <1>a DEF CredentialsCommit, Types, PaymentStatus
<1>g. /\ OrgOf[req[h].of] \in Orgs
      /\ counter' \in [Orgs -> Nat]
      /\ counter'[OrgOf[req[h].of]] = req[h].name + 1
      /\ \A o \in Orgs : o # OrgOf[req[h].of] => counter'[o] = counter[o]
  <2>1. OrgOf[req[h].of] \in Orgs /\ req[h].name + 1 \in Nat
    BY <1>a, RequestShape, PurchaseAssumption
  <2>2. counter' = [counter EXCEPT ![OrgOf[req[h].of]] = req[h].name + 1]
    BY DEF CredentialsCommit, NextName
  <2> QED
    BY <2>1, <2>2 DEF Types
<1>1. Types'
  BY <1>c, <1>d, <1>e, <1>f, <1>g DEF Types
<1>2. Opened'
  BY <1>a, <1>d, <1>f DEF Learnt, Opened, Reported
<1>3. Learnt'
  BY <1>a, <1>c, <1>d, <1>f, RequestShape DEF Learnt, Reported
<1>4. Backed'
  BY <1>a, <1>c, <1>d, RequestShape, VoucherShape DEF Backed, Reported, ProvisionedHasVoucher
<1>5. Booked'
  BY <1>a, <1>c, <1>d, RequestShape, VoucherShape DEF Booked
<1>6. Serial'
  BY <1>a, <1>c, <1>d, RequestShape, VoucherShape, SMTT(60) DEF Serial
<1>7. Names'
  <2>1. SUFFICES ASSUME ~ overlap PROVE Names'
    BY <1>d DEF Names
  <2>2. /\ \A i \in DOMAIN vouchers : vouchers[i].name < counter[OrgOf[vouchers[i].of]]
        /\ req[h].name = counter[OrgOf[req[h].of]] /\ UniqueUsernames
    BY <1>a, <2>1 DEF Names
  <2>3. \A i \in DOMAIN vouchers : vouchers[i].name < counter'[OrgOf[vouchers[i].of]]
    <3> SUFFICES ASSUME NEW i \in DOMAIN vouchers
                 PROVE  vouchers[i].name < counter'[OrgOf[vouchers[i].of]]
      OBVIOUS
    <3>1. OrgOf[vouchers[i].of] \in Orgs /\ vouchers[i].name \in Nat
      BY VoucherShape, PurchaseAssumption
    <3> QED
      BY <1>g, <2>2, <3>1, RequestShape
  <2>4. \A i \in DOMAIN vouchers : OrgOf[vouchers[i].of] = OrgOf[req[h].of] =>
           vouchers[i].name # req[h].name
    BY <2>2, VoucherShape, RequestShape
  <2>5. req[h].name < counter'[OrgOf[req[h].of]]
    BY <1>g, RequestShape
  <2>6. \A g \in Handlers : g # h => req'[g].pc = "idle"
    BY <1>a, <1>c, <2>1 DEF Serial
  <2> QED
    BY <1>c, <1>d, <2>2, <2>3, <2>4, <2>5, <2>6 DEF Names, UniqueUsernames
<1>8. Once'
  BY <1>a, <1>c, <1>d, <1>f, RequestShape, VoucherShape DEF Once
<1>9. Mirrored'
  BY <1>a, <1>c, <1>d, RequestShape, VoucherShape
  DEF Mirrored, FinishedIsMirrored, VouchersOf, NameTaken
<1>10. Handed'
  BY <1>a, <1>c, <1>d, <1>f, RequestShape DEF Handed
<1> QED
  BY <1>1, <1>2, <1>3, <1>4, <1>5, <1>6, <1>7, <1>8, <1>9, <1>10 DEF Inv

\* The voucher is committed, with its link.
LEMMA VoucherKeeps ==
    ASSUME Inv, NEW h \in Handlers, VoucherCommit(h)
    PROVE  Inv'
<1> USE DEF Inv
<1> DEFINE q == [req[h] EXCEPT !.pc = "queue"]
<1>a. req[h].pc = "voucher" /\ req[h].of \in Purchases /\ req' = [req EXCEPT ![h] = q]
  BY RequestShape DEF VoucherCommit
<1>b. q \in Confirmations /\ q.pc = "queue" /\ q.of = req[h].of /\ q.name = req[h].name
  <2>1. req[h] \in Confirmations /\ counter[OrgOf[req[h].of]] \in Nat
    BY <1>a, RequestShape, PurchaseAssumption DEF Types
  <2> QED
    BY <2>1 DEF Confirmations, Steps
<1> HIDE DEF q
<1>c. /\ req' \in [Handlers -> Confirmations]
      /\ req'[h].pc = "queue" /\ req'[h].of = req[h].of /\ req'[h].name = req[h].name
      /\ \A g \in Handlers : g # h => req'[g] = req[g]
  BY <1>a, <1>b, RequestStep
<1>d. UNCHANGED <<payment_status, intent, counter, router, users, payments, buyer, treasury,
                  message, callbacks, finished, broken, told, overlap>>
  BY DEF VoucherCommit, rowVars, histVars
<1>e. \A g \in Handlers : req'[g].pc # "idle" => req'[g].of \in Purchases
  BY <1>a, <1>c DEF Types
<1>f. /\ vouchers' \in Seq(Rows)
      /\ DOMAIN vouchers' = 1 .. (Len(vouchers) + 1) /\ Len(vouchers') = Len(vouchers) + 1
      /\ \A i \in DOMAIN vouchers : i \in DOMAIN vouchers' /\ vouchers'[i] = vouchers[i]
      /\ vouchers'[Len(vouchers) + 1].of = req[h].of
      /\ vouchers'[Len(vouchers) + 1].name = req[h].name
      /\ \A i \in DOMAIN vouchers' : i \in DOMAIN vouchers \/ i = Len(vouchers) + 1
  <2> DEFINE v == [of |-> req[h].of, name |-> req[h].name]
  <2>1. v \in Rows /\ v.of = req[h].of /\ v.name = req[h].name
    BY <1>a, RequestShape DEF Rows
  <2>2. vouchers' = Append(vouchers, v) /\ vouchers \in Seq(Rows)
    BY DEF VoucherCommit, Types
  <2> HIDE DEF v
  <2> QED
    BY <2>1, <2>2
<1>g. /\ link' \in [Purchases -> Nat]
      /\ link'[req[h].of] = Len(vouchers) + 1
      /\ \A p \in Purchases : p # req[h].of => link'[p] = link[p]
  BY <1>a, VoucherShape DEF VoucherCommit, Types
<1>1. Types'
  <2>1. \A p \in Purchases : link'[p] <= Len(vouchers')
    BY <1>f, <1>g, VoucherShape DEF Types
  <2> QED
    BY <1>c, <1>d, <1>e, <1>f, <1>g, <2>1, ZenonT(60) DEF Types
<1>2. Opened'
  BY <1>a, <1>c, <1>d, RequestShape, VoucherShape DEF Opened, Reported
<1>3. Learnt'
  BY <1>a, <1>c, <1>d, RequestShape, VoucherShape DEF Learnt, Reported
<1>4. Backed'
  <2>1. Reported(req[h].of) /\ Len(vouchers) + 1 \in DOMAIN vouchers'
    BY <1>a, <1>d, <1>f, VoucherShape DEF Learnt, Reported
  <2>2. \A i \in DOMAIN vouchers' : Reported(vouchers[i].of)'
    BY <1>d, <1>f, <2>1 DEF Backed, Reported
  <2>3. ASSUME NEW g \in Handlers, req'[g].pc \in {"queue", "bridge", "mirror"}
        PROVE  \E i \in DOMAIN vouchers' :
                  vouchers'[i].of = req'[g].of /\ vouchers'[i].name = req'[g].name
    <3>1. CASE g = h
      BY <1>c, <1>f, <2>1, <3>1
    <3>2. CASE g # h
      BY <1>c, <1>f, <2>3, <3>2 DEF Backed
    <3> QED
      BY <3>1, <3>2
  <2>4. ProvisionedHasVoucher'
    BY <1>d, <1>f, SMTT(60) DEF Backed, Reported, ProvisionedHasVoucher
  <2> QED
    BY <2>2, <2>3, <2>4 DEF Backed
<1>5. Booked'
  BY <1>a, <1>c, <1>d, RequestShape, VoucherShape DEF Booked
<1>6. Serial'
  BY <1>a, <1>c, <1>d, RequestShape, VoucherShape DEF Serial
<1>7. Names'
  <2>1. SUFFICES ASSUME ~ overlap PROVE Names'
    BY <1>d DEF Names
  <2>2. /\ \A i \in DOMAIN vouchers : vouchers[i].name < counter[OrgOf[vouchers[i].of]]
        /\ req[h].name < counter[OrgOf[req[h].of]]
        /\ \A i \in DOMAIN vouchers : OrgOf[vouchers[i].of] = OrgOf[req[h].of] =>
              vouchers[i].name # req[h].name
        /\ \A i, j \in DOMAIN vouchers :
              vouchers[i].name = vouchers[j].name
              /\ OrgOf[vouchers[i].of] = OrgOf[vouchers[j].of] => i = j
    BY <1>a, <2>1 DEF Names, UniqueUsernames
  <2>3. \A i \in DOMAIN vouchers' : vouchers'[i].name < counter'[OrgOf[vouchers'[i].of]]
    BY <1>d, <1>f, <2>2
  <2>4. ASSUME NEW i \in DOMAIN vouchers', NEW j \in DOMAIN vouchers',
               vouchers'[i].name = vouchers'[j].name,
               OrgOf[vouchers'[i].of] = OrgOf[vouchers'[j].of]
        PROVE  i = j
    BY <1>f, <2>2, <2>4
  <2>5. \A g \in Handlers : g # h => req'[g].pc = "idle"
    BY <1>a, <1>c, <2>1 DEF Serial
  <2> QED
    BY <1>c, <2>3, <2>4, <2>5 DEF Names, UniqueUsernames
<1>8. Once'
  <2>1. SUFFICES ASSUME ~ overlap, callbacks = 0 PROVE Once'
    BY <1>d DEF Once
  <2>2. /\ \A i, j \in DOMAIN vouchers : vouchers[i].of = vouchers[j].of => i = j
        /\ \A i \in DOMAIN vouchers : payment_status[vouchers[i].of] = "completed"
        /\ \A i \in DOMAIN vouchers : vouchers[i].of # req[h].of
    BY <1>a, <2>1 DEF Once
  <2>3. ASSUME NEW i \in DOMAIN vouchers', NEW j \in DOMAIN vouchers',
               vouchers'[i].of = vouchers'[j].of
        PROVE  i = j
    BY <1>f, <2>2, <2>3
  <2>4. \A i \in DOMAIN vouchers' : payment_status'[vouchers'[i].of] = "completed"
    BY <1>a, <1>d, <1>f, <2>1, <2>2 DEF Learnt, Reported
  <2>5. \A g \in Handlers : g # h => req'[g].pc = "idle"
    BY <1>a, <1>c, <2>1 DEF Serial
  <2> QED
    BY <1>c, <2>3, <2>4, <2>5 DEF Once
<1>9. Mirrored'
  <2>1. \A g \in Handlers : req'[g].pc = "mirror" => req'[g] = req[g]
    BY <1>c
  <2>2. ASSUME NEW p \in Purchases
        PROVE  /\ payments'[p] <= 1
               /\ ~ overlap' /\ p \in finished' => \E i \in VouchersOf(p)' :
                    \/ NameTaken(OrgOf[p], vouchers[i].name)'
                    \/ payments'[p] = 1 /\ <<OrgOf[p], vouchers'[i].name>> \in users'
    <3>1. SUFFICES ASSUME ~ overlap, p \in finished
                   PROVE  \E i \in VouchersOf(p)' :
                             \/ NameTaken(OrgOf[p], vouchers[i].name)'
                             \/ payments'[p] = 1 /\ <<OrgOf[p], vouchers'[i].name>> \in users'
      BY <1>d DEF Mirrored, FinishedIsMirrored
    <3>2. PICK i \in VouchersOf(p) : \/ NameTaken(OrgOf[p], vouchers[i].name)
                                     \/ payments[p] = 1 /\ <<OrgOf[p], vouchers[i].name>> \in users
      BY <3>1 DEF Mirrored, FinishedIsMirrored
    <3>3. i \in VouchersOf(p)' /\ vouchers'[i] = vouchers[i]
      BY <1>f DEF VouchersOf
    <3> QED
      BY <1>d, <3>2, <3>3 DEF NameTaken
  <2> QED
    BY <1>d, <2>1, <2>2 DEF Mirrored, FinishedIsMirrored
<1>10. Handed'
  BY <1>a, <1>c, <1>d, <1>g, VoucherShape DEF Handed
<1> QED
  BY <1>1, <1>2, <1>3, <1>4, <1>5, <1>6, <1>7, <1>8, <1>9, <1>10 DEF Inv

\* The account is queued for the router, or it is not.
LEMMA QueueKeeps ==
    ASSUME Inv, NEW h \in Handlers, NEW queued \in BOOLEAN, QueueCommit(h, queued)
    PROVE  Inv'
<1> USE DEF Inv
<1> DEFINE q == [req[h] EXCEPT !.pc = "bridge"]
<1>a. req[h].pc = "queue" /\ req[h].of \in Purchases /\ req' = [req EXCEPT ![h] = q]
  BY RequestShape DEF QueueCommit
<1>b. q \in Confirmations /\ q.pc = "bridge" /\ q.of = req[h].of /\ q.name = req[h].name
  <2>1. req[h] \in Confirmations /\ counter[OrgOf[req[h].of]] \in Nat
    BY <1>a, RequestShape, PurchaseAssumption DEF Types
  <2> QED
    BY <2>1 DEF Confirmations, Steps
<1> HIDE DEF q
<1>c. /\ req' \in [Handlers -> Confirmations]
      /\ req'[h].pc = "bridge" /\ req'[h].of = req[h].of /\ req'[h].name = req[h].name
      /\ \A g \in Handlers : g # h => req'[g] = req[g]
  BY <1>a, <1>b, RequestStep
<1>d. UNCHANGED <<payment_status, intent, counter, vouchers, link, users, payments, buyer,
                  treasury, message, callbacks, finished, broken, told, overlap>>
  BY DEF QueueCommit, rowVars, histVars
<1>e. \A g \in Handlers : req'[g].pc # "idle" => req'[g].of \in Purchases
  BY <1>a, <1>c DEF Types
<1>f. /\ router' \subseteq Orgs \X Nat
      /\ router' \subseteq router \cup {<<OrgOf[req[h].of], req[h].name>>}
  BY <1>a, RequestShape, PurchaseAssumption, SMTT(60) DEF QueueCommit, Types
<1>1. Types'
  BY <1>c, <1>d, <1>e, <1>f DEF Types
<1>2. Opened'
  BY <1>a, <1>c, <1>d, RequestShape, VoucherShape DEF Opened, Reported
<1>3. Learnt'
  BY <1>a, <1>c, <1>d, RequestShape, VoucherShape DEF Learnt, Reported
<1>4. Backed'
  <2>1. \A i \in DOMAIN vouchers : Reported(vouchers[i].of) => Reported(vouchers[i].of)'
    BY <1>d DEF Reported
  <2>2. \A g \in Handlers : req'[g].pc \in {"queue", "bridge", "mirror"} =>
           \E i \in DOMAIN vouchers :
               vouchers[i].of = req'[g].of /\ vouchers[i].name = req'[g].name
    BY <1>a, <1>c DEF Backed
  <2>3. PICK i \in DOMAIN vouchers : vouchers[i].of = req[h].of /\ vouchers[i].name = req[h].name
    BY <1>a DEF Backed
  <2>4. ProvisionedHasVoucher'
    BY <1>d, <1>f, <2>1, <2>3 DEF Backed, ProvisionedHasVoucher
  <2> QED
    BY <1>d, <2>1, <2>2, <2>4 DEF Backed
<1>5. Booked'
  BY <1>a, <1>c, <1>d, RequestShape, VoucherShape DEF Booked
<1>6. Serial'
  BY <1>a, <1>c, <1>d, RequestShape, VoucherShape DEF Serial
<1>7. Names'
  BY <1>a, <1>c, <1>d, RequestShape, VoucherShape DEF Names, UniqueUsernames
<1>8. Once'
  BY <1>a, <1>c, <1>d, RequestShape, VoucherShape DEF Once
<1>9. Mirrored'
  BY <1>a, <1>c, <1>d, RequestShape, VoucherShape
  DEF Mirrored, FinishedIsMirrored, VouchersOf, NameTaken
<1>10. Handed'
  BY <1>a, <1>c, <1>d, RequestShape, VoucherShape DEF Handed
<1> QED
  BY <1>1, <1>2, <1>3, <1>4, <1>5, <1>6, <1>7, <1>8, <1>9, <1>10 DEF Inv

\* The record of a confirmation whose bridge has looked for a payment.
LEMMA Selected ==
    ASSUME NEW r \in Confirmations, NEW b \in BOOLEAN
    PROVE  LET q == [r EXCEPT !.pc = "mirror", !.seen = b]
           IN  q \in Confirmations /\ q.pc = "mirror" /\ q.of = r.of /\ q.name = r.name /\ q.seen = b
  BY DEF Confirmations, Steps

\* The bridge looks for a payment.
LEMMA SelectKeeps ==
    ASSUME Inv, NEW h \in Handlers, BridgeSelect(h)
    PROVE  Inv'
<1> USE DEF Inv
<1> DEFINE q == [req[h] EXCEPT !.pc = "mirror", !.seen = payments[req[h].of] > 0]
<1>a. req[h].pc = "bridge" /\ req[h].of \in Purchases /\ req' = [req EXCEPT ![h] = q]
  BY RequestShape DEF BridgeSelect
<1>b. q \in Confirmations /\ q.pc = "mirror" /\ q.of = req[h].of /\ q.name = req[h].name
      /\ (q.seen <=> payments[req[h].of] > 0)
  <2>1. req[h] \in Confirmations /\ counter[OrgOf[req[h].of]] \in Nat
    BY <1>a, RequestShape, PurchaseAssumption DEF Types
  <2>2. (payments[req[h].of] > 0) \in BOOLEAN
    OBVIOUS
  <2> QED
    BY <2>1, <2>2, Selected, ZenonT(60)
<1> HIDE DEF q
<1>c. /\ req' \in [Handlers -> Confirmations]
      /\ req'[h].pc = "mirror" /\ req'[h].of = req[h].of /\ req'[h].name = req[h].name
      /\ (req'[h].seen <=> payments[req[h].of] > 0)
      /\ \A g \in Handlers : g # h => req'[g] = req[g]
  BY <1>a, <1>b, RequestStep
<1>d. UNCHANGED <<payment_status, intent, counter, vouchers, link, router, users, payments,
                  buyer, treasury, message, callbacks, finished, broken, told, overlap>>
  BY DEF BridgeSelect, rowVars, histVars
<1>e. \A g \in Handlers : req'[g].pc # "idle" => req'[g].of \in Purchases
  BY <1>a, <1>c DEF Types
<1>1. Types'
  BY <1>c, <1>d, <1>e DEF Types
<1>2. Opened'
  BY <1>a, <1>c, <1>d, RequestShape, VoucherShape DEF Opened, Reported
<1>3. Learnt'
  BY <1>a, <1>c, <1>d, RequestShape, VoucherShape DEF Learnt, Reported
<1>4. Backed'
  BY <1>a, <1>c, <1>d, RequestShape, VoucherShape DEF Backed, Reported, ProvisionedHasVoucher
<1>5. Booked'
  BY <1>a, <1>c, <1>d DEF Booked
<1>6. Serial'
  BY <1>a, <1>c, <1>d, RequestShape, VoucherShape DEF Serial
<1>7. Names'
  BY <1>a, <1>c, <1>d, RequestShape, VoucherShape DEF Names, UniqueUsernames
<1>8. Once'
  BY <1>a, <1>c, <1>d, RequestShape, VoucherShape DEF Once
<1>9. Mirrored'
  BY <1>a, <1>c, <1>d, RequestShape DEF Mirrored, FinishedIsMirrored, VouchersOf, NameTaken
<1>10. Handed'
  BY <1>a, <1>c, <1>d, RequestShape, VoucherShape DEF Handed
<1> QED
  BY <1>1, <1>2, <1>3, <1>4, <1>5, <1>6, <1>7, <1>8, <1>9, <1>10 DEF Inv

\* The bridge commits: without overlap nothing but the name of another
\* organization's user is in its way.
LEMMA BridgeKeeps ==
    ASSUME Inv, NEW h \in Handlers, BridgeCommit(h)
    PROVE  Inv'
<1> USE DEF Inv
<1> DEFINE p == req[h].of
           n == req[h].name
           o == OrgOf[p]
<1>a. req[h].pc = "mirror" /\ p \in Purchases /\ n \in Nat /\ o \in Orgs
      /\ req' = [req EXCEPT ![h] = NoRequest]
      /\ message' \subseteq message /\ finished' = finished \cup {p}
  BY RequestShape, PurchaseAssumption DEF BridgeCommit, Done
<1>c. /\ req' \in [Handlers -> Confirmations]
      /\ req'[h].pc = "idle"
      /\ \A g \in Handlers : g # h => req'[g] = req[g]
  BY <1>a, NoRequestShape, RequestStep
<1>d. UNCHANGED <<payment_status, intent, counter, vouchers, link, router, buyer, treasury,
                  callbacks, broken, told, overlap>>
  BY DEF BridgeCommit
<1>e. \A g \in Handlers : req'[g].pc # "idle" => req'[g].of \in Purchases
  BY <1>a, <1>c DEF Types
<1>f. \/ (NameTaken(o, n) \/ PaymentClashes(p, req[h].seen)) /\ UNCHANGED <<users, payments>>
      \/ /\ ~ NameTaken(o, n) /\ ~ PaymentClashes(p, req[h].seen)
         /\ users' = users \cup {<<o, n>>}
         /\ payments' = [payments EXCEPT ![p] = IF req[h].seen THEN @ ELSE @ + 1]
  BY DEF BridgeCommit
<1>g. /\ payments' \in [Purchases -> Nat]
      /\ \A q \in Purchases : payments'[q] <= 1 /\ payments[q] <= payments'[q]
  <2>1. payments[p] \in Nat /\ payments[p] <= 1 /\ payments \in [Purchases -> Nat]
    BY <1>a DEF Types, Booked
  <2>2. CASE req[h].seen
    <3>1. payments' = payments \/ payments' = [payments EXCEPT ![p] = payments[p]]
      BY <1>f, <2>2
    <3> QED
      BY <1>a, <2>1, <3>1 DEF Booked
  <2>3. CASE ~ req[h].seen
    BY <1>a, <1>f, <2>1, <2>3 DEF PaymentClashes, Booked
  <2> QED
    BY <2>2, <2>3
<1>h. users \subseteq users' /\ users' \subseteq users \cup {<<o, n>>}
  BY <1>f
<1>i. ~ overlap => \/ NameTaken(o, n)
                   \/ payments'[p] = 1 /\ <<o, n>> \in users'
  <2>1. SUFFICES ASSUME ~ overlap, ~ NameTaken(o, n)
                 PROVE  payments'[p] = 1 /\ <<o, n>> \in users'
    OBVIOUS
  <2>2. payments[p] \in Nat /\ payments[p] <= 1
    BY <1>a DEF Types, Booked
  <2>3. CASE req[h].seen
    <3>1. payments[p] = 1
      BY <1>a, <2>2, <2>3 DEF Booked
    <3>2. ~ PaymentClashes(p, req[h].seen)
      BY <2>3 DEF PaymentClashes
    <3> QED
      BY <1>a, <1>f, <2>1, <2>3, <3>1, <3>2, ZenonT(60) DEF Types
  <2>4. CASE ~ req[h].seen
    <3>1. payments[p] = 0
      BY <1>a, <2>1, <2>2, <2>4 DEF Mirrored
    <3>2. ~ PaymentClashes(p, req[h].seen)
      BY <3>1 DEF PaymentClashes
    <3> QED
      BY <1>a, <1>f, <2>1, <2>4, <3>1, <3>2 DEF Types
  <2> QED
    BY <2>3, <2>4
<1>j. PICK i \in DOMAIN vouchers : vouchers[i].of = p /\ vouchers[i].name = n
  BY <1>a DEF Backed
<1> HIDE DEF p, n, o
<1>1. Types'
  BY <1>a, <1>c, <1>d, <1>e, <1>g, <1>h, SMTT(60) DEF Types
<1>2. Opened'
  BY <1>a, <1>d DEF Opened, Reported
<1>3. Learnt'
  BY <1>a, <1>c, <1>d, RequestShape, VoucherShape DEF Learnt, Reported
<1>4. Backed'
  BY <1>a, <1>c, <1>d, RequestShape, VoucherShape DEF Backed, Reported, ProvisionedHasVoucher
<1>5. Booked'
  <2>1. ASSUME NEW g \in Handlers, req'[g].pc = "mirror", req'[g].seen
        PROVE  payments'[req'[g].of] > 0
    <3>1. req'[g] = req[g] /\ req[g].of \in Purchases
      BY <1>c, <2>1, RequestShape
    <3>2. payments[req[g].of] > 0
      BY <2>1, <3>1 DEF Booked
    <3> QED
      BY <1>g, <3>1, <3>2 DEF Types
  <2> QED
    BY <1>g, <2>1 DEF Booked
<1>6. Serial'
  BY <1>a, <1>c, <1>d, RequestShape, VoucherShape DEF Serial
<1>7. Names'
  BY <1>a, <1>c, <1>d, RequestShape, VoucherShape, SMTT(60) DEF Names, UniqueUsernames
<1>8. Once'
  BY <1>a, <1>c, <1>d, RequestShape, VoucherShape DEF Once
<1>9. Mirrored'
  <2>1. ASSUME ~ overlap', NEW g \in Handlers, req'[g].pc = "mirror" PROVE FALSE
    BY <1>a, <1>c, <1>d, <2>1 DEF Serial
  <2>2. ASSUME NEW q \in Purchases
        PROVE  /\ payments'[q] <= 1
               /\ ~ overlap' /\ q \in finished' => \E k \in VouchersOf(q)' :
                    \/ NameTaken(OrgOf[q], vouchers[k].name)'
                    \/ payments'[q] = 1 /\ <<OrgOf[q], vouchers'[k].name>> \in users'
    <3>1. CASE q = p
      <4>1. NameTaken(o, n) => \E u \in users' : u[2] = n /\ u[1] # o
        BY <1>h DEF NameTaken
      <4>2. i \in VouchersOf(q)'
        BY <1>d, <1>j, <3>1 DEF VouchersOf
      <4> QED
        BY <1>d, <1>g, <1>i, <1>j, <3>1, <4>1, <4>2 DEF NameTaken, o, p, n
    <3>2. CASE q # p
      <4>1. SUFFICES ASSUME ~ overlap, q \in finished
                     PROVE  \E k \in VouchersOf(q)' :
                               \/ NameTaken(OrgOf[q], vouchers[k].name)'
                               \/ payments'[q] = 1 /\ <<OrgOf[q], vouchers'[k].name>> \in users'
        BY <1>a, <1>d, <1>g, <3>2
      <4>2. PICK k \in VouchersOf(q) : \/ NameTaken(OrgOf[q], vouchers[k].name)
                                       \/ payments[q] = 1 /\ <<OrgOf[q], vouchers[k].name>> \in users
        BY <4>1 DEF Mirrored, FinishedIsMirrored
      <4>3. k \in VouchersOf(q)' /\ vouchers'[k] = vouchers[k]
        BY <1>d DEF VouchersOf
      <4>4. NameTaken(OrgOf[q], vouchers[k].name) => NameTaken(OrgOf[q], vouchers[k].name)'
        BY <1>d, <1>h DEF NameTaken
      <4>5. payments[q] = 1 => payments'[q] = 1
        BY <1>g DEF Types
      <4> QED
        BY <1>h, <4>2, <4>3, <4>4, <4>5
    <3> QED
      BY <3>1, <3>2
  <2> QED
    BY <2>1, <2>2 DEF Mirrored, FinishedIsMirrored
<1>10. Handed'
  BY <1>a, <1>c, <1>d, RequestShape, VoucherShape DEF Handed
<1> QED
  BY <1>1, <1>2, <1>3, <1>4, <1>5, <1>6, <1>7, <1>8, <1>9, <1>10 DEF Inv

\* Every step keeps the invariant.
LEMMA NextKeeps == Inv /\ [Next]_vars => Inv'
<1> SUFFICES ASSUME Inv, [Next]_vars PROVE Inv'
  OBVIOUS
<1>1. ASSUME NEW p \in Purchases,
             \/ purchase_package(p) \/ IntentCreated(p) \/ IntentFailed(p)
             \/ Pay(p) \/ PayFails(p)
      PROVE  Inv'
  BY <1>1, BuyKeeps
<1>2. ASSUME NEW h \in Handlers, NEW p \in Purchases, Deliver(h, p)
      PROVE  Inv'
  <2>1. /\ p \in message /\ treasury[p] = "succeeded" /\ req[h].pc = "idle"
        /\ UNCHANGED <<rowVars, buyer, treasury, histVars, overlap, callbacks>>
    BY <1>2 DEF Deliver, Inv, Opened
  <2>2. CASE AlreadyDone(p)
    <3>1. /\ UNCHANGED <<payment_status, intent, counter, vouchers, link, router, users, payments,
                         buyer, treasury, callbacks, finished, broken, told, overlap, req>>
          /\ message' \subseteq message
      BY <1>2, <2>1, <2>2 DEF Deliver, rowVars, histVars
    <3>2. Types' /\ Opened' /\ Learnt' /\ Backed' /\ Booked'
      BY <3>1, SMTT(60) DEF Inv, Types, Opened, Learnt, Reported, Backed, ProvisionedHasVoucher, Booked
    <3>3. Serial' /\ Names' /\ Once' /\ Mirrored' /\ Handed'
      BY <3>1 DEF Inv, Serial, Names, UniqueUsernames, Once, Mirrored, FinishedIsMirrored,
                  VouchersOf, NameTaken, Handed
    <3> QED
      BY <3>2, <3>3 DEF Inv
  <2>3. CASE ~ AlreadyDone(p)
    <3>1. Start(h, p, "nats", "confirm") /\ UNCHANGED message /\ payment_status[p] # "completed"
      BY <1>2, <2>3 DEF Deliver, AlreadyDone
    <3> QED
      BY <2>1, <3>1, StartKeeps DEF histVars, Reported
  <2> QED
    BY <2>2, <2>3
<1>3. ASSUME NEW h \in Handlers, NEW p \in Purchases, get_payment_status(h, p)
      PROVE  Inv'
  BY <1>3, StartKeeps DEF get_payment_status, histVars
<1>4. ASSUME NEW h \in Handlers, NEW p \in Purchases, NEW word \in {"completed", "failed"},
             payment_webhook(h, p, word)
      PROVE  Inv'
  <2> DEFINE step == IF word = "completed" THEN "confirm" ELSE "failing"
  <2>1. told' = [told EXCEPT ![p] = @ \cup {word}] /\ told \in [Purchases -> SUBSET {"completed", "failed"}]
    BY <1>4 DEF payment_webhook, Inv, Types
  <2>2. callbacks' = callbacks + 1 /\ callbacks' # 0
    BY <1>4 DEF payment_webhook, Inv, Types
  <2>3. step \in {"confirm", "failing"} /\ (step = "confirm" => Reported(p)')
    BY <2>1 DEF Reported
  <2>4. /\ req[h].pc = "idle" /\ Start(h, p, "webhook", step)
        /\ UNCHANGED <<rowVars, buyer, treasury, message, finished, broken, overlap>>
    BY <1>4 DEF payment_webhook
  <2> HIDE DEF step
  <2> QED
    BY <2>1, <2>2, <2>3, <2>4, StartKeeps
<1>5. ASSUME NEW h \in Handlers, FailCommit(h)
      PROVE  Inv'
  <2>1. req[h].pc = "failing" /\ (callbacks = 0 => treasury[req[h].of] = "failed")
    BY <1>5 DEF FailCommit, Inv, Learnt
  <2> QED
    BY <1>5, <2>1, EndKeeps DEF FailCommit, Done, histVars
<1>6. ASSUME NEW h \in Handlers, PlanGone(h)
      PROVE  Inv'
  <2>1. req[h].pc = "confirm" /\ Reported(req[h].of)
    BY <1>6 DEF PlanGone, Inv, Learnt
  <2> QED
    BY <1>6, <2>1, EndKeeps DEF PlanGone, Done
<1>7. ASSUME NEW h \in Handlers, SwallowError(h)
      PROVE  Inv'
  <2>1. req[h].pc # "idle" /\ Reported(req[h].of)
    BY <1>7 DEF SwallowError, Inv, Learnt
  <2> QED
    BY <1>7, <2>1, EndKeeps DEF SwallowError, Done
<1>8. ASSUME NEW h \in Handlers, Crash(h)
      PROVE  Inv'
  BY <1>8, EndKeeps DEF Crash, rowVars
<1>9. ASSUME NEW h \in Handlers, Confirm(h)
      PROVE  Inv'
  BY <1>6, <1>7, <1>9, ReadCounterKeeps, CredentialsKeeps, VoucherKeeps, QueueKeeps,
     SelectKeeps, BridgeKeeps DEF Confirm
<1>10. ASSUME UNCHANGED vars PROVE Inv'
  <2>1. Types' /\ Opened' /\ Learnt' /\ Backed' /\ Booked'
    BY <1>10 DEF vars, rowVars, histVars, Inv, Types, Opened, Learnt, Reported, Backed,
                 ProvisionedHasVoucher, Booked
  <2>2. Serial' /\ Names' /\ Once' /\ Mirrored' /\ Handed'
    BY <1>10 DEF vars, rowVars, histVars, Inv, Serial, Names, UniqueUsernames, Once, Mirrored,
                 FinishedIsMirrored, VouchersOf, NameTaken, Handed
  <2> QED
    BY <2>1, <2>2 DEF Inv
<1> QED
  BY <1>1, <1>2, <1>3, <1>4, <1>5, <1>8, <1>9, <1>10, AnswersKeeps DEF Next

-----------------------------------------------------------------------------
(***************************************************************************)
(* The theorems.                                                           *)
(***************************************************************************)

\* The invariant holds in every reachable state: how buyers, treasury, consumers,
\* polls, callbacks and crashes may interleave.
THEOREM PurchaseInvariant == Spec => []Inv
<1>1. Init => Inv
  BY InitInv
<1>2. Inv /\ [Next]_vars => Inv'
  BY NextKeeps
<1> QED
  BY <1>1, <1>2, PTL DEF Spec

\* Vouchers are made once, under a name of their own (both when confirmations do
\* not overlap), for a reported payment and before the account on the router
\* (_process_successful_payment, generate_hotspot_credentials), for every set of
\* purchases, organizations and handlers.
THEOREM VouchersCorrect == Spec => []VoucherInv
<1>1. Inv => VoucherInv
  <2> SUFFICES ASSUME Inv PROVE VoucherInv
    OBVIOUS
  <2>1. PurchaseTypeOK
    <3>1. link \in [Purchases -> 0 .. Len(vouchers)]
      BY VoucherShape DEF Inv, Types
    <3>2. \A p \in Purchases : payment_status[p] = "completed" => intent[p] \/ "completed" \in told[p]
      BY DEF Inv, Opened, Reported
    <3> QED
      BY <3>1, <3>2, RequestShape DEF Inv, Types, PurchaseTypeOK
  <2>2. OneVoucherEach
    <3> SUFFICES ASSUME ~ overlap, callbacks = 0, NEW p \in Purchases
                 PROVE  Cardinality(VouchersOf(p)) <= 1
      BY DEF OneVoucherEach
    <3>1. \A i, j \in VouchersOf(p) : i = j
      BY DEF Inv, Once, VouchersOf
    <3> QED
      BY <3>1, AtMostOne
  <2>3. UniqueUsernames
    BY DEF Inv, Names, UniqueUsernames
  <2> QED
    BY <2>1, <2>2, <2>3 DEF Inv, Backed, VoucherInv
<1> QED
  BY <1>1, PurchaseInvariant, PTL

\* However confirmations race, revenue is booked at most once; and, when they do
\* not overlap, a purchase whose confirmation ran to its end is on the dashboard
\* (bridge_hotspot_purchase_to_dashboard), up to a username that another
\* organization's user has.
THEOREM FinishedAreMirrored == Spec => []FinishedIsMirrored
<1>1. Inv => FinishedIsMirrored
  BY DEF Inv, Mirrored
<1> QED
  BY <1>1, PurchaseInvariant, PTL

\* However confirmations race, a completed purchase nobody works on has its
\* voucher unless a confirmation of it was cut short (_process_successful_payment).
THEOREM CompletedHaveVouchers == Spec => []CompletedHasVoucher
<1>1. Inv => CompletedHasVoucher
  BY DEF Inv, Handed, CompletedHasVoucher
<1> QED
  BY <1>1, PurchaseInvariant, PTL
=============================================================================
