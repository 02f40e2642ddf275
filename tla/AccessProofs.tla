---------------------------- MODULE AccessProofs ----------------------------
(***************************************************************************)
(* Proofs about the access that customers pay for: HotspotVoucher, for any *)
(* finite set of vouchers, any requests at once, any windows and queues,   *)
(* and PPPoERenewal, for any number of renewals, of requests at once, of   *)
(* faults and of renewals by the office, and any validity.                 *)
(*                                                                         *)
(* The two modules have no state in common.                                *)
(***************************************************************************)
EXTENDS HotspotVoucher, PPPoERenewal, SequenceTheorems, FiniteSetTheorems, TLAPS

-----------------------------------------------------------------------------
(***************************************************************************)
(* Vouchers: the inductive invariant.                                      *)
(***************************************************************************)

RowStatus == {"none", "active", "used", "expired", "deleted"}

RequestRec == [pc : {"idle", "expire", "redeem", "login"}, of : Vouchers \cup {"none"},
               status : RowStatus, at : Time]

TaskRec == [pc : {"idle", "loop"}, at : Time, todo : Seq(Vouchers \X Time),
            done : Seq(Vouchers)]

VoucherTypes ==
    /\ status \in [Vouchers -> RowStatus]
    /\ is_used \in [Vouchers -> BOOLEAN]
    /\ used_at \in [Vouchers -> Time \cup {NULL}]
    /\ expires_at \in [Vouchers -> Time \cup {NULL}]
    /\ bought \in [Vouchers -> Time \cup {NULL}]
    /\ agent \in BOOLEAN
    /\ account \in [Vouchers -> {"absent", "enabled", "disabled"}]
    /\ queued \in [Vouchers -> Seq({"create", "disable"})]
    /\ req \in [Handlers -> RequestRec]
    /\ task \in TaskRec
    /\ now \in 1 .. MaxTime
    /\ redemptions \in [Vouchers -> Nat]
    /\ raced \subseteq Vouchers /\ untracked \subseteq Vouchers

\* A request works on a voucher that has, or had, a row, and goes on to log in
\* only with one that it found active or used.
RequestOK(h) ==
    req[h].pc # "idle" =>
        /\ req[h].of \in Vouchers /\ status[req[h].of] # "none"
        /\ req[h].pc = "login" => req[h].status \in {"active", "used"}

\* The window of v, taken to begin when it was used, is over at time t.
Over(v, t) == used_at[v] # NULL /\ t > access_expiry_from(v, used_at[v]) + Grace

\* What the reconciler has loaded is still so, and it puts behind it only what
\* is over and, on the direct path, disabled.
TaskOK ==
    /\ task.pc = "idle" => task.todo = << >> /\ task.done = << >>
    /\ task.at <= now
    /\ \A i \in DOMAIN task.todo :
          /\ status[task.todo[i][1]] # "none"
          /\ task.todo[i][1] \notin raced =>
                used_at[task.todo[i][1]] # NULL
                /\ used_at[task.todo[i][1]] = task.todo[i][2]
    /\ \A v \in ToSet(task.done) :
          /\ status[v] # "none"
          /\ v \in raced \/ Over(v, task.at)
          /\ agent \/ account[v] # "enabled" \/ v \in untracked

\* A voucher without a row has left no trace yet.
Blank(v) ==
    status[v] = "none" =>
        /\ account[v] = "absent" /\ queued[v] = << >>
        /\ used_at[v] = NULL /\ bought[v] = NULL
        /\ ~ is_used[v] /\ redemptions[v] = 0

\* Unless two requests met, a voucher that was used is not being redeemed and
\* cannot be again, and the time of its use stands.
Once(v) ==
    v \notin raced =>
        /\ \A g, h \in Redeeming(v) : g = h
        /\ used_at[v] # NULL => is_used[v] /\ Redeeming(v) = {}
        /\ redemptions[v] = 0 \/ (redemptions[v] = 1 /\ used_at[v] # NULL)
        /\ bought[v] # NULL => bought[v] = used_at[v]

\* A disable waits for the router only when the window is over.
Ended(v) ==
    (\E i \in DOMAIN queued[v] : queued[v][i] = "disable") => v \in raced \/ Over(v, now)

Known(v) ==
    /\ Outlook(v) = "enabled" => Tracked(v) \/ v \in untracked
    /\ status[v] = "used" /\ used_at[v] = NULL => v \in untracked
    /\ agent \/ queued[v] = << >>

VoucherOK(v) == Blank(v) /\ Once(v) /\ Ended(v) /\ Known(v)

VoucherIndInv ==
    /\ VoucherTypes /\ TaskOK
    /\ \A h \in Handlers : RequestOK(h)
    /\ \A v \in Vouchers : VoucherOK(v)

-----------------------------------------------------------------------------
(***************************************************************************)
(* Sequences and the router.                                               *)
(***************************************************************************)

Accounts == {"absent", "enabled", "disabled"}
Commands == {"create", "disable"}

\* A command waits that takes the access away.
Has(q) == \E i \in DOMAIN q : q[i] = "disable"

\* What is appended to a sequence joins its elements.
LEMMA AppendSet ==
    ASSUME NEW S, NEW s \in Seq(S), NEW x \in S
    PROVE  Append(s, x) \in Seq(S) /\ ToSet(Append(s, x)) = ToSet(s) \cup {x}
<1>1. Append(s, x) \in Seq(S)
    BY SMTT(60)
<1>2. ToSet(Append(s, x)) \subseteq ToSet(s) \cup {x}
    BY SMTT(60) DEF ToSet
<1>3. \A i \in DOMAIN s : Append(s, x)[i] = s[i] /\ i \in DOMAIN Append(s, x)
    BY SMTT(60)
<1>4. Append(s, x)[Len(s) + 1] = x /\ Len(s) + 1 \in DOMAIN Append(s, x)
    BY SMTT(60)
<1>5. ToSet(s) \cup {x} \subseteq ToSet(Append(s, x))
    BY <1>3, <1>4, ZenonT(60) DEF ToSet
<1> QED
    BY <1>1, <1>2, <1>5

\* The elements of a finite set can be listed.
LEMMA SetToSeqType ==
    ASSUME NEW S, IsFiniteSet(S)
    PROVE  SetToSeq(S) \in Seq(S)
<1>1. Cardinality(S) \in Nat /\ ExistsBijection(1 .. Cardinality(S), S)
    BY FS_CardinalityType
<1>2. \E f \in [1 .. Cardinality(S) -> S] : IsInjective(f)
    BY <1>1 DEF ExistsBijection, Bijection, Injection, IsInjective
<1>3. SetToSeq(S) \in [1 .. Cardinality(S) -> S]
    BY <1>2 DEF SetToSeq
<1> QED
    BY <1>1, <1>3, SMT

\* A command leaves an account in one of its states.
LEMMA EffectType ==
    ASSUME NEW c \in Commands, NEW a \in Accounts
    PROVE  Effect(c, a) \in Accounts
BY DEF Effect, Commands, Accounts

\* With nothing queued the account stays as it is.
LEMMA NothingQueued ==
    ASSUME NEW a \in Accounts
    PROVE  Outcome(a, << >>) = a
BY DEF Outcome, Accounts

\* A command that joins the queue has the last word.
LEMMA LastCommand ==
    ASSUME NEW a \in Accounts, NEW q \in Seq(Commands), NEW c \in Commands
    PROVE  Outcome(a, Append(q, c)) = Effect(c, Outcome(a, q))
<1> DEFINE n == Len(q) + 1
           t == Append(q, c)
<1>1. DOMAIN q = 1 .. Len(q) /\ DOMAIN t = 1 .. n /\ Len(q) \in Nat
    BY SMTT(60)
<1>2. t[n] = c /\ (\A i \in DOMAIN q : t[i] = q[i])
    BY <1>1, SMTT(60)
<1> HIDE DEF t
<1>3. CASE c = "create" /\ a = "absent"
    BY <1>1, <1>2, <1>3, SMTT(60) DEF Outcome, Effect, Accounts, Commands
<1>4. CASE c = "disable" /\ a = "absent"
    BY <1>1, <1>2, <1>4, SMTT(60) DEF Outcome, Effect, Accounts, Commands
<1>5. CASE c = "create" /\ a # "absent"
    BY <1>1, <1>2, <1>5, SMTT(60) DEF Outcome, Effect, Accounts, Commands
<1>6. CASE c = "disable" /\ a # "absent"
    BY <1>1, <1>2, <1>6, SMTT(60) DEF Outcome, Effect, Accounts, Commands
<1> QED
    BY <1>3, <1>4, <1>5, <1>6 DEF Commands, t

\* The same of a queue and what is left of it, position by position.
LEMMA Shifted ==
    ASSUME NEW a \in Accounts, NEW n \in Nat,
           NEW q \in [1 .. n + 1 -> Commands], NEW t \in [1 .. n -> Commands],
           \A i \in 1 .. n : t[i] = q[i + 1]
    PROVE  Outcome(Effect(q[1], a), t) = Outcome(a, q)
<1>1. \A i \in 1 .. n + 1 : i # 1 => i - 1 \in 1 .. n /\ t[i - 1] = q[i]
    BY SMTT(60)
<1>2. q[1] \in Commands /\ 1 \in 1 .. n + 1 /\ DOMAIN q = 1 .. n + 1 /\ DOMAIN t = 1 .. n
    BY SMTT(60)
<1>3. CASE q[1] = "create" /\ a = "absent"
    <2>1. Effect(q[1], a) = "enabled"
        BY <1>3 DEF Effect
    <2>2. Outcome("enabled", t) = IF Has(t) THEN "disabled" ELSE "enabled"
        BY <1>2, SMTT(60) DEF Outcome, Has
    <2>3. Has(t) <=> \E j \in 1 .. n + 1 : j > 1 /\ q[j] = "disable"
        BY <1>1, <1>2, SMTT(60) DEF Has
    <2>4. 1 \in {i \in DOMAIN q : q[i] = "create"}
        BY <1>2, <1>3
    <2>5. (\E i \in {i \in DOMAIN q : q[i] = "create"} :
              \E j \in DOMAIN q : j > i /\ q[j] = "disable") <=> Has(t)
        BY <1>2, <2>3, <2>4, SMTT(60)
    <2> QED
        BY <2>1, <2>2, <2>4, <2>5, <1>3 DEF Outcome
<1>4. CASE q[1] = "disable" /\ a = "absent"
    <2>1. Effect(q[1], a) = "absent"
        BY <1>4 DEF Effect
    <2>2. (\E i \in DOMAIN q : q[i] = "create") <=> (\E i \in DOMAIN t : t[i] = "create")
        BY <1>1, <1>2, <1>4, SMTT(60)
    <2>3. ASSUME NEW i \in DOMAIN q, q[i] = "create",
                 NEW j \in DOMAIN q, j > i, q[j] = "disable"
          PROVE  \E k, l \in DOMAIN t : t[k] = "create" /\ l > k /\ t[l] = "disable"
        <3>1. i - 1 \in 1 .. n /\ j - 1 \in 1 .. n /\ t[i - 1] = "create"
              /\ t[j - 1] = "disable" /\ j - 1 > i - 1
            BY <1>1, <1>2, <1>4, <2>3, SMTT(60)
        <3> QED
            BY <3>1, <1>2, SMTT(60)
    <2>4. ASSUME NEW k \in DOMAIN t, t[k] = "create",
                 NEW l \in DOMAIN t, l > k, t[l] = "disable"
          PROVE  \E i, j \in DOMAIN q : q[i] = "create" /\ j > i /\ q[j] = "disable"
        <3>1. k + 1 \in 1 .. n + 1 /\ l + 1 \in 1 .. n + 1 /\ q[k + 1] = "create"
              /\ q[l + 1] = "disable" /\ l + 1 > k + 1
            BY <1>2, <2>4, SMTT(60)
        <3> QED
            BY <3>1, <1>2, SMTT(60)
    <2>5. (\E i \in {i \in DOMAIN q : q[i] = "create"} :
              \E j \in DOMAIN q : j > i /\ q[j] = "disable")
          <=> (\E i \in {i \in DOMAIN t : t[i] = "create"} :
              \E j \in DOMAIN t : j > i /\ t[j] = "disable")
        BY <2>3, <2>4, ZenonT(60)
    <2>6. {i \in DOMAIN q : q[i] = "create"} = {} <=> {i \in DOMAIN t : t[i] = "create"} = {}
        BY <2>2, ZenonT(60)
    <2> QED
        BY <2>1, <2>5, <2>6, <1>4 DEF Outcome
<1>5. CASE q[1] = "create" /\ a # "absent"
    BY <1>1, <1>2, <1>5, SMTT(60) DEF Outcome, Effect, Accounts
<1>6. CASE q[1] = "disable" /\ a # "absent"
    BY <1>1, <1>2, <1>6, SMTT(60) DEF Outcome, Effect, Accounts
<1> QED
    BY <1>2, <1>3, <1>4, <1>5, <1>6 DEF Commands

\* Executing the first command changes nothing about the outcome.
LEMMA FirstCommand ==
    ASSUME NEW a \in Accounts, NEW q \in Seq(Commands), q # << >>
    PROVE  Outcome(Effect(Head(q), a), Tail(q)) = Outcome(a, q)
<1> DEFINE n == Len(q) - 1
<1>1. /\ n \in Nat /\ q \in [1 .. n + 1 -> Commands] /\ Head(q) = q[1]
      /\ Tail(q) \in [1 .. n -> Commands]
      /\ \A i \in 1 .. n : Tail(q)[i] = q[i + 1]
    <2>1. Len(q) \in Nat \ {0} /\ q \in [1 .. Len(q) -> Commands] /\ n + 1 = Len(q)
        BY SMTT(60)
    <2>2. Tail(q) \in Seq(Commands) /\ Len(Tail(q)) = n
          /\ \A i \in 1 .. Len(Tail(q)) : Tail(q)[i] = q[i + 1]
        BY HeadTailProperties
    <2>3. Tail(q) \in [1 .. n -> Commands]
        BY <2>2, LenProperties
    <2> QED
        BY <2>1, <2>2, <2>3, SMTT(60)
<1> QED
    BY <1>1, Shifted, ZenonT(60)

\* An account that ends up disabled is so already or a disable waits for it.
LEMMA OutcomeDisabled ==
    ASSUME NEW a \in Accounts, NEW q \in Seq(Commands)
    PROVE  /\ Outcome(a, q) \in Accounts
           /\ Outcome(a, q) = "disabled" => a = "disabled" \/ Has(q)
           /\ a = "disabled" => Outcome(a, q) = "disabled"
BY SMTT(60) DEF Outcome, Has, Accounts

-----------------------------------------------------------------------------
(***************************************************************************)
(* What a step that leaves a part alone keeps of the invariant.            *)
(***************************************************************************)

\* What every step may do to what is known: rows do not become unissued, time
\* passes, and the time of a use stands unless two requests met.
Grows ==
    /\ agent' = agent /\ now' >= now
    /\ raced \subseteq raced' /\ untracked \subseteq untracked'
    /\ \A w \in Vouchers :
          /\ status[w] # "none" => status'[w] # "none"
          /\ used_at[w] # NULL /\ w \notin raced' => used_at'[w] = used_at[w]

\* The step leaves this voucher alone, its account included.
Same(w) ==
    /\ status'[w] = status[w] /\ is_used'[w] = is_used[w] /\ used_at'[w] = used_at[w]
    /\ bought'[w] = bought[w] /\ account'[w] = account[w] /\ queued'[w] = queued[w]
    /\ redemptions'[w] = redemptions[w]
    /\ Redeeming(w)' \subseteq Redeeming(w)

\* Times are numbers.
LEMMA Numbers ==
    ASSUME VoucherAssumption
    PROVE  /\ Time \subseteq Nat /\ NULL \notin Time /\ NULL \in Nat
           /\ \A t \in 1 .. MaxTime : t \in Time /\ t + Shelf \in Time
           /\ \A w \in Vouchers, t \in Time \cup {NULL} :
                 access_expiry_from(w, t) + Grace \in Nat
BY SMTT(60) DEF VoucherAssumption, VoucherConstants, Time, NULL, access_expiry_from

\* A voucher that is left alone stays in order.
LEMMA VoucherKept ==
    ASSUME VoucherAssumption, VoucherTypes, VoucherTypes', Grows,
           NEW w \in Vouchers, VoucherOK(w), Same(w)
    PROVE  VoucherOK(w)'
<1>1. Blank(w)'
    BY DEF VoucherOK, Blank, Same
<1>2. Once(w)'
    BY ZenonT(60) DEF VoucherOK, Once, Same, Grows
<1>3. Ended(w)'
    <2>1. SUFFICES ASSUME \E i \in DOMAIN queued[w] : queued[w][i] = "disable",
                          w \notin raced'
                   PROVE  Over(w, now)'
        BY ZenonT(60) DEF Ended, Same
    <2>2. Over(w, now) /\ w \notin raced
        BY <2>1 DEF VoucherOK, Ended, Grows
    <2>3. now \in Nat /\ now' \in Nat /\ now <= now'
        BY SMTT(60) DEF VoucherTypes, Grows, VoucherAssumption, VoucherConstants
    <2>4. Over(w, now)' <=> \E t \in Nat : t = now' /\ used_at'[w] # NULL
                              /\ t > access_expiry_from(w, used_at'[w]) + Grace
        BY <2>3 DEF Over, access_expiry_from
    <2>5. used_at'[w] = used_at[w] /\ used_at[w] # NULL /\ used_at[w] \in Time \cup {NULL}
        BY <2>2 DEF Same, Over, VoucherTypes
    <2>6. access_expiry_from(w, used_at[w]) + Grace \in Nat
        BY <2>5, Numbers
    <2>7. now' > access_expiry_from(w, used_at[w]) + Grace
        BY <2>2, <2>3, <2>6, SMTT(60) DEF Over
    <2> QED
        BY <2>3, <2>4, <2>5, <2>7
<1>4. Known(w)'
    BY DEF VoucherOK, Known, Same, Grows, Outlook, Outcome, Tracked, UsedRows, BoughtRows
<1> QED
    BY <1>1, <1>2, <1>3, <1>4 DEF VoucherOK

\* The reconciler's work stays in order as long as no account it has put
\* behind it comes back unnoticed.
LEMMA TaskKept ==
    ASSUME VoucherAssumption, VoucherTypes, VoucherTypes', Grows, TaskOK, task' = task,
           \A w \in ToSet(task.done) :
               agent \/ account[w] # "enabled" \/ w \in untracked
                   => agent \/ account'[w] # "enabled" \/ w \in untracked'
    PROVE  TaskOK'
<1>1. task.pc = "idle" => task.todo = << >> /\ task.done = << >>
    BY DEF TaskOK
<1>2. task.at \in Nat /\ task.at <= now /\ now' \in Nat /\ now \in Nat /\ task.at <= now'
    <2>1. task.at \in Nat
        BY Numbers DEF VoucherTypes, TaskRec
    <2> QED
        BY <2>1, SMTT(60) DEF TaskOK, VoucherTypes, Grows, VoucherAssumption, VoucherConstants
<1>3. ASSUME NEW i \in DOMAIN task.todo
      PROVE  /\ status'[task.todo[i][1]] # "none"
             /\ task.todo[i][1] \notin raced' =>
                    used_at'[task.todo[i][1]] # NULL
                    /\ used_at'[task.todo[i][1]] = task.todo[i][2]
    <2>1. task.todo[i] \in Vouchers \X Time
        BY DEF VoucherTypes, TaskRec
    <2>2. task.todo[i][1] \in Vouchers
        BY <2>1
    <2>3. /\ status[task.todo[i][1]] # "none"
          /\ task.todo[i][1] \notin raced =>
                 used_at[task.todo[i][1]] # NULL
                 /\ used_at[task.todo[i][1]] = task.todo[i][2]
        BY DEF TaskOK
    <2> QED
        BY <2>2, <2>3 DEF Grows
<1>4. ASSUME NEW w \in ToSet(task.done)
      PROVE  /\ status'[w] # "none"
             /\ w \in raced' \/ Over(w, task.at)'
             /\ agent' \/ account'[w] # "enabled" \/ w \in untracked'
    <2>1. w \in Vouchers
        BY DEF ToSet, VoucherTypes, TaskRec
    <2>2. /\ status[w] # "none" /\ (w \in raced \/ Over(w, task.at))
          /\ (agent \/ account[w] # "enabled" \/ w \in untracked)
        BY DEF TaskOK
    <2>3. ASSUME w \notin raced'
          PROVE  Over(w, task.at)'
        <3>1. Over(w, task.at)
            BY <2>2, <2>3 DEF Grows
        <3>2. used_at'[w] = used_at[w]
            BY <2>1, <2>3, <3>1 DEF Grows, Over
        <3> QED
            BY <3>1, <3>2 DEF Over, access_expiry_from
    <2> QED
        BY <2>1, <2>2, <2>3 DEF Grows
<1> QED
    BY <1>1, <1>2, <1>3, <1>4 DEF TaskOK

\* A request that goes on, or ends, works on the same voucher as before.
LEMMA RequestsKept ==
    ASSUME VoucherTypes, Grows, \A h \in Handlers : RequestOK(h),
           \A h \in Handlers : req'[h] = req[h] \/ req'[h] = Idle
    PROVE  \A h \in Handlers : RequestOK(h)'
<1> SUFFICES ASSUME NEW h \in Handlers, req'[h].pc # "idle"
             PROVE  /\ req'[h].of \in Vouchers /\ status'[req'[h].of] # "none"
                    /\ req'[h].pc = "login" => req'[h].status \in {"active", "used"}
    BY DEF RequestOK
<1>1. req'[h] = req[h]
    BY DEF Idle
<1>2. RequestOK(h)
    OBVIOUS
<1> QED
    BY <1>1, <1>2 DEF RequestOK, Grows

\* Requests that go on or end redeem no voucher anew.
LEMMA RedeemingShrinks ==
    ASSUME NEW w, \A h \in Handlers : req'[h] = req[h] \/ req'[h] = Idle
    PROVE  Redeeming(w)' \subseteq Redeeming(w)
<1> SUFFICES ASSUME NEW h \in Handlers, req'[h].pc = "redeem", req'[h].of = w
             PROVE  h \in Redeeming(w)
    BY DEF Redeeming
<1>1. req'[h] = req[h]
    BY DEF Idle
<1> QED
    BY <1>1 DEF Redeeming

\* Access is only taken from a voucher whose window is over.
Justified(w) ==
    account'[w] = "disabled" \/ Has(queued'[w])
        => account[w] = "disabled" \/ w \in raced \/ Over(w, now)

\* What a step that concerns one voucher has to show.
LEMMA OneVoucher ==
    ASSUME VoucherAssumption, VoucherIndInv, VoucherTypes', Grows, NEW v \in Vouchers,
           \A w \in Vouchers : w # v => Same(w),
           VoucherOK(v)', Justified(v), TaskOK', \A h \in Handlers : RequestOK(h)'
    PROVE  VoucherIndInv' /\ \A w \in Vouchers : Justified(w)
<1>1. \A w \in Vouchers : VoucherOK(w)'
    BY VoucherKept DEF VoucherIndInv
<1>2. \A w \in Vouchers : Justified(w)
    BY DEF VoucherIndInv, VoucherOK, Ended, Justified, Has, Same
<1> QED
    BY <1>1, <1>2 DEF VoucherIndInv

\* What a step that concerns no voucher has to show.
LEMMA NoVoucher ==
    ASSUME VoucherAssumption, VoucherIndInv, VoucherTypes', Grows,
           \A w \in Vouchers : Same(w),
           TaskOK', \A h \in Handlers : RequestOK(h)'
    PROVE  VoucherIndInv' /\ \A w \in Vouchers : Justified(w)
<1>1. \A w \in Vouchers : VoucherOK(w)'
    BY VoucherKept DEF VoucherIndInv
<1>2. \A w \in Vouchers : Justified(w)
    BY DEF VoucherIndInv, VoucherOK, Ended, Justified, Has, Same
<1> QED
    BY <1>1, <1>2 DEF VoucherIndInv

\* A sync concerns one account, and takes no access away.
LEMMA SyncFacts ==
    ASSUME VoucherTypes, NEW v \in Vouchers, NEW reached \in BOOLEAN,
           agent \/ queued[v] = << >>, SyncUser(v, reached)
    PROVE  /\ account' \in [Vouchers -> {"absent", "enabled", "disabled"}]
           /\ queued' \in [Vouchers -> Seq({"create", "disable"})]
           /\ \A w \in Vouchers : w # v => account'[w] = account[w] /\ queued'[w] = queued[w]
           /\ agent => account' = account
           /\ agent \/ queued'[v] = << >>
           /\ Has(queued'[v]) => Has(queued[v])
           /\ account'[v] = "disabled" => account[v] = "disabled"
<1>1. account[v] \in Accounts /\ queued[v] \in Seq(Commands)
    BY DEF VoucherTypes, Accounts, Commands
<1>2. CASE agent
    <2>1. queued' = [queued EXCEPT ![v] = Append(@, "create")] /\ account' = account
        BY <1>2 DEF SyncUser
    <2>2. Append(queued[v], "create") \in Seq(Commands)
          /\ ToSet(Append(queued[v], "create")) = ToSet(queued[v]) \cup {"create"}
        BY <1>1, AppendSet DEF Commands
    <2>3. queued'[v] = Append(queued[v], "create")
        BY <2>1 DEF VoucherTypes
    <2>4. Has(queued'[v]) => Has(queued[v])
        BY <2>2, <2>3 DEF Has, ToSet
    <2> QED
        BY <1>2, <2>1, <2>2, <2>4 DEF VoucherTypes, Commands
<1>3. CASE ~ agent
    <2>1. /\ account' = [account EXCEPT ![v] = IF reached THEN Effect("create", @) ELSE @]
          /\ queued' = queued
        BY <1>3 DEF SyncUser
    <2>2. Effect("create", account[v]) \in Accounts
        BY <1>1, EffectType DEF Commands
    <2>3. Effect("create", account[v]) = "disabled" => account[v] = "disabled"
        BY <1>1 DEF Effect, Accounts
    <2> QED
        BY <1>3, <2>1, <2>2, <2>3 DEF VoucherTypes, Accounts
<1> QED
    BY <1>2, <1>3

\* A voucher without a row is in nobody's hands.
LEMMA Unissued ==
    ASSUME VoucherIndInv, NEW v \in Vouchers, status[v] = "none"
    PROVE  /\ Redeeming(v) = {} /\ v \notin ToSet(task.done)
           /\ account[v] = "absent" /\ queued[v] = << >> /\ used_at[v] = NULL
           /\ bought[v] = NULL /\ ~ is_used[v] /\ redemptions[v] = 0
<1>1. Redeeming(v) = {}
    BY DEF VoucherIndInv, RequestOK, Redeeming
<1>2. v \notin ToSet(task.done)
    BY DEF VoucherIndInv, TaskOK
<1> QED
    BY <1>1, <1>2 DEF VoucherIndInv, VoucherOK, Blank

-----------------------------------------------------------------------------
(***************************************************************************)
(* Issuing and editing.                                                    *)
(***************************************************************************)

\* generate_vouchers
LEMMA GenerateKeeps ==
    ASSUME VoucherAssumption, VoucherIndInv, NEW v \in Vouchers,
           NEW shelf \in {NULL, now + Shelf}, generate_vouchers(v, shelf)
    PROVE  VoucherIndInv' /\ \A w \in Vouchers : Justified(w)
<1> USE DEF generate_vouchers, routerVars, auxVars
<1>1. VoucherTypes /\ TaskOK /\ VoucherOK(v) /\ (\A h \in Handlers : RequestOK(h))
    BY DEF VoucherIndInv
<1>2. VoucherTypes'
    <2>1. shelf \in Time \cup {NULL}
        BY <1>1, Numbers DEF VoucherTypes
    <2> QED
        BY <1>1, <2>1, SMTT(60) DEF VoucherTypes, RowStatus, TaskRec, RequestRec
<1>3. Grows
    BY <1>1 DEF Grows, VoucherTypes
<1>4. \A w \in Vouchers : w # v => Same(w)
    BY <1>1 DEF Same, VoucherTypes, Redeeming
<1>5. TaskOK'
    BY <1>1, <1>2, <1>3, TaskKept
<1>6. \A h \in Handlers : RequestOK(h)'
    BY <1>1, <1>3, RequestsKept
<1>7. VoucherOK(v)' /\ Justified(v)
    <2>1. status'[v] = "active"
        BY <1>1 DEF VoucherTypes
    <2>2. Outcome(account[v], queued[v]) = "absent" /\ ~ Has(queued[v])
        BY Unissued, NothingQueued DEF Accounts, Has
    <2> QED
        BY <2>1, <2>2, Unissued DEF VoucherOK, Blank, Once, Ended, Known, Justified, Has,
                                    Outlook, Outcome, Redeeming
<1> QED
    BY <1>2, <1>3, <1>4, <1>5, <1>6, <1>7, OneVoucher

\* _process_successful_payment
LEMMA PaymentKeeps ==
    ASSUME VoucherAssumption, VoucherIndInv, NEW v \in Vouchers, NEW reached \in BOOLEAN,
           _process_successful_payment(v, reached)
    PROVE  VoucherIndInv' /\ \A w \in Vouchers : Justified(w)
<1> USE DEF _process_successful_payment, auxVars
<1>1. VoucherTypes /\ TaskOK /\ VoucherOK(v) /\ (\A h \in Handlers : RequestOK(h))
    BY DEF VoucherIndInv
<1>2. /\ status[v] = "none" /\ queued[v] = << >> /\ account[v] = "absent"
      /\ v \notin ToSet(task.done) /\ Redeeming(v) = {} /\ used_at[v] = NULL
      /\ redemptions[v] = 0 /\ ~ Has(queued[v])
    BY Unissued DEF Has
<1>3. /\ account' \in [Vouchers -> {"absent", "enabled", "disabled"}]
      /\ queued' \in [Vouchers -> Seq({"create", "disable"})]
      /\ \A w \in Vouchers : w # v => account'[w] = account[w] /\ queued'[w] = queued[w]
      /\ agent \/ queued'[v] = << >>
      /\ Has(queued'[v]) => Has(queued[v])
      /\ account'[v] = "disabled" => account[v] = "disabled"
    BY <1>1, <1>2, SyncFacts
<1>4. now \in Time /\ now + Shelf \in Time /\ now # NULL
    BY <1>1, Numbers DEF VoucherTypes
<1>5. VoucherTypes'
    BY <1>1, <1>3, <1>4 DEF VoucherTypes, RowStatus, TaskRec, RequestRec
<1>6. Grows
    BY <1>1, <1>2 DEF Grows, VoucherTypes
<1>7. \A w \in Vouchers : w # v => Same(w)
    BY <1>1, <1>3 DEF Same, VoucherTypes, Redeeming
<1>8. TaskOK'
    <2>1. \A w \in ToSet(task.done) : w \in Vouchers /\ account'[w] = account[w]
        BY <1>1, <1>2, <1>3 DEF ToSet, VoucherTypes, TaskRec
    <2> QED
        BY <1>1, <1>5, <1>6, <2>1, TaskKept
<1>9. \A h \in Handlers : RequestOK(h)'
    BY <1>1, <1>6, RequestsKept
<1>10. VoucherOK(v)' /\ Justified(v)
    <2>1. status'[v] = "used" /\ used_at'[v] = now /\ is_used'[v] = TRUE /\ bought'[v] = now
        BY <1>1 DEF VoucherTypes
    <2>2. Redeeming(v)' = {}
        BY <1>2 DEF Redeeming
    <2>3. Blank(v)' /\ Once(v)'
        BY <1>2, <1>4, <2>1, <2>2 DEF Blank, Once
    <2>4. Ended(v)' /\ Justified(v)
        BY <1>2, <1>3 DEF Ended, Has, Justified
    <2>5. Known(v)'
        BY <1>3, <1>4, <2>1 DEF Known, Tracked, UsedRows
    <2> QED
        BY <2>3, <2>4, <2>5 DEF VoucherOK
<1> QED
    BY <1>5, <1>6, <1>7, <1>8, <1>9, <1>10, OneVoucher

\* update_voucher
LEMMA UpdateKeeps ==
    ASSUME VoucherAssumption, VoucherIndInv, NEW v \in Vouchers,
           NEW st \in {"active", "used", "expired"}, NEW shelf \in EditedDates(v),
           update_voucher(v, st, shelf)
    PROVE  VoucherIndInv' /\ \A w \in Vouchers : Justified(w)
<1> USE DEF update_voucher, routerVars
<1>1. VoucherTypes /\ TaskOK /\ VoucherOK(v) /\ (\A h \in Handlers : RequestOK(h))
    BY DEF VoucherIndInv
<1>2. VoucherTypes'
    <2>1. shelf \in Time \cup {NULL}
        BY <1>1, SMTT(60)
        DEF EditedDates, VoucherTypes, Time, VoucherAssumption, VoucherConstants
    <2>2. expires_at' \in [Vouchers -> Time \cup {NULL}]
        BY <1>1, <2>1 DEF VoucherTypes
    <2>3. status' \in [Vouchers -> RowStatus] /\ untracked' \subseteq Vouchers
        BY <1>1 DEF VoucherTypes, RowStatus
    <2> QED
        BY <1>1, <2>2, <2>3 DEF VoucherTypes
<1>3. Grows
    BY <1>1 DEF Grows, VoucherTypes
<1>4. \A w \in Vouchers : w # v => Same(w)
    BY <1>1 DEF Same, VoucherTypes, Redeeming
<1>5. TaskOK'
    BY <1>1, <1>2, <1>3, TaskKept
<1>6. \A h \in Handlers : RequestOK(h)'
    BY <1>1, <1>3, RequestsKept
<1>7. VoucherOK(v)' /\ Justified(v)
    <2>1. /\ status'[v] # "none" /\ Redeeming(v)' = Redeeming(v)
          /\ v \in untracked' \/ status'[v] = status[v]
          /\ v \in untracked => v \in untracked'
        BY <1>1 DEF VoucherTypes, Redeeming
    <2>2. Blank(v)' /\ Once(v)'
        BY <1>1, <2>1 DEF VoucherOK, Blank, Once
    <2>3. Ended(v)' /\ Justified(v)
        BY <1>1 DEF VoucherOK, Ended, Over, access_expiry_from, Justified, Has
    <2>4. Known(v)'
        <3>1. CASE v \in untracked'
            BY <1>1, <3>1 DEF VoucherOK, Known
        <3>2. CASE v \notin untracked'
            <4>1. /\ Outlook(v)' = Outlook(v)
                  /\ UNCHANGED <<agent, used_at, bought>> /\ queued'[v] = queued[v]
                BY DEF Outlook
            <4>2. Tracked(v)' = Tracked(v)
                BY <2>1, <3>2, <4>1 DEF Tracked, UsedRows, BoughtRows
            <4> QED
                BY <1>1, <2>1, <3>2, <4>1, <4>2 DEF VoucherOK, Known
        <3> QED
            BY <3>1, <3>2
    <2> QED
        BY <2>2, <2>3, <2>4 DEF VoucherOK
<1> QED
    BY <1>2, <1>3, <1>4, <1>5, <1>6, <1>7, OneVoucher

\* delete_voucher
LEMMA DeleteKeeps ==
    ASSUME VoucherAssumption, VoucherIndInv, NEW v \in Vouchers, delete_voucher(v)
    PROVE  VoucherIndInv' /\ \A w \in Vouchers : Justified(w)
<1> USE DEF delete_voucher, routerVars
<1>1. VoucherTypes /\ TaskOK /\ VoucherOK(v) /\ (\A h \in Handlers : RequestOK(h))
    BY DEF VoucherIndInv
<1>2. VoucherTypes'
    BY <1>1, SMTT(60) DEF VoucherTypes, RowStatus, TaskRec, RequestRec
<1>3. Grows
    BY <1>1 DEF Grows, VoucherTypes
<1>4. \A w \in Vouchers : w # v => Same(w)
    BY <1>1 DEF Same, VoucherTypes, Redeeming
<1>5. TaskOK'
    BY <1>1, <1>2, <1>3, TaskKept
<1>6. \A h \in Handlers : RequestOK(h)'
    BY <1>1, <1>3, RequestsKept
<1>7. VoucherOK(v)' /\ Justified(v)
    <2>1. /\ status'[v] # "none" /\ v \in untracked' /\ Redeeming(v)' = Redeeming(v)
          /\ bought'[v] = NULL
        BY <1>1 DEF VoucherTypes, Redeeming
    <2>2. Blank(v)' /\ Once(v)'
        BY <1>1, <2>1 DEF VoucherOK, Blank, Once
    <2>3. Ended(v)' /\ Justified(v)
        BY <1>1 DEF VoucherOK, Ended, Over, access_expiry_from, Justified, Has
    <2>4. Known(v)'
        BY <1>1, <2>1 DEF VoucherOK, Known
    <2> QED
        BY <2>2, <2>3, <2>4 DEF VoucherOK
<1> QED
    BY <1>2, <1>3, <1>4, <1>5, <1>6, <1>7, OneVoucher

-----------------------------------------------------------------------------
(***************************************************************************)
(* The portal.                                                             *)
(***************************************************************************)

\* redeem_voucher loads the voucher.
LEMMA RedeemLoadKeeps ==
    ASSUME VoucherAssumption, VoucherIndInv, NEW h \in Handlers, NEW v \in Vouchers,
           RedeemLoad(h, v)
    PROVE  VoucherIndInv' /\ \A w \in Vouchers : Justified(w)
<1> USE DEF RedeemLoad, rowVars, routerVars
<1>1. VoucherTypes /\ TaskOK /\ VoucherOK(v) /\ (\A g \in Handlers : RequestOK(g))
    BY DEF VoucherIndInv
<1>2. /\ req'[h].pc \in {"expire", "redeem"} /\ req'[h].of = v /\ req'[h] \in RequestRec
      /\ status[v] = "active" /\ ~ is_used[v] /\ req[h].pc = "idle"
      /\ \A g \in Handlers : g # h => req'[g] = req[g]
    BY <1>1, Numbers DEF VoucherTypes, RequestRec, RowStatus, Redeemable, Idle
<1>3. VoucherTypes'
    <2>1. req' \in [Handlers -> RequestRec]
        BY <1>1, <1>2 DEF VoucherTypes
    <2> QED
        BY <1>1, <2>1 DEF VoucherTypes
<1>4. Grows
    BY <1>1 DEF Grows, VoucherTypes
<1>5. \A w \in Vouchers : w # v => Same(w)
    <2>1. \A w \in Vouchers : w # v => Redeeming(w)' \subseteq Redeeming(w)
        BY <1>2 DEF Redeeming
    <2> QED
        BY <2>1 DEF Same
<1>6. TaskOK'
    BY <1>1, <1>3, <1>4, TaskKept
<1>7. \A g \in Handlers : RequestOK(g)'
    <2> SUFFICES ASSUME NEW g \in Handlers
                 PROVE  RequestOK(g)'
        OBVIOUS
    <2>1. CASE g = h
        BY <1>2, <2>1 DEF RequestOK
    <2>2. CASE g # h
        BY <1>1, <1>2, <2>2 DEF RequestOK
    <2> QED
        BY <2>1, <2>2
<1>8. VoucherOK(v)' /\ Justified(v)
    <2>1. Blank(v)'
        BY <1>1 DEF VoucherOK, Blank
    <2>2. Once(v)'
        <3>1. SUFFICES ASSUME v \notin raced'
                       PROVE  /\ \A f, g \in Redeeming(v)' : f = g
                              /\ used_at[v] # NULL => is_used[v] /\ Redeeming(v)' = {}
                              /\ redemptions[v] = 0 \/ (redemptions[v] = 1 /\ used_at[v] # NULL)
                              /\ bought[v] # NULL => bought[v] = used_at[v]
            BY DEF Once
        <3>2. Redeeming(v) = {} /\ v \notin raced
            BY <3>1
        <3>3. Redeeming(v)' \subseteq {h}
            BY <1>2, <3>2 DEF Redeeming
        <3> QED
            BY <1>1, <1>2, <3>2, <3>3 DEF VoucherOK, Once
    <2>3. Ended(v)' /\ Justified(v)
        BY <1>1 DEF VoucherOK, Ended, Over, access_expiry_from, Justified, Has
    <2>4. Known(v)'
        BY <1>1 DEF VoucherOK, Known, Outlook, Outcome, Tracked, UsedRows, BoughtRows
    <2> QED
        BY <2>1, <2>2, <2>3, <2>4 DEF VoucherOK
<1> QED
    BY <1>3, <1>4, <1>5, <1>6, <1>7, <1>8, OneVoucher

\* hotspot_login finds the voucher.
LEMMA LoginLoadKeeps ==
    ASSUME VoucherAssumption, VoucherIndInv, NEW h \in Handlers, NEW v \in Vouchers,
           LoginLoad(h, v)
    PROVE  VoucherIndInv' /\ \A w \in Vouchers : Justified(w)
<1> USE DEF LoginLoad, rowVars, routerVars, auxVars
<1>1. VoucherTypes /\ TaskOK /\ (\A g \in Handlers : RequestOK(g))
    BY DEF VoucherIndInv
<1>2. /\ req'[h].pc \in {"expire", "login"} /\ req'[h].of = v /\ req'[h] \in RequestRec
      /\ status[v] # "none" /\ req[h].pc = "idle"
      /\ req'[h].pc = "login" => req'[h].status \in {"active", "used"}
      /\ \A g \in Handlers : g # h => req'[g] = req[g]
    <2>1. 0 \in Time /\ status[v] \in RowStatus /\ status[v] \notin {"none", "deleted"}
        BY <1>1 DEF VoucherTypes, Time, Exists, VoucherAssumption, VoucherConstants
    <2>2. req'[h] = [pc |-> IF status[v] = "expired" \/ PastDeadline(v)
                            THEN "expire" ELSE "login",
                     of |-> v, status |-> status[v], at |-> 0]
        BY <1>1 DEF VoucherTypes
    <2>3. req'[h].pc = "login" => status[v] # "expired"
        BY <2>2
    <2>4. req[h].pc = "idle" /\ \A g \in Handlers : g # h => req'[g] = req[g]
        BY <1>1 DEF VoucherTypes, Idle
    <2> QED
        BY <2>1, <2>2, <2>3, <2>4 DEF RequestRec, RowStatus
<1>3. VoucherTypes'
    <2>1. req' \in [Handlers -> RequestRec]
        BY <1>1, <1>2 DEF VoucherTypes
    <2> QED
        BY <1>1, <2>1 DEF VoucherTypes
<1>4. Grows
    BY <1>1 DEF Grows, VoucherTypes
<1>5. \A w \in Vouchers : Same(w)
    <2>1. \A w \in Vouchers : Redeeming(w)' \subseteq Redeeming(w)
        BY <1>2 DEF Redeeming
    <2> QED
        BY <2>1 DEF Same
<1>6. TaskOK'
    BY <1>1, <1>3, <1>4, TaskKept
<1>7. \A g \in Handlers : RequestOK(g)'
    <2> SUFFICES ASSUME NEW g \in Handlers
                 PROVE  RequestOK(g)'
        OBVIOUS
    <2>1. CASE g = h
        BY <1>2, <2>1 DEF RequestOK
    <2>2. CASE g # h
        BY <1>1, <1>2, <2>2 DEF RequestOK
    <2> QED
        BY <2>1, <2>2
<1> QED
    BY <1>3, <1>4, <1>5, <1>6, <1>7, NoVoucher

\* A request that ends leaves the others as they are.
LEMMA RequestEnds ==
    ASSUME VoucherTypes, NEW h \in Handlers, req' = [req EXCEPT ![h] = Idle],
           VoucherAssumption
    PROVE  /\ req' \in [Handlers -> RequestRec]
           /\ \A g \in Handlers : req'[g] = req[g] \/ req'[g] = Idle
           /\ req'[h] = Idle
<1>1. Idle \in RequestRec
    BY DEF Idle, RequestRec, RowStatus, Time, VoucherAssumption, VoucherConstants
<1> QED
    BY <1>1 DEF VoucherTypes

\* The portal marks a voucher past its deadline EXPIRED.
LEMMA ExpireByRequestKeeps ==
    ASSUME VoucherAssumption, VoucherIndInv, NEW h \in Handlers, ExpireByRequest(h)
    PROVE  VoucherIndInv' /\ \A w \in Vouchers : Justified(w)
<1> USE DEF ExpireByRequest, routerVars
<1>1. VoucherTypes /\ TaskOK /\ (\A g \in Handlers : RequestOK(g))
    BY DEF VoucherIndInv
<1>2. PICK v \in Vouchers : v = req[h].of /\ VoucherOK(v)
    BY <1>1 DEF RequestOK, VoucherIndInv
<1>3. /\ req' \in [Handlers -> RequestRec]
      /\ \A g \in Handlers : req'[g] = req[g] \/ req'[g] = Idle
    BY <1>1, RequestEnds
<1>4. \/ status' = status /\ untracked' = untracked
      \/ status' = [status EXCEPT ![v] = "expired"] /\ untracked' = untracked \cup {v}
    BY <1>2
<1>5. VoucherTypes'
    <2>1. status' \in [Vouchers -> RowStatus]
        BY <1>1, <1>2, <1>4 DEF VoucherTypes, RowStatus
    <2>2. untracked' \subseteq Vouchers
        BY <1>1, <1>2, <1>4 DEF VoucherTypes
    <2>3. UNCHANGED <<is_used, used_at, expires_at, bought, agent, account, queued, task, now,
                      redemptions, raced>>
        OBVIOUS
    <2> QED
        BY <1>1, <1>3, <2>1, <2>2, <2>3 DEF VoucherTypes
<1>6. Grows
    BY <1>1, <1>2, <1>4, SMTT(60) DEF Grows, VoucherTypes
<1>7. \A w \in Vouchers : Redeeming(w)' \subseteq Redeeming(w)
    BY <1>3, RedeemingShrinks
<1>8. TaskOK'
    <2>1. account' = account /\ untracked \subseteq untracked'
        BY <1>4
    <2> QED
        BY <1>1, <1>5, <1>6, <2>1, TaskKept
<1>9. \A g \in Handlers : RequestOK(g)'
    BY <1>1, <1>3, <1>6, RequestsKept
<1>10. CASE status' = status
    <2>1. \A w \in Vouchers : Same(w)
        BY <1>7, <1>10 DEF Same
    <2> QED
        BY <1>5, <1>6, <1>8, <1>9, <2>1, NoVoucher
<1>11. CASE status' = [status EXCEPT ![v] = "expired"] /\ untracked' = untracked \cup {v}
    <2>1. \A w \in Vouchers : w # v => Same(w)
        BY <1>1, <1>7, <1>11 DEF Same, VoucherTypes
    <2>2. status'[v] # "none" /\ v \in untracked' /\ Redeeming(v)' \subseteq Redeeming(v)
        BY <1>1, <1>2, <1>7, <1>11, SMTT(60) DEF VoucherTypes
    <2>3. Blank(v)' /\ Once(v)'
        BY <1>2, <2>2 DEF VoucherOK, Blank, Once
    <2>4. Ended(v)' /\ Justified(v)
        BY <1>2 DEF VoucherOK, Ended, Over, access_expiry_from, Justified, Has
    <2>5. Known(v)'
        BY <1>2, <2>2 DEF VoucherOK, Known
    <2> QED
        BY <1>2, <1>5, <1>6, <1>8, <1>9, <2>1, <2>3, <2>4, <2>5, OneVoucher DEF VoucherOK
<1> QED
    BY <1>4, <1>10, <1>11

\* redeem_voucher commits.
LEMMA RedeemCommitKeeps ==
    ASSUME VoucherAssumption, VoucherIndInv, NEW h \in Handlers, NEW reached \in BOOLEAN,
           RedeemCommit(h, reached)
    PROVE  VoucherIndInv' /\ \A w \in Vouchers : Justified(w)
<1>1. VoucherTypes /\ TaskOK /\ (\A g \in Handlers : RequestOK(g))
    BY DEF VoucherIndInv
<1>2. PICK v \in Vouchers : v = req[h].of /\ VoucherOK(v)
    BY <1>1 DEF RequestOK, VoucherIndInv, RedeemCommit
<1>3. /\ req' \in [Handlers -> RequestRec] /\ req'[h] = Idle
      /\ \A g \in Handlers : req'[g] = req[g] \/ req'[g] = Idle
    BY <1>1, RequestEnds DEF RedeemCommit
<1>4. \A w \in Vouchers : Redeeming(w)' \subseteq Redeeming(w)
    BY <1>3, RedeemingShrinks
<1>5. CASE ~ Exists(v)
    <2>1. /\ UNCHANGED <<status, is_used, used_at, account, queued, redemptions>>
          /\ UNCHANGED <<expires_at, bought, agent, task, now, raced, untracked>>
        BY <1>2, <1>5 DEF RedeemCommit, routerVars
    <2>2. VoucherTypes'
        BY <1>1, <1>3, <2>1 DEF VoucherTypes
    <2>3. Grows
        BY <1>1, <2>1 DEF Grows, VoucherTypes
    <2>4. \A w \in Vouchers : Same(w)
        BY <1>4, <2>1 DEF Same
    <2>5. TaskOK'
        BY <1>1, <2>1, <2>2, <2>3, TaskKept
    <2>6. \A g \in Handlers : RequestOK(g)'
        BY <1>1, <1>3, <2>3, RequestsKept
    <2> QED
        BY <2>2, <2>3, <2>4, <2>5, <2>6, NoVoucher
<1>6. CASE Exists(v)
    <2>1. /\ status' = [status EXCEPT ![v] = "used"]
          /\ is_used' = [is_used EXCEPT ![v] = TRUE]
          /\ used_at' = [used_at EXCEPT ![v] = req[h].at]
          /\ redemptions' = [redemptions EXCEPT ![v] = @ + 1]
          /\ SyncUser(v, reached) /\ v \notin ToSet(task.done)
          /\ UNCHANGED <<expires_at, bought, agent, task, now, raced, untracked>>
        BY <1>2, <1>6 DEF RowFree, RedeemCommit
    <2>2. req[h].at \in Time /\ req[h].at # NULL
        BY <1>1, Numbers DEF VoucherTypes, RequestRec
    <2>3. /\ account' \in [Vouchers -> {"absent", "enabled", "disabled"}]
          /\ queued' \in [Vouchers -> Seq({"create", "disable"})]
          /\ \A w \in Vouchers : w # v => account'[w] = account[w] /\ queued'[w] = queued[w]
          /\ agent \/ queued'[v] = << >>
          /\ Has(queued'[v]) => Has(queued[v])
          /\ account'[v] = "disabled" => account[v] = "disabled"
        BY <1>1, <1>2, <2>1, SyncFacts DEF VoucherOK, Known
    <2>4. h \in Redeeming(v)
        BY <1>2 DEF Redeeming, RedeemCommit
    <2>5. v \notin raced =>
              /\ used_at[v] = NULL /\ redemptions[v] = 0 /\ bought[v] = NULL
              /\ Redeeming(v) = {h} /\ ~ Has(queued[v])
        <3>1. v \notin raced => used_at[v] = NULL /\ redemptions[v] = 0 /\ bought[v] = NULL
            BY <1>2, <2>4 DEF VoucherOK, Once
        <3>2. v \notin raced => Redeeming(v) = {h}
            BY <1>2, <2>4 DEF VoucherOK, Once
        <3>3. v \notin raced => ~ Has(queued[v])
            BY <1>2, <3>1 DEF VoucherOK, Ended, Over, Has
        <3> QED
            BY <3>1, <3>2, <3>3
    <2>6. VoucherTypes'
        <3>1. status' \in [Vouchers -> RowStatus] /\ is_used' \in [Vouchers -> BOOLEAN]
            BY <1>1, <2>1 DEF VoucherTypes, RowStatus
        <3>2. used_at' \in [Vouchers -> Time \cup {NULL}]
            BY <1>1, <2>1, <2>2 DEF VoucherTypes
        <3>3. redemptions' \in [Vouchers -> Nat]
            BY <1>1, <2>1 DEF VoucherTypes
        <3> QED
            BY <1>1, <1>3, <2>1, <2>3, <3>1, <3>2, <3>3 DEF VoucherTypes
    <2>7. Grows
        BY <1>1, <2>1, <2>5, SMTT(60) DEF Grows, VoucherTypes
    <2>8. \A w \in Vouchers : w # v => Same(w)
        BY <1>1, <1>4, <2>1, <2>3 DEF Same, VoucherTypes
    <2>9. TaskOK'
        <3>1. \A w \in ToSet(task.done) : w \in Vouchers /\ account'[w] = account[w]
            BY <1>1, <2>1, <2>3, SMTT(60) DEF ToSet, VoucherTypes, TaskRec
        <3> QED
            BY <1>1, <2>1, <2>6, <2>7, <3>1, TaskKept
    <2>10. \A g \in Handlers : RequestOK(g)'
        BY <1>1, <1>3, <2>7, RequestsKept
    <2>11. /\ status'[v] = "used" /\ is_used'[v] = TRUE /\ used_at'[v] # NULL
           /\ redemptions'[v] = redemptions[v] + 1 /\ bought'[v] = bought[v]
        BY <1>1, <2>1, <2>2 DEF VoucherTypes
    <2>12. h \notin Redeeming(v)'
        BY <1>3 DEF Redeeming, Idle
    <2>13. Blank(v)'
        BY <2>11 DEF Blank
    <2>14. Once(v)'
        <3>1. v \notin raced => Redeeming(v)' = {}
            BY <1>4, <2>5, <2>12, SMTT(60)
        <3> QED
            BY <2>1, <2>5, <2>11, <3>1 DEF Once
    <2>15. Ended(v)' /\ Justified(v)
        BY <1>2, <2>1, <2>3, <2>5 DEF Ended, Has, Justified
    <2>16. Known(v)'
        BY <2>1, <2>3, <2>11 DEF Known, Tracked, UsedRows
    <2> QED
        BY <2>6, <2>7, <2>8, <2>9, <2>10, <2>13, <2>14, <2>15, <2>16, OneVoucher DEF VoucherOK
<1> QED
    BY <1>5, <1>6

\* hotspot_login syncs the account.
LEMMA LoginCommitKeeps ==
    ASSUME VoucherAssumption, VoucherIndInv, NEW h \in Handlers, NEW reached \in BOOLEAN,
           LoginCommit(h, reached)
    PROVE  VoucherIndInv' /\ \A w \in Vouchers : Justified(w)
<1> USE DEF LoginCommit, rowVars
<1>1. VoucherTypes /\ TaskOK /\ (\A g \in Handlers : RequestOK(g))
    BY DEF VoucherIndInv
<1>2. PICK v \in Vouchers : v = req[h].of /\ VoucherOK(v)
    BY <1>1 DEF RequestOK, VoucherIndInv
<1>3. /\ req' \in [Handlers -> RequestRec]
      /\ \A g \in Handlers : req'[g] = req[g] \/ req'[g] = Idle
    BY <1>1, RequestEnds
<1>4. \A w \in Vouchers : Redeeming(w)' \subseteq Redeeming(w)
    BY <1>3, RedeemingShrinks
<1>5. /\ SyncUser(v, reached)
      /\ untracked' = untracked \/ untracked' = untracked \cup {v}
      /\ v \in untracked' \/ (status[v] = "used" /\ v \notin ToSet(task.done))
      /\ UNCHANGED <<status, is_used, used_at, expires_at, bought, agent, task, now,
                     redemptions, raced>>
    <2>1. req[h].status \in {"active", "used"} /\ status[v] # "none"
        BY <1>1, <1>2 DEF RequestOK
    <2> QED
        BY <1>2, <2>1 DEF RowFree
<1>6. /\ account' \in [Vouchers -> {"absent", "enabled", "disabled"}]
      /\ queued' \in [Vouchers -> Seq({"create", "disable"})]
      /\ \A w \in Vouchers : w # v => account'[w] = account[w] /\ queued'[w] = queued[w]
      /\ agent \/ queued'[v] = << >>
      /\ Has(queued'[v]) => Has(queued[v])
      /\ account'[v] = "disabled" => account[v] = "disabled"
    BY <1>1, <1>2, <1>5, SyncFacts DEF VoucherOK, Known
<1>7. VoucherTypes'
    BY <1>1, <1>3, <1>5, <1>6 DEF VoucherTypes
<1>8. Grows
    BY <1>1, <1>5 DEF Grows, VoucherTypes
<1>9. \A w \in Vouchers : w # v => Same(w)
    BY <1>4, <1>5, <1>6 DEF Same
<1>10. TaskOK'
    <2>1. \A w \in ToSet(task.done) : w \in Vouchers /\ (w # v => account'[w] = account[w])
        BY <1>1, <1>6 DEF ToSet, VoucherTypes, TaskRec
    <2>2. \A w \in ToSet(task.done) :
               agent \/ account[w] # "enabled" \/ w \in untracked
                   => agent \/ account'[w] # "enabled" \/ w \in untracked'
        BY <1>5, <2>1
    <2> QED
        BY <1>1, <1>5, <1>7, <1>8, <2>2, TaskKept
<1>11. \A g \in Handlers : RequestOK(g)'
    BY <1>1, <1>3, <1>8, RequestsKept
<1>12. Blank(v)'
    BY <1>1, <1>2, <1>5, SMTT(60) DEF Blank, RequestOK
<1>13. Once(v)'
    BY <1>2, <1>4, <1>5 DEF VoucherOK, Once
<1>14. Ended(v)' /\ Justified(v)
    <2>1. Has(queued[v]) => v \in raced \/ Over(v, now)
        BY <1>2, SMTT(60) DEF VoucherOK, Ended, Has
    <2> QED
        BY <1>5, <1>6, <2>1 DEF Ended, Justified, Has, Over, access_expiry_from
<1>15. Known(v)'
    <2>1. status[v] = "used" => Tracked(v)' \/ v \in untracked'
        BY <1>2, <1>5 DEF VoucherOK, Known, Tracked, UsedRows
    <2> QED
        BY <1>2, <1>5, <1>6, <2>1 DEF VoucherOK, Known
<1> QED
    BY <1>7, <1>8, <1>9, <1>10, <1>11, <1>12, <1>13, <1>14, <1>15, OneVoucher DEF VoucherOK

\* A request dies, perhaps after its call to the router.
LEMMA RequestDiesKeeps ==
    ASSUME VoucherAssumption, VoucherIndInv, NEW h \in Handlers, NEW called \in BOOLEAN,
           RequestDies(h, called)
    PROVE  VoucherIndInv' /\ \A w \in Vouchers : Justified(w)
<1> USE DEF RequestDies, rowVars
<1>1. VoucherTypes /\ TaskOK /\ (\A g \in Handlers : RequestOK(g))
    BY DEF VoucherIndInv
<1>2. PICK v \in Vouchers : v = req[h].of /\ VoucherOK(v) /\ status[v] # "none"
    BY <1>1 DEF RequestOK, VoucherIndInv
<1>3. /\ req' \in [Handlers -> RequestRec]
      /\ \A g \in Handlers : req'[g] = req[g] \/ req'[g] = Idle
    BY <1>1, RequestEnds
<1>4. \A w \in Vouchers : Redeeming(w)' \subseteq Redeeming(w)
    BY <1>3, RedeemingShrinks
<1>5. /\ account' = [account EXCEPT ![v] = IF called THEN Effect("create", @) ELSE @]
      /\ untracked' = IF called THEN untracked \cup {v} ELSE untracked
      /\ UNCHANGED <<status, is_used, used_at, expires_at, bought, agent, queued, task, now,
                     redemptions, raced>>
    BY <1>2
<1>6. account[v] \in Accounts
    BY <1>1, <1>2 DEF VoucherTypes, Accounts
<1>7. Effect("create", account[v]) \in Accounts
      /\ (Effect("create", account[v]) = "disabled" => account[v] = "disabled")
    BY <1>6 DEF Effect, Accounts
<1>8. VoucherTypes'
    <2>1. account' \in [Vouchers -> {"absent", "enabled", "disabled"}]
        BY <1>1, <1>5, <1>7, ZenonT(60) DEF VoucherTypes, Accounts
    <2>2. untracked' \subseteq Vouchers
        BY <1>1, <1>5 DEF VoucherTypes
    <2> QED
        BY <1>1, <1>3, <1>5, <2>1, <2>2, SMTT(60) DEF VoucherTypes
<1>9. Grows
    BY <1>1, <1>5 DEF Grows, VoucherTypes
<1>10. /\ \A w \in Vouchers : w # v => account'[w] = account[w]
       /\ account'[v] = IF called THEN Effect("create", account[v]) ELSE account[v]
    BY <1>1, <1>5 DEF VoucherTypes
<1>11. \A w \in Vouchers : w # v => Same(w)
    BY <1>4, <1>5, <1>10 DEF Same
<1>12. TaskOK'
    <2>1. \A w \in ToSet(task.done) : w \in Vouchers
        BY <1>1 DEF ToSet, VoucherTypes, TaskRec
    <2>2. \A w \in ToSet(task.done) :
               agent \/ account[w] # "enabled" \/ w \in untracked
                   => agent \/ account'[w] # "enabled" \/ w \in untracked'
        BY <1>5, <1>10, <2>1
    <2> QED
        BY <1>1, <1>5, <1>8, <1>9, <2>2, TaskKept
<1>13. \A g \in Handlers : RequestOK(g)'
    BY <1>1, <1>3, <1>9, RequestsKept, SMTT(60)
<1>14. Blank(v)' /\ Once(v)'
    BY <1>2, <1>4, <1>5 DEF VoucherOK, Blank, Once
<1>15. Ended(v)' /\ Justified(v)
    <2>1. Has(queued[v]) => v \in raced \/ Over(v, now)
        BY <1>2 DEF VoucherOK, Ended, Has
    <2> QED
        BY <1>5, <1>7, <1>10, <2>1 DEF Ended, Justified, Has, Over, access_expiry_from
<1>16. Known(v)'
    <2>1. CASE called
        BY <1>2, <1>5, <2>1, SMTT(60) DEF VoucherOK, Known
    <2>2. CASE ~ called
        BY <1>2, <1>5, <1>10, <2>2 DEF VoucherOK, Known, Outlook, Outcome, Tracked, UsedRows,
                                       BoughtRows
    <2> QED
        BY <2>1, <2>2
<1> QED
    BY <1>8, <1>9, <1>11, <1>12, <1>13, <1>14, <1>15, <1>16, OneVoucher DEF VoucherOK

-----------------------------------------------------------------------------
(***************************************************************************)
(* The router.                                                             *)
(***************************************************************************)

\* The router executes the first of the queued commands.
LEMMA ExecutesKeeps ==
    ASSUME VoucherAssumption, VoucherIndInv, NEW v \in Vouchers, RouterExecutes(v)
    PROVE  VoucherIndInv' /\ \A w \in Vouchers : Justified(w)
<1>1. VoucherTypes /\ TaskOK /\ VoucherOK(v) /\ (\A g \in Handlers : RequestOK(g))
    BY DEF VoucherIndInv
<1>2. /\ queued[v] # << >>
      /\ account' = [account EXCEPT ![v] = Effect(Head(queued[v]), @)]
      /\ queued' = [queued EXCEPT ![v] = Tail(@)]
      /\ UNCHANGED <<status, is_used, used_at, expires_at, bought, agent, req, task, now,
                     redemptions, raced, untracked>>
    BY DEF RouterExecutes, rowVars, auxVars
<1>3. /\ account[v] \in Accounts /\ queued[v] \in Seq(Commands)
      /\ agent /\ status[v] # "none"
    BY <1>1, <1>2 DEF VoucherTypes, Accounts, Commands, VoucherOK, Known, Blank
<1>4. /\ Head(queued[v]) \in Commands /\ Tail(queued[v]) \in Seq(Commands)
      /\ Len(Tail(queued[v])) = Len(queued[v]) - 1
      /\ \A i \in 1 .. Len(Tail(queued[v])) : Tail(queued[v])[i] = queued[v][i + 1]
    BY <1>2, <1>3, HeadTailProperties
<1>5. Effect(Head(queued[v]), account[v]) \in Accounts
    BY <1>3, <1>4, EffectType
<1>6. VoucherTypes'
    <2>1. account' \in [Vouchers -> {"absent", "enabled", "disabled"}]
        BY <1>1, <1>2, <1>5 DEF VoucherTypes, Accounts
    <2>2. queued' \in [Vouchers -> Seq({"create", "disable"})]
        BY <1>1, <1>2, <1>4 DEF VoucherTypes, Commands
    <2> QED
        BY <1>1, <1>2, <2>1, <2>2 DEF VoucherTypes
<1>7. Grows
    BY <1>1, <1>2 DEF Grows, VoucherTypes
<1>8. /\ \A w \in Vouchers : w # v => account'[w] = account[w] /\ queued'[w] = queued[w]
      /\ account'[v] = Effect(Head(queued[v]), account[v]) /\ queued'[v] = Tail(queued[v])
    BY <1>1, <1>2 DEF VoucherTypes
<1>9. \A w \in Vouchers : w # v => Same(w)
    BY <1>2, <1>8 DEF Same, Redeeming
<1>10. TaskOK'
    BY <1>1, <1>2, <1>3, <1>6, <1>7, TaskKept
<1>11. \A g \in Handlers : RequestOK(g)'
    BY <1>1, <1>2, <1>7, RequestsKept
<1>12. Blank(v)' /\ Once(v)'
    BY <1>1, <1>2, <1>3 DEF VoucherOK, Blank, Once, Redeeming
<1>13. Has(queued'[v]) => Has(queued[v])
    <2> SUFFICES ASSUME NEW i \in DOMAIN Tail(queued[v]), Tail(queued[v])[i] = "disable"
                 PROVE  Has(queued[v])
        BY <1>8 DEF Has
    <2>1. i \in 1 .. Len(Tail(queued[v])) /\ DOMAIN queued[v] = 1 .. Len(queued[v])
          /\ Len(queued[v]) \in Nat
        BY <1>3, <1>4, LenProperties
    <2>2. i + 1 \in DOMAIN queued[v] /\ queued[v][i + 1] = "disable"
        BY <1>4, <2>1, SMTT(60)
    <2> QED
        BY <2>2 DEF Has
<1>14. account'[v] = "disabled" => account[v] = "disabled" \/ Has(queued[v])
    <2>1. Head(queued[v]) = "disable" => Has(queued[v])
        <3>1. 1 \in DOMAIN queued[v] /\ Head(queued[v]) = queued[v][1]
            BY <1>2, <1>3, SMTT(60)
        <3> QED
            BY <3>1 DEF Has
    <2> QED
        BY <1>3, <1>4, <1>8, <2>1 DEF Effect, Accounts, Commands
<1>15. Ended(v)' /\ Justified(v)
    <2>1. Has(queued[v]) => v \in raced \/ Over(v, now)
        BY <1>1 DEF VoucherOK, Ended, Has
    <2> QED
        BY <1>2, <1>13, <1>14, <2>1 DEF Ended, Justified, Has, Over, access_expiry_from
<1>16. Known(v)'
    <2>1. Outcome(account'[v], queued'[v]) = Outcome(account[v], queued[v])
        BY <1>2, <1>3, <1>8, FirstCommand
    <2>2. Outlook(v)' = Outcome(account'[v], queued'[v])
        BY DEF Outlook, Outcome
    <2>3. Outlook(v)' = Outlook(v)
        BY <2>1, <2>2 DEF Outlook
    <2> QED
        BY <1>1, <1>2, <1>3, <2>3 DEF VoucherOK, Known, Tracked, UsedRows, BoughtRows
<1> QED
    BY <1>6, <1>7, <1>9, <1>10, <1>11, <1>12, <1>15, <1>16, OneVoucher DEF VoucherOK

\* Losing the first command, or swapping the first two, adds no disable.
LEMMA FailureAddsNothing ==
    ASSUME NEW q \in Seq(Commands), q # << >>
    PROVE  /\ Tail(q) \in Seq(Commands)
           /\ Has(Tail(q)) => Has(q)
           /\ Len(q) > 1 => LET t == <<q[2], q[1]>> \o SubSeq(q, 3, Len(q)) IN
                            t \in Seq(Commands) /\ (Has(t) => Has(q))
<1>1. Len(q) \in Nat /\ DOMAIN q = 1 .. Len(q) /\ q \in [1 .. Len(q) -> Commands]
    BY LenProperties
<1>2. Tail(q) \in Seq(Commands) /\ (Has(Tail(q)) => Has(q))
    <2>1. /\ Tail(q) \in Seq(Commands) /\ Len(Tail(q)) = Len(q) - 1
          /\ \A i \in 1 .. Len(Tail(q)) : Tail(q)[i] = q[i + 1]
        BY HeadTailProperties
    <2>2. \A i \in DOMAIN Tail(q) : i + 1 \in DOMAIN q /\ Tail(q)[i] = q[i + 1]
        BY <1>1, <2>1, SMTT(60)
    <2> QED
        BY <2>1, <2>2 DEF Has
<1>3. ASSUME Len(q) > 1
      PROVE  LET t == <<q[2], q[1]>> \o SubSeq(q, 3, Len(q)) IN
             t \in Seq(Commands) /\ (Has(t) => Has(q))
    <2> DEFINE p == <<q[2], q[1]>>
               r == SubSeq(q, 3, Len(q))
    <2>1. /\ q[1] \in Commands /\ q[2] \in Commands /\ 1 \in DOMAIN q /\ 2 \in DOMAIN q
          /\ \A i \in 3 .. Len(q) : q[i] \in Commands
        BY <1>1, <1>3, SMTT(60)
    <2>2. p \in Seq(Commands) /\ Len(p) = 2 /\ p[1] = q[2] /\ p[2] = q[1]
        BY <2>1
    <2>3. /\ r \in Seq(Commands) /\ Len(r) = IF 3 <= Len(q) THEN Len(q) - 3 + 1 ELSE 0
          /\ \A i \in 1 .. Len(q) - 3 + 1 : r[i] = q[3 + i - 1]
        <3>1. 3 \in Int /\ Len(q) \in Int
            BY <1>1
        <3>2. /\ r \in Seq(Commands)
              /\ Len(r) = IF 3 <= Len(q) THEN Len(q) - 3 + 1 ELSE 0
            BY <2>1, <3>1, SubSeqProperties, SMTT(60)
        <3>3. \A i \in 1 .. Len(q) - 3 + 1 : r[i] = q[3 + i - 1]
            BY <2>1, <3>1, SubSeqProperties, SMTT(60)
        <3> QED
            BY <3>2, <3>3
    <2> HIDE DEF p, r
    <2>4. /\ p \o r \in Seq(Commands) /\ Len(p \o r) = 2 + Len(r)
          /\ \A i \in 1 .. 2 + Len(r) : (p \o r)[i] = IF i <= 2 THEN p[i] ELSE r[i - 2]
        <3>1. /\ p \o r \in Seq(Commands) /\ Len(p \o r) = Len(p) + Len(r)
              /\ \A i \in 1 .. Len(p) + Len(r) :
                    (p \o r)[i] = IF i <= Len(p) THEN p[i] ELSE r[i - Len(p)]
            BY <2>2, <2>3, ConcatProperties, ZenonT(60)
        <3> QED
            BY <2>2, <3>1
    <2>5. \A i \in DOMAIN (p \o r) : \E j \in DOMAIN q : (p \o r)[i] = q[j]
        <3> SUFFICES ASSUME NEW i \in DOMAIN (p \o r)
                     PROVE  \E j \in DOMAIN q : (p \o r)[i] = q[j]
            OBVIOUS
        <3>1. i \in 1 .. 2 + Len(r) /\ Len(r) \in Nat
            BY <2>3, <2>4, LenProperties
        <3>2. CASE i = 1
            BY <2>1, <2>2, <2>4, <3>1, <3>2
        <3>3. CASE i = 2
            BY <2>1, <2>2, <2>4, <3>1, <3>3
        <3>4. CASE i > 2
            <4>1. (p \o r)[i] = r[i - 2]
                BY <2>4, <3>1, <3>4, SMTT(60)
            <4>2. Len(r) = IF 3 <= Len(q) THEN Len(q) - 3 + 1 ELSE 0
                BY <2>3, SMTT(60)
            <4>3. i - 2 \in 1 .. Len(q) - 3 + 1 /\ i \in 1 .. Len(q)
                <5>1. ASSUME NEW n \in Nat, NEW k \in Nat, NEW x \in 1 .. 2 + k, x > 2,
                             k = IF 3 <= n THEN n - 3 + 1 ELSE 0
                      PROVE  x - 2 \in 1 .. n - 3 + 1 /\ x \in 1 .. n
                    BY <5>1, SMTT(60)
                <5> QED
                    BY <1>1, <3>1, <3>4, <4>2, <5>1
            <4>4. r[i - 2] = q[3 + (i - 2) - 1] /\ 3 + (i - 2) - 1 = i
                BY <2>3, <4>3, <3>1, SMTT(60)
            <4> QED
                BY <1>1, <4>1, <4>3, <4>4
        <3> QED
            BY <3>1, <3>2, <3>3, <3>4, SMTT(60)
    <2>6. Has(p \o r) => Has(q)
        BY <2>5 DEF Has
    <2> QED
        BY <2>4, <2>6 DEF p, r
<1> QED
    BY <1>2, <1>3

\* A command is lost, or comes after the one that was behind it.
LEMMA FailsKeeps ==
    ASSUME VoucherAssumption, VoucherIndInv, NEW v \in Vouchers, RouterFails(v)
    PROVE  VoucherIndInv' /\ \A w \in Vouchers : Justified(w)
<1>1. VoucherTypes /\ TaskOK /\ VoucherOK(v) /\ (\A g \in Handlers : RequestOK(g))
    BY DEF VoucherIndInv
<1>2. /\ queued[v] # << >> /\ untracked' = untracked \cup {v}
      /\ UNCHANGED <<status, is_used, used_at, expires_at, bought, agent, account, req, task,
                     now, redemptions, raced>>
    BY DEF RouterFails, rowVars
<1>3. /\ queued[v] \in Seq(Commands) /\ agent /\ status[v] # "none"
    BY <1>1, <1>2 DEF VoucherTypes, Commands, VoucherOK, Known, Blank
<1>4. PICK t \in Seq(Commands) : queued' = [queued EXCEPT ![v] = t] /\ (Has(t) => Has(queued[v]))
    <2>1. CASE queued' = [queued EXCEPT ![v] = Tail(@)]
        <3>1. Tail(queued[v]) \in Seq(Commands) /\ (Has(Tail(queued[v])) => Has(queued[v]))
            BY <1>2, <1>3, FailureAddsNothing
        <3> QED
            BY <2>1, <3>1
    <2>2. CASE /\ Len(queued[v]) > 1
               /\ queued' = [queued EXCEPT ![v] = <<@[2], @[1]>> \o SubSeq(@, 3, Len(@))]
        <3> DEFINE t == <<queued[v][2], queued[v][1]>>
                          \o SubSeq(queued[v], 3, Len(queued[v]))
        <3>1. t \in Seq(Commands) /\ (Has(t) => Has(queued[v]))
            BY <1>2, <1>3, <2>2, FailureAddsNothing
        <3>2. queued' = [queued EXCEPT ![v] = t]
            BY <2>2
        <3> HIDE DEF t
        <3> QED
            BY <3>1, <3>2
    <2> QED
        BY <2>1, <2>2 DEF RouterFails
<1>5. VoucherTypes'
    <2>1. queued' \in [Vouchers -> Seq({"create", "disable"})]
        BY <1>1, <1>4 DEF VoucherTypes, Commands
    <2> QED
        BY <1>1, <1>2, <2>1 DEF VoucherTypes
<1>6. Grows
    BY <1>1, <1>2 DEF Grows, VoucherTypes
<1>7. (\A w \in Vouchers : w # v => queued'[w] = queued[w]) /\ queued'[v] = t
    BY <1>1, <1>4 DEF VoucherTypes
<1>8. \A w \in Vouchers : w # v => Same(w)
    BY <1>2, <1>7 DEF Same, Redeeming
<1>9. TaskOK'
    BY <1>1, <1>2, <1>5, <1>6, TaskKept
<1>10. \A g \in Handlers : RequestOK(g)'
    BY <1>1, <1>2, <1>6, RequestsKept
<1>11. Blank(v)' /\ Once(v)'
    BY <1>1, <1>2, <1>3 DEF VoucherOK, Blank, Once, Redeeming
<1>12. Ended(v)' /\ Justified(v)
    <2>1. Has(queued[v]) => v \in raced \/ Over(v, now)
        BY <1>1 DEF VoucherOK, Ended, Has
    <2> QED
        BY <1>2, <1>4, <1>7, <2>1 DEF Ended, Justified, Has, Over, access_expiry_from
<1>13. Known(v)'
    BY <1>2, <1>3 DEF Known
<1> QED
    BY <1>5, <1>6, <1>8, <1>9, <1>10, <1>11, <1>12, <1>13, OneVoucher DEF VoucherOK

-----------------------------------------------------------------------------
(***************************************************************************)
(* The expiry reconciler.                                                  *)
(***************************************************************************)

\* The reconciler loads its candidates.
LEMMA SelectKeeps ==
    ASSUME VoucherAssumption, VoucherIndInv, ReconcileSelect
    PROVE  VoucherIndInv' /\ \A w \in Vouchers : Justified(w)
<1>1. VoucherTypes /\ (\A w \in Vouchers : VoucherOK(w)) /\ (\A g \in Handlers : RequestOK(g))
    BY DEF VoucherIndInv
<1>2. UNCHANGED <<status, is_used, used_at, expires_at, bought, agent, account, queued, req,
                  now, redemptions, raced, untracked>>
    BY DEF ReconcileSelect, rowVars, routerVars, auxVars
<1>3. PICK s \in BoundedSeq(UsedRows, BatchSize), b \in SUBSET BoughtRows :
          LET all == s \o SetToSeq(b) IN
          task' = [pc |-> "loop", at |-> now, done |-> << >>,
                   todo |-> [i \in DOMAIN all |-> <<all[i], Activated(all[i])>>]]
    BY DEF ReconcileSelect
<1> DEFINE Found == UsedRows \cup BoughtRows
           all   == s \o SetToSeq(b)
<1>4. all \in Seq(Found)
    <2>1. s \in Seq(Found)
        <3>1. PICK m \in 0 .. BatchSize : s \in [1 .. m -> UsedRows]
            BY DEF BoundedSeq, SeqOf
        <3>2. m \in Nat
            BY <3>1 DEF VoucherAssumption, VoucherConstants
        <3>3. s \in Seq(UsedRows)
            BY <3>1, <3>2, SMT
        <3> QED
            BY <3>3, SeqMonotonic
    <2>2. IsFiniteSet(b)
        <3>1. b \subseteq Vouchers
            BY DEF BoughtRows
        <3> QED
            BY <3>1, FS_Subset DEF VoucherAssumption, VoucherConstants
    <2>3. SetToSeq(b) \in Seq(Found)
        BY <2>2, SetToSeqType, SeqMonotonic
    <2> QED
        BY <2>1, <2>3, ConcatProperties
<1> HIDE DEF all
<1>5. \A w \in Found : /\ w \in Vouchers /\ Activated(w) \in Time /\ status[w] # "none"
                       /\ w \notin raced => used_at[w] # NULL /\ used_at[w] = Activated(w)
    <2> SUFFICES ASSUME NEW w \in Found
                 PROVE  /\ w \in Vouchers /\ Activated(w) \in Time /\ status[w] # "none"
                        /\ w \notin raced => used_at[w] # NULL /\ used_at[w] = Activated(w)
        OBVIOUS
    <2>1. CASE w \in UsedRows
        BY <1>1, <2>1 DEF UsedRows, Activated, VoucherTypes
    <2>2. CASE w \in BoughtRows
        <3>1. /\ w \in Vouchers /\ status[w] = "active" /\ bought[w] # NULL
              /\ bought[w] \in Time \cup {NULL} /\ Once(w)
            BY <1>1, <2>2 DEF BoughtRows, VoucherTypes, VoucherOK
        <3> QED
            BY <3>1 DEF Activated, Once
    <2> QED
        BY <2>1, <2>2
<1> DEFINE todo == [i \in DOMAIN all |-> <<all[i], Activated(all[i])>>]
<1>6. /\ \A i \in DOMAIN all : all[i] \in Found
      /\ DOMAIN todo = DOMAIN all
      /\ \A i \in DOMAIN todo : todo[i] = <<all[i], Activated(all[i])>>
    BY <1>4
<1> HIDE DEF todo, Found
<1>7. todo \in Seq(Vouchers \X Time)
    <2>1. Len(all) \in Nat /\ DOMAIN all = 1 .. Len(all)
        BY <1>4, LenProperties
    <2>2. ASSUME NEW i \in DOMAIN all
          PROVE  <<all[i], Activated(all[i])>> \in Vouchers \X Time
        BY <1>5, <1>6
    <2>3. todo \in [1 .. Len(all) -> Vouchers \X Time]
        BY <2>1, <2>2 DEF todo
    <2> QED
        BY <2>1, <2>3, SMT
<1>8. task' = [pc |-> "loop", at |-> now, done |-> << >>, todo |-> todo]
    BY <1>3 DEF all, todo
<1>9. VoucherTypes'
    <2>1. now \in Time
        BY <1>1, Numbers DEF VoucherTypes
    <2>2. task' \in TaskRec
        BY <1>7, <1>8, <2>1 DEF TaskRec
    <2> QED
        BY <1>1, <1>2, <2>2 DEF VoucherTypes
<1>10. Grows
    BY <1>1, <1>2 DEF Grows, VoucherTypes
<1>11. TaskOK'
    <2>1. task'.pc = "loop" /\ task'.at = now /\ task'.todo = todo /\ task'.done = << >>
        BY <1>8
    <2>2. \A i \in DOMAIN todo :
              /\ status[todo[i][1]] # "none"
              /\ todo[i][1] \notin raced =>
                     used_at[todo[i][1]] # NULL /\ used_at[todo[i][1]] = todo[i][2]
        <3> SUFFICES ASSUME NEW i \in DOMAIN todo
                     PROVE  /\ status[todo[i][1]] # "none"
                            /\ todo[i][1] \notin raced =>
                                   /\ used_at[todo[i][1]] # NULL
                                   /\ used_at[todo[i][1]] = todo[i][2]
            OBVIOUS
        <3>1. all[i] \in Found /\ todo[i] = <<all[i], Activated(all[i])>>
            BY <1>6
        <3>2. todo[i][1] = all[i] /\ todo[i][2] = Activated(all[i])
            BY <3>1
        <3> QED
            BY <1>5, <3>1, <3>2
    <2>3. now <= now'
        BY <1>1, <1>2, SMTT(60) DEF VoucherTypes
    <2>4. ToSet(<< >>) = {}
        BY DEF ToSet
    <2> QED
        BY <1>2, <2>1, <2>2, <2>3, <2>4 DEF TaskOK
<1>12. \A g \in Handlers : RequestOK(g)'
    BY <1>1, <1>2, <1>10, RequestsKept
<1>13. \A w \in Vouchers : Same(w)
    BY <1>2 DEF Same, Redeeming
<1> QED
    BY <1>9, <1>10, <1>11, <1>12, <1>13, NoVoucher

\* What the reconciler loads next, and what is left after it.
LEMMA NextCandidate ==
    ASSUME VoucherAssumption, VoucherTypes, TaskOK, task.todo # << >>
    PROVE  /\ Head(task.todo) \in Vouchers \X Time /\ Tail(task.todo) \in Seq(Vouchers \X Time)
           /\ status[Head(task.todo)[1]] # "none"
           /\ Head(task.todo)[1] \in raced
              \/ (used_at[Head(task.todo)[1]] # NULL
                  /\ used_at[Head(task.todo)[1]] = Head(task.todo)[2])
           /\ \A i \in DOMAIN Tail(task.todo) :
                 \E j \in DOMAIN task.todo : Tail(task.todo)[i] = task.todo[j]
<1>1. task.todo \in Seq(Vouchers \X Time)
    BY DEF VoucherTypes, TaskRec
<1>2. /\ Head(task.todo) \in Vouchers \X Time /\ Tail(task.todo) \in Seq(Vouchers \X Time)
      /\ Len(Tail(task.todo)) = Len(task.todo) - 1
      /\ \A i \in 1 .. Len(Tail(task.todo)) : Tail(task.todo)[i] = task.todo[i + 1]
    BY <1>1, HeadTailProperties
<1>3. 1 \in DOMAIN task.todo /\ Head(task.todo) = task.todo[1]
    BY <1>1, SMTT(60)
<1>4. \A i \in DOMAIN Tail(task.todo) : i + 1 \in DOMAIN task.todo
                                        /\ Tail(task.todo)[i] = task.todo[i + 1]
    <2>1. /\ DOMAIN task.todo = 1 .. Len(task.todo) /\ Len(task.todo) \in Nat
          /\ DOMAIN Tail(task.todo) = 1 .. Len(Tail(task.todo))
        BY <1>1, <1>2, LenProperties
    <2> QED
        BY <1>2, <2>1, SMTT(60)
<1>5. /\ status[task.todo[1][1]] # "none"
      /\ task.todo[1][1] \in raced
         \/ (used_at[task.todo[1][1]] # NULL /\ used_at[task.todo[1][1]] = task.todo[1][2])
    BY <1>3 DEF TaskOK
<1> QED
    BY <1>2, <1>3, <1>4, <1>5

\* A candidate that is not due is passed over.
LEMMA SkipKeeps ==
    ASSUME VoucherAssumption, VoucherIndInv, ReconcileSkip
    PROVE  VoucherIndInv' /\ \A w \in Vouchers : Justified(w)
<1>1. VoucherTypes /\ TaskOK /\ (\A g \in Handlers : RequestOK(g))
    BY DEF VoucherIndInv
<1>2. /\ task.pc = "loop" /\ task.todo # << >> /\ task' = [task EXCEPT !.todo = Tail(@)]
      /\ UNCHANGED <<status, is_used, used_at, expires_at, bought, agent, account, queued,
                     req, now, redemptions, raced, untracked>>
    BY DEF ReconcileSkip, rowVars, routerVars, auxVars
<1>3. /\ Tail(task.todo) \in Seq(Vouchers \X Time)
      /\ \A i \in DOMAIN Tail(task.todo) :
            \E j \in DOMAIN task.todo : Tail(task.todo)[i] = task.todo[j]
    BY <1>1, <1>2, NextCandidate
<1>4. /\ task' \in TaskRec /\ task'.pc = "loop" /\ task'.at = task.at
      /\ task'.todo = Tail(task.todo) /\ task'.done = task.done
    BY <1>1, <1>2, <1>3 DEF VoucherTypes, TaskRec
<1>5. VoucherTypes'
    BY <1>1, <1>2, <1>4 DEF VoucherTypes
<1>6. Grows
    BY <1>1, <1>2 DEF Grows, VoucherTypes
<1>7. TaskOK'
    <2>1. \A i \in DOMAIN Tail(task.todo) :
              /\ status[Tail(task.todo)[i][1]] # "none"
              /\ Tail(task.todo)[i][1] \notin raced =>
                     used_at[Tail(task.todo)[i][1]] # NULL
                     /\ used_at[Tail(task.todo)[i][1]] = Tail(task.todo)[i][2]
        BY <1>1, <1>3 DEF TaskOK
    <2>2. \A w \in ToSet(task.done) :
              /\ status[w] # "none" /\ (w \in raced \/ Over(w, task.at))
              /\ agent \/ account[w] # "enabled" \/ w \in untracked
        BY <1>1 DEF TaskOK
    <2>3. task.at <= now
        BY <1>1 DEF TaskOK
    <2> QED
        BY <1>2, <1>4, <2>1, <2>2, <2>3 DEF TaskOK, Over, access_expiry_from
<1>8. \A g \in Handlers : RequestOK(g)'
    BY <1>1, <1>2, <1>6, RequestsKept
<1>9. \A w \in Vouchers : Same(w)
    BY <1>2 DEF Same, Redeeming
<1> QED
    BY <1>5, <1>6, <1>7, <1>8, <1>9, NoVoucher

\* A candidate that is due is disabled, on the direct path, and put behind.
LEMMA ExpireKeeps ==
    ASSUME VoucherAssumption, VoucherIndInv, NEW reached \in BOOLEAN, ReconcileExpire(reached)
    PROVE  VoucherIndInv' /\ \A w \in Vouchers : Justified(w)
<1>1. VoucherTypes /\ TaskOK /\ (\A g \in Handlers : RequestOK(g))
    BY DEF VoucherIndInv
<1>2. task.pc = "loop" /\ task.todo # << >> /\ Due(Head(task.todo))
    BY DEF ReconcileExpire
<1>3. /\ Head(task.todo) \in Vouchers \X Time /\ Tail(task.todo) \in Seq(Vouchers \X Time)
      /\ status[Head(task.todo)[1]] # "none"
      /\ Head(task.todo)[1] \in raced
         \/ (used_at[Head(task.todo)[1]] # NULL
             /\ used_at[Head(task.todo)[1]] = Head(task.todo)[2])
      /\ \A i \in DOMAIN Tail(task.todo) :
            \E j \in DOMAIN task.todo : Tail(task.todo)[i] = task.todo[j]
    BY <1>1, <1>2, NextCandidate
<1>4. PICK v \in Vouchers : v = Head(task.todo)[1]
    BY <1>3
<1>5. /\ _expire_hotspot_user_on_router(v, reached)
      /\ task' = [task EXCEPT !.todo = Tail(@), !.done = Append(@, v)]
      /\ UNCHANGED <<status, is_used, used_at, expires_at, bought, agent, queued, req, now,
                     redemptions, raced>>
    BY <1>4 DEF ReconcileExpire, rowVars
<1>6. v \in raced \/ Over(v, task.at)
    <2>1. v \notin raced => used_at[v] # NULL /\ used_at[v] = Head(task.todo)[2]
        BY <1>3, <1>4
    <2> QED
        BY <1>2, <1>4, <2>1 DEF Over, Due
<1>7. v \in raced \/ Over(v, now)
    <2>1. task.at \in Nat /\ now \in Nat /\ task.at <= now
        BY <1>1, Numbers DEF VoucherTypes, TaskRec, TaskOK
    <2>2. used_at[v] \in Time \cup {NULL}
        BY <1>1 DEF VoucherTypes
    <2>3. access_expiry_from(v, used_at[v]) + Grace \in Nat
        BY <2>2, Numbers
    <2> QED
        BY <1>6, <2>1, <2>3, SMTT(60) DEF Over
<1>8. VoucherOK(v) /\ account[v] \in Accounts
    BY <1>1 DEF VoucherIndInv, VoucherTypes, Accounts
<1>9. /\ account' \in [Vouchers -> {"absent", "enabled", "disabled"}]
      /\ \A w \in Vouchers : w # v => account'[w] = account[w]
      /\ agent => account' = account /\ untracked' = untracked
      /\ ~ agent => account'[v] # "enabled" \/ v \in untracked'
      /\ untracked' = untracked \/ untracked' = untracked \cup {v}
    <2>1. CASE agent
        BY <1>1, <1>5, <2>1 DEF _expire_hotspot_user_on_router, VoucherTypes
    <2>2. CASE ~ agent
        <3>1. /\ account' = [account EXCEPT ![v] = IF reached THEN Effect("disable", @) ELSE @]
              /\ untracked' = IF reached THEN untracked ELSE untracked \cup {v}
            BY <1>5, <2>2 DEF _expire_hotspot_user_on_router
        <3>2. Effect("disable", account[v]) \in {"absent", "disabled"}
            BY <1>8 DEF Effect, Accounts
        <3> QED
            BY <1>1, <2>2, <3>1, <3>2 DEF VoucherTypes
    <2> QED
        BY <2>1, <2>2
<1>10. task.done \in Seq(Vouchers)
    BY <1>1 DEF VoucherTypes, TaskRec
<1>11. Append(task.done, v) \in Seq(Vouchers)
       /\ ToSet(Append(task.done, v)) = ToSet(task.done) \cup {v}
    BY <1>10, AppendSet
<1>12. /\ task' \in TaskRec /\ task'.pc = "loop" /\ task'.at = task.at
       /\ task'.todo = Tail(task.todo) /\ task'.done = Append(task.done, v)
    BY <1>1, <1>2, <1>3, <1>5, <1>11 DEF VoucherTypes, TaskRec
<1>13. VoucherTypes'
    BY <1>1, <1>5, <1>9, <1>12 DEF VoucherTypes
<1>14. Grows
    BY <1>1, <1>5, <1>9, SMTT(60) DEF Grows, VoucherTypes
<1>15. TaskOK'
    <2>1. \A i \in DOMAIN Tail(task.todo) :
              /\ status[Tail(task.todo)[i][1]] # "none"
              /\ Tail(task.todo)[i][1] \notin raced =>
                     used_at[Tail(task.todo)[i][1]] # NULL
                     /\ used_at[Tail(task.todo)[i][1]] = Tail(task.todo)[i][2]
        BY <1>1, <1>3, SMTT(60) DEF TaskOK
    <2>2. \A w \in ToSet(task.done) :
              /\ w \in Vouchers /\ status[w] # "none" /\ (w \in raced \/ Over(w, task.at))
              /\ agent \/ account[w] # "enabled" \/ w \in untracked
        BY <1>1, <1>10 DEF TaskOK, ToSet
    <2>3. \A w \in ToSet(task.done) \cup {v} :
              /\ status[w] # "none" /\ (w \in raced \/ Over(w, task.at))
              /\ agent \/ account'[w] # "enabled" \/ w \in untracked'
        BY <1>3, <1>4, <1>6, <1>9, <2>2
    <2>4. task.at <= now
        BY <1>1 DEF TaskOK
    <2> QED
        BY <1>5, <1>11, <1>12, <2>1, <2>3, <2>4, SMTT(60) DEF TaskOK, Over, access_expiry_from
<1>16. \A g \in Handlers : RequestOK(g)'
    BY <1>1, <1>5, <1>14, RequestsKept
<1>17. \A w \in Vouchers : w # v => Same(w)
    BY <1>5, <1>9, SMTT(60) DEF Same, Redeeming
<1>18. Blank(v)' /\ Once(v)'
    BY <1>3, <1>4, <1>5, <1>8 DEF VoucherOK, Blank, Once, Redeeming
<1>19. Ended(v)' /\ Justified(v)
    BY <1>5, <1>7 DEF Ended, Justified, Over, access_expiry_from
<1>20. Known(v)'
    <2>1. agent \/ queued[v] = << >>
        BY <1>8 DEF VoucherOK, Known
    <2>2. CASE agent
        BY <1>5, <1>8, <1>9, <2>2 DEF VoucherOK, Known, Outlook, Outcome, Tracked, UsedRows,
                                      BoughtRows
    <2>3. CASE ~ agent
        <3>1. account'[v] \in Accounts /\ queued'[v] = << >>
            BY <1>5, <1>9, <2>1, <2>3 DEF Accounts
        <3>2. Outcome(account'[v], queued'[v]) = account'[v]
            BY <3>1, NothingQueued
        <3>3. Outlook(v)' = account'[v]
            BY <3>2 DEF Outlook, Outcome
        <3>4. untracked \subseteq untracked'
            BY <1>9
        <3> QED
            BY <1>5, <1>8, <1>9, <2>3, <3>1, <3>3, <3>4 DEF VoucherOK, Known
    <2> QED
        BY <2>2, <2>3
<1> QED
    BY <1>13, <1>14, <1>15, <1>16, <1>17, <1>18, <1>19, <1>20, OneVoucher DEF VoucherOK

\* With its run ended, nothing is in the reconciler's hands.
LEMMA TaskEnds ==
    ASSUME VoucherAssumption, VoucherTypes, task' = NoTask, now' = now
    PROVE  task' \in TaskRec /\ TaskOK'
<1>1. NoTask \in TaskRec
    BY DEF NoTask, TaskRec, Time, VoucherAssumption, VoucherConstants
<1>2. 0 <= now'
    BY SMTT(60) DEF VoucherTypes
<1>3. ToSet(<< >>) = {}
    BY DEF ToSet
<1>4. /\ task'.pc = "idle" /\ task'.todo = << >> /\ task'.done = << >> /\ task'.at = 0
      /\ DOMAIN << >> = {}
    BY DEF NoTask
<1> QED
    BY <1>1, <1>2, <1>3, <1>4 DEF TaskOK

\* The reconciler commits, or its flush fails.
LEMMA CommitKeeps ==
    ASSUME VoucherAssumption, VoucherIndInv, ReconcileCommit
    PROVE  VoucherIndInv' /\ \A w \in Vouchers : Justified(w)
<1>1. VoucherTypes /\ TaskOK /\ (\A g \in Handlers : RequestOK(g))
      /\ (\A w \in Vouchers : VoucherOK(w))
    BY DEF VoucherIndInv
<1>2. /\ task' = NoTask
      /\ UNCHANGED <<is_used, used_at, expires_at, bought, agent, account, req, now,
                     redemptions, raced, untracked>>
    BY DEF ReconcileCommit, auxVars
<1>3. task' \in TaskRec /\ TaskOK'
    BY <1>1, <1>2, TaskEnds
<1>4. CASE UNCHANGED <<status, queued>>
    <2>1. VoucherTypes'
        BY <1>1, <1>2, <1>3, <1>4 DEF VoucherTypes
    <2>2. Grows
        BY <1>1, <1>2, <1>4 DEF Grows, VoucherTypes
    <2>3. \A w \in Vouchers : Same(w)
        BY <1>2, <1>4 DEF Same, Redeeming
    <2>4. \A g \in Handlers : RequestOK(g)'
        BY <1>1, <1>2, <2>2, RequestsKept
    <2> QED
        BY <1>3, <2>1, <2>2, <2>3, <2>4, NoVoucher
<1>5. CASE /\ status' = [v \in Vouchers |->
                             IF v \in ToSet(task.done) THEN "expired" ELSE status[v]]
           /\ queued' = [v \in Vouchers |->
                             IF agent /\ v \in ToSet(task.done)
                             THEN Append(queued[v], "disable") ELSE queued[v]]
    <2>1. \A w \in Vouchers : /\ queued[w] \in Seq(Commands)
                              /\ Append(queued[w], "disable") \in Seq(Commands)
        BY <1>1, AppendSet DEF VoucherTypes, Commands
    <2>2. VoucherTypes'
        <3>1. status' \in [Vouchers -> RowStatus]
            BY <1>1, <1>5 DEF VoucherTypes, RowStatus
        <3>2. queued' \in [Vouchers -> Seq({"create", "disable"})]
            BY <1>5, <2>1 DEF Commands
        <3> QED
            BY <1>1, <1>2, <1>3, <3>1, <3>2 DEF VoucherTypes
    <2>3. Grows
        BY <1>1, <1>2, <1>5 DEF Grows, VoucherTypes
    <2>4. \A g \in Handlers : RequestOK(g)'
        BY <1>1, <1>2, <2>3, RequestsKept
    <2>5. ASSUME NEW v \in Vouchers
          PROVE  VoucherOK(v)' /\ Justified(v)
        <3>1. CASE v \notin ToSet(task.done)
            <4>1. Same(v)
                BY <1>2, <1>5, <3>1 DEF Same, Redeeming
            <4> QED
                BY <1>1, <2>2, <2>3, <4>1, VoucherKept DEF VoucherOK, Ended, Justified, Has, Same
        <3>2. CASE v \in ToSet(task.done)
            <4>1. /\ status[v] # "none" /\ (v \in raced \/ Over(v, task.at))
                  /\ agent \/ account[v] # "enabled" \/ v \in untracked
                BY <1>1, <3>2 DEF TaskOK
            <4>2. v \in raced \/ Over(v, now)
                <5>1. task.at \in Nat /\ now \in Nat /\ task.at <= now
                    BY <1>1, Numbers DEF VoucherTypes, TaskRec, TaskOK
                <5>2. used_at[v] \in Time \cup {NULL}
                    BY <1>1 DEF VoucherTypes
                <5>3. access_expiry_from(v, used_at[v]) + Grace \in Nat
                    BY <5>2, Numbers
                <5> QED
                    BY <4>1, <5>1, <5>3, SMTT(60) DEF Over
            <4>3. status'[v] = "expired"
                BY <1>5, <3>2
            <4>4. Blank(v)' /\ Once(v)'
                BY <1>1, <1>2, <4>3 DEF VoucherOK, Blank, Once, Redeeming
            <4>5. Ended(v)' /\ Justified(v)
                BY <1>2, <4>2 DEF Ended, Justified, Over, access_expiry_from
            <4>6. Known(v)'
                <5>1. account[v] \in Accounts /\ (agent \/ queued[v] = << >>)
                    BY <1>1 DEF VoucherTypes, Accounts, VoucherOK, Known
                <5>2. Outlook(v)' = Outcome(account'[v], queued'[v])
                    BY DEF Outlook, Outcome
                <5>3. CASE agent
                    <6>1. queued'[v] = Append(queued[v], "disable") /\ account'[v] = account[v]
                        BY <1>2, <1>5, <3>2, <5>3
                    <6>2. Outcome(account[v], Append(queued[v], "disable"))
                              = Effect("disable", Outcome(account[v], queued[v]))
                        BY <2>1, <5>1, LastCommand DEF Commands
                    <6>3. Outcome(account[v], queued[v]) \in Accounts
                        BY <2>1, <5>1, OutcomeDisabled
                    <6>4. Effect("disable", Outcome(account[v], queued[v])) # "enabled"
                        BY <6>3 DEF Effect, Accounts
                    <6> QED
                        BY <1>2, <4>3, <5>2, <5>3, <6>1, <6>2, <6>4 DEF Known
                <5>4. CASE ~ agent
                    <6>1. queued'[v] = << >> /\ account'[v] = account[v]
                        BY <1>2, <1>5, <5>1, <5>4
                    <6>2. Outcome(account[v], << >>) = account[v]
                        BY <5>1, NothingQueued
                    <6> QED
                        BY <1>2, <4>1, <4>3, <5>2, <5>4, <6>1, <6>2 DEF Known
                <5> QED
                    BY <5>3, <5>4
            <4> QED
                BY <4>4, <4>5, <4>6 DEF VoucherOK
        <3> QED
            BY <3>1, <3>2
    <2> QED
        BY <1>3, <2>2, <2>4, <2>5 DEF VoucherIndInv
<1> QED
    BY <1>4, <1>5 DEF ReconcileCommit

\* The reconciler dies.
LEMMA DiesKeeps ==
    ASSUME VoucherAssumption, VoucherIndInv, ReconcileDies
    PROVE  VoucherIndInv' /\ \A w \in Vouchers : Justified(w)
<1>1. VoucherTypes /\ (\A g \in Handlers : RequestOK(g))
    BY DEF VoucherIndInv
<1>2. /\ task' = NoTask
      /\ UNCHANGED <<status, is_used, used_at, expires_at, bought, agent, account, queued,
                     req, now, redemptions, raced, untracked>>
    BY DEF ReconcileDies, rowVars, routerVars, auxVars
<1>3. task' \in TaskRec /\ TaskOK'
    BY <1>1, <1>2, TaskEnds
<1>4. VoucherTypes'
    BY <1>1, <1>2, <1>3 DEF VoucherTypes
<1>5. Grows
    BY <1>1, <1>2 DEF Grows, VoucherTypes
<1>6. \A w \in Vouchers : Same(w)
    BY <1>2 DEF Same, Redeeming
<1>7. \A g \in Handlers : RequestOK(g)'
    BY <1>1, <1>2, <1>5, RequestsKept
<1> QED
    BY <1>3, <1>4, <1>5, <1>6, <1>7, NoVoucher

\* Time passes.
LEMMA TickKeeps ==
    ASSUME VoucherAssumption, VoucherIndInv, Tick
    PROVE  VoucherIndInv' /\ \A w \in Vouchers : Justified(w)
<1>1. VoucherTypes /\ TaskOK /\ (\A g \in Handlers : RequestOK(g))
    BY DEF VoucherIndInv
<1>2. /\ now < MaxTime /\ now' = now + 1
      /\ UNCHANGED <<status, is_used, used_at, expires_at, bought, agent, account, queued,
                     req, task, redemptions, raced, untracked>>
    BY DEF Tick, rowVars, routerVars, auxVars
<1>3. now' \in 1 .. MaxTime /\ now' >= now
    BY <1>1, <1>2, SMTT(60) DEF VoucherTypes, VoucherAssumption, VoucherConstants
<1>4. VoucherTypes'
    BY <1>1, <1>2, <1>3 DEF VoucherTypes
<1>5. Grows
    BY <1>1, <1>2, <1>3 DEF Grows
<1>6. \A w \in Vouchers : Same(w)
    BY <1>2 DEF Same, Redeeming
<1>7. TaskOK'
    BY <1>1, <1>2, <1>4, <1>5, TaskKept
<1>8. \A g \in Handlers : RequestOK(g)'
    BY <1>1, <1>2, <1>5, RequestsKept
<1> QED
    BY <1>4, <1>5, <1>6, <1>7, <1>8, NoVoucher

-----------------------------------------------------------------------------
(***************************************************************************)
(* Vouchers: the theorems.                                                 *)
(***************************************************************************)

\* Nothing is issued at first.
LEMMA VoucherInit ==
    ASSUME VoucherAssumption, Init
    PROVE  VoucherIndInv
<1>1. VoucherTypes
    <2>1. Idle \in RequestRec /\ NoTask \in TaskRec
        BY DEF Idle, NoTask, RequestRec, TaskRec, RowStatus, Time, VoucherAssumption,
               VoucherConstants
    <2>2. 1 \in 1 .. MaxTime
        BY SMTT(60) DEF VoucherAssumption, VoucherConstants
    <2> QED
        BY <2>1, <2>2 DEF Init, VoucherTypes, RowStatus
<1>2. TaskOK
    <2>1. ToSet(<< >>) = {} /\ DOMAIN << >> = {}
        BY DEF ToSet
    <2>2. task.pc = "idle" /\ task.todo = << >> /\ task.done = << >> /\ task.at = 0 /\ now = 1
        BY DEF Init, NoTask
    <2> QED
        BY <2>1, <2>2 DEF TaskOK
<1>3. \A h \in Handlers : RequestOK(h)
    BY DEF Init, Idle, RequestOK
<1>4. ASSUME NEW v \in Vouchers
      PROVE  VoucherOK(v)
    <2>1. /\ status[v] = "none" /\ is_used[v] = FALSE /\ used_at[v] = NULL /\ bought[v] = NULL
          /\ account[v] = "absent" /\ queued[v] = << >> /\ redemptions[v] = 0
        BY DEF Init
    <2>2. Redeeming(v) = {}
        BY DEF Init, Idle, Redeeming
    <2>3. Outlook(v) = "absent"
        BY <2>1, NothingQueued DEF Outlook, Accounts
    <2>4. Blank(v) /\ Once(v)
        BY <2>1, <2>2 DEF Blank, Once
    <2>5. Ended(v) /\ Known(v)
        BY <2>1, <2>3 DEF Ended, Known
    <2> QED
        BY <2>4, <2>5 DEF VoucherOK
<1> QED
    BY <1>1, <1>2, <1>3, <1>4 DEF VoucherIndInv

\* Every step keeps the invariant and takes no access before its time.
LEMMA VoucherStep ==
    ASSUME VoucherAssumption, VoucherIndInv, [Next]_vars
    PROVE  VoucherIndInv' /\ \A w \in Vouchers : Justified(w)
<1>1. ASSUME NEW v \in Vouchers, Issue(v)
      PROVE  VoucherIndInv' /\ \A w \in Vouchers : Justified(w)
    BY <1>1, GenerateKeeps, PaymentKeeps DEF Issue
<1>2. ASSUME NEW v \in Vouchers, RouterExecutes(v) \/ RouterFails(v)
      PROVE  VoucherIndInv' /\ \A w \in Vouchers : Justified(w)
    BY <1>2, ExecutesKeeps, FailsKeeps
<1>3. ASSUME NEW v \in Vouchers, Edit(v)
      PROVE  VoucherIndInv' /\ \A w \in Vouchers : Justified(w)
    BY <1>3, UpdateKeeps, DeleteKeeps DEF Edit
<1>4. ASSUME NEW h \in Handlers, Portal(h)
      PROVE  VoucherIndInv' /\ \A w \in Vouchers : Justified(w)
    <2>1. ASSUME NEW v \in Presented, RedeemLoad(h, v) \/ LoginLoad(h, v)
          PROVE  VoucherIndInv' /\ \A w \in Vouchers : Justified(w)
        <3>1. v \in Vouchers
            BY DEF VoucherAssumption, VoucherConstants
        <3> QED
            BY <2>1, <3>1, RedeemLoadKeeps, LoginLoadKeeps
    <2> QED
        BY <1>4, <2>1, ExpireByRequestKeeps, RedeemCommitKeeps, LoginCommitKeeps,
           RequestDiesKeeps DEF Portal
<1>5. CASE Reconcile
    BY <1>5, SelectKeeps, SkipKeeps, ExpireKeeps, CommitKeeps DEF Reconcile
<1>6. CASE ReconcileDies
    BY <1>6, DiesKeeps
<1>7. CASE Tick
    BY <1>7, TickKeeps
<1>8. CASE UNCHANGED vars
    <2>1. UNCHANGED <<status, is_used, used_at, expires_at, bought, agent, account, queued,
                      req, task, now, redemptions, raced, untracked>>
        BY <1>8 DEF vars, rowVars, routerVars, auxVars
    <2>2. VoucherTypes /\ TaskOK /\ (\A g \in Handlers : RequestOK(g))
        BY DEF VoucherIndInv
    <2>3. VoucherTypes'
        BY <2>1, <2>2 DEF VoucherTypes
    <2>4. Grows
        BY <2>1, <2>2 DEF Grows, VoucherTypes
    <2>5. \A w \in Vouchers : Same(w)
        BY <2>1 DEF Same, Redeeming
    <2>6. TaskOK' /\ \A g \in Handlers : RequestOK(g)'
        BY <2>1, <2>2, <2>3, <2>4, TaskKept, RequestsKept
    <2> QED
        BY <2>3, <2>4, <2>5, <2>6, NoVoucher
<1>9. \A v \in Presented : v \in Vouchers
    BY DEF VoucherAssumption, VoucherConstants
<1> QED
    BY <1>1, <1>2, <1>3, <1>4, <1>5, <1>6, <1>7, <1>8, <1>9 DEF Next

\* The inductive invariant implies what the run checks.
LEMMA VoucherSound ==
    ASSUME VoucherAssumption, VoucherIndInv
    PROVE  RedeemInv
<1>1. VoucherTypeOK
    <2>1. \A h \in Handlers : req[h].pc \in {"idle", "expire", "redeem", "login"}
        BY DEF VoucherIndInv, VoucherTypes, RequestRec
    <2>2. \A v \in Vouchers : agent \/ queued[v] = << >>
        BY DEF VoucherIndInv, VoucherOK, Known
    <2> QED
        BY <2>1, <2>2 DEF VoucherIndInv, VoucherTypes, RowStatus, TaskOK, VoucherTypeOK
<1>2. RedeemedOnceUnlessRaced
    <2> SUFFICES ASSUME NEW v \in Vouchers, redemptions[v] > 1, v \notin raced
                 PROVE  FALSE
        BY DEF RedeemedOnceUnlessRaced
    <2>1. redemptions[v] = 0 \/ redemptions[v] = 1
        BY DEF VoucherIndInv, VoucherOK, Once
    <2> QED
        BY <2>1
<1>3. AccessIsTracked
    BY DEF VoucherIndInv, VoucherOK, Known, AccessIsTracked
<1> QED
    BY <1>1, <1>2, <1>3 DEF RedeemInv

\* The inductive invariant of vouchers holds in every reachable state.
THEOREM VoucherInvariant == Spec => []VoucherIndInv
<1>1. Init => VoucherIndInv
    BY VoucherAssumption, VoucherInit
<1>2. VoucherIndInv /\ [Next]_vars => VoucherIndInv'
    BY VoucherAssumption, VoucherStep
<1> QED
    BY <1>1, <1>2, PTL DEF Spec

\* A voucher is redeemed once unless two requests raced, and access on the
\* router belongs to a voucher the reconciler will come to, unless one of the
\* known gaps let it slip.
THEOREM RedemptionsAreTracked == Spec => []RedeemInv
<1>1. VoucherIndInv => RedeemInv
    BY VoucherAssumption, VoucherSound
<1> QED
    BY <1>1, VoucherInvariant, PTL

\* The reconciler takes no access away before the window has passed.
THEOREM WindowsAreHonoured == Spec => WindowIsHonoured
<1>1. VoucherIndInv /\ [Next]_vars
      => \A v \in Vouchers :
            Outlook(v) = "enabled" /\ Outlook(v)' = "disabled"
            => \/ now > access_expiry_from(v, used_at[v]) + Grace
               \/ v \in raced
    <2> SUFFICES ASSUME VoucherIndInv, [Next]_vars, NEW v \in Vouchers,
                        Outlook(v) = "enabled", Outlook(v)' = "disabled"
                 PROVE  now > access_expiry_from(v, used_at[v]) + Grace \/ v \in raced
        OBVIOUS
    <2>1. VoucherIndInv' /\ Justified(v)
        BY VoucherAssumption, VoucherStep
    <2>2. /\ account[v] \in Accounts /\ queued[v] \in Seq(Commands)
          /\ account'[v] \in Accounts /\ queued'[v] \in Seq(Commands)
        BY <2>1 DEF VoucherIndInv, VoucherTypes, Accounts, Commands
    <2>3. account[v] # "disabled"
        BY <2>2, OutcomeDisabled DEF Outlook
    <2>4. Outcome(account'[v], queued'[v]) = "disabled"
        BY DEF Outlook, Outcome
    <2>5. account'[v] = "disabled" \/ Has(queued'[v])
        BY <2>2, <2>4, OutcomeDisabled
    <2> QED
        BY <2>1, <2>3, <2>5 DEF Justified, Over
<1> QED
    BY <1>1, VoucherInvariant, PTL DEF Spec, WindowIsHonoured

-----------------------------------------------------------------------------
(***************************************************************************)
(* Renewals: the inductive invariant.                                      *)
(***************************************************************************)

\* What a request carries at each of its steps.
Asking   == [pc : {"ask", "flush", "fail", "read"}, p : Payments, seen : {"pending", "failed"}]
Renewing == [pc : {"update", "commit"}, p : Payments, end : Nat]
Expiring == [pc : {"expire"}]
Setting  == [pc : {"office"}, seen : {"active", "expired"}, old : Nat, end : Nat]
Jobs     == {NoJob} \cup Asking \cup Renewing \cup Expiring \cup Setting

\* The columns, the customer's page and the requests have their types.
RenewalTypes ==
    /\ pay \in [Payments -> {"none", "pending", "failed", "completed"}]
    /\ intent \in [Payments -> BOOLEAN]
    /\ page \in [Payments -> {"none", "asked", "paying", "gone"}]
    /\ treasury \in [Payments -> {"none", "open", "paid", "failed"}]
    /\ sub_status \in {"none", "active", "expired"}
    /\ end_date \in Nat /\ due \in Nat /\ today \in 0 .. LastDay
    /\ extended \in [Payments -> Nat]
    /\ job \in [Workers -> Jobs]

\* An intent is opened at treasury once, and its id is stored only then.
IntentOpened ==
    \A p \in Payments :
       /\ pay[p] = "none" => page[p] = "none"
       /\ page[p] \in {"none", "asked"} => treasury[p] = "none"
       /\ intent[p] => treasury[p] # "none"

\* A verification knows what treasury has decided, which is final.
JobKnowsTreasury ==
    \A h \in Workers :
       /\ job[h].pc \in {"ask", "fail", "flush", "read", "update", "commit"} => intent[job[h].p]
       /\ job[h].pc \in {"flush", "read", "update", "commit"} => treasury[job[h].p] = "paid"
       /\ job[h].pc = "fail" => treasury[job[h].p] = "failed"

\* The locks are exclusive.
Locks ==
    \A g, h \in Workers :
       /\ job[g].pc = "commit" /\ job[h].pc = "commit" => g = h
       /\ /\ job[g].pc \in {"read", "update", "commit"}
          /\ job[h].pc \in {"read", "update", "commit"}
          /\ job[g].p = job[h].p
          => g = h

\* Whoever has found a subscription finds it again: it has a status.
JobHasSub == \A h \in Workers : job[h].pc \in {"update", "commit", "expire", "office"} => sub_status # "none"

\* A payment that has extended the subscription stays completed, and a second
\* verification that gets past its lock has been seen to race.
ExtendedIsCompleted ==
    /\ \A p \in Payments : extended[p] > 0 => pay[p] = "completed"
    /\ \A h \in Workers :
          job[h].pc \in {"read", "update", "commit"} /\ extended[job[h].p] > 0
             => job[h].p \in overlaps

\* One renewal at a time: it will write the end date it should.
OneRenewal ==
    "renewals" \notin overlaps =>
       /\ end_date = due
       /\ \A h \in Workers : job[h].pc \in {"update", "commit"} => job[h].end = NewEnd
       /\ \A g, h \in Workers :
             job[g].pc \in {"update", "commit"} /\ job[h].pc \in {"update", "commit"} => g = h

\* The expiry task that runs alone writes only what has run out.
ExpiryAlone ==
    "expiry" \notin overlaps /\ (sub_status = "expired" \/ \E h \in Workers : job[h].pc = "expire")
       => end_date <= today

RenewalIndInv ==
    /\ RenewalTypes /\ IntentOpened /\ JobKnowsTreasury /\ Locks /\ JobHasSub
    /\ CompletedWasPaid /\ CompletedIsRenewed /\ ExtendedIsCompleted /\ ExtendedOnce
    /\ OneRenewal /\ ExpiryAlone

-----------------------------------------------------------------------------
(***************************************************************************)
(* Lemmas: what a step of a request tells, and when locks are exclusive.   *)
(***************************************************************************)

\* The step a request is at says what it carries.
LEMMA JobShape ==
    ASSUME RenewalTypes, NEW h \in Workers
    PROVE  /\ job[h].pc = "idle" => job[h] = NoJob
           /\ job[h].pc \in {"ask", "flush", "fail", "read"} => job[h] \in Asking
           /\ job[h].pc \in {"update", "commit"} => job[h] \in Renewing
           /\ job[h].pc = "expire" => job[h] \in Expiring
           /\ job[h].pc = "office" => job[h] \in Setting
           /\ job[h].pc \in {"idle", "ask", "flush", "fail", "read", "update", "commit",
                             "expire", "office"}
           /\ job[h].pc \notin {"idle", "expire", "office"} => job[h].p \in Payments
<1>1. job[h] \in Jobs
  BY DEF RenewalTypes
<1> QED
  BY <1>1 DEF Jobs, NoJob, Asking, Renewing, Expiring, Setting

\* A step that replaces the record of one request leaves the others as they are.
LEMMA JobStep ==
    ASSUME RenewalTypes, NEW h \in Workers, NEW x \in Jobs, job' = [job EXCEPT ![h] = x]
    PROVE  /\ job' \in [Workers -> Jobs]
           /\ job'[h] = x
           /\ \A g \in Workers : g # h => job'[g] = job[g]
  BY DEF RenewalTypes

\* The first state satisfies the invariant.
LEMMA RenewalStart ==
    ASSUME RenewalConstants
    PROVE  RenewalInit => RenewalIndInv
  BY SMTT(60)
  DEF RenewalConstants, RenewalInit, RenewalIndInv, RenewalTypes, Jobs, NoJob, IntentOpened,
      JobKnowsTreasury, Locks, JobHasSub, CompletedWasPaid, CompletedIsRenewed,
      ExtendedIsCompleted, ExtendedOnce, OneRenewal, ExpiryAlone

-----------------------------------------------------------------------------
(***************************************************************************)
(* One lemma per group of actions.                                         *)
(***************************************************************************)

\* What the customer and treasury do moves a payment on: an intent is opened only
\* once, and what treasury has decided stays so.
LEMMA RenewStep ==
    ASSUME RenewalConstants, RenewalIndInv, NEW p \in Payments, Renew(p)
    PROVE  RenewalIndInv'
<1> USE JobShape
    DEF RenewalConstants, RenewalIndInv, RenewalTypes, IntentOpened, JobKnowsTreasury, Locks,
        JobHasSub, CompletedWasPaid, CompletedIsRenewed, ExtendedIsCompleted,
        ExtendedOnce, OneRenewal, ExpiryAlone, NewEnd, payVars, subVars
<1>1. CASE renew_subscription(p)
  BY <1>1 DEF renew_subscription
<1>2. CASE IntentCreated(p)
  <2>1. treasury[p] = "none" /\ treasury' = [treasury EXCEPT ![p] = "open"]
    BY <1>2 DEF IntentCreated
  <2>2. intent'[p] /\ \A q \in Payments : q # p => (intent'[q] <=> intent[q])
    BY <1>2 DEF IntentCreated
  <2>3. /\ intent' \in [Payments -> BOOLEAN]
        /\ page' \in [Payments -> {"none", "asked", "paying", "gone"}]
    BY <1>2 DEF IntentCreated
  <2>4. UNCHANGED <<pay, sub_status, end_date, today, job, extended, due, overlaps>>
    BY <1>2 DEF IntentCreated
  <2>5. IntentOpened'
    <3>1. page'[p] = "paying" /\ \A q \in Payments : q # p => page'[q] = page[q]
      BY <1>2 DEF IntentCreated
    <3>2. pay[p] # "none"
      BY <1>2 DEF IntentCreated
    <3> QED
      BY <2>1, <2>2, <2>4, <3>1, <3>2
  <2>6. (JobKnowsTreasury /\ CompletedWasPaid)'
    BY <2>1, <2>2, <2>4
  <2>7. RenewalTypes'
    BY <2>1, <2>3, <2>4
  <2>8. (Locks /\ JobHasSub /\ CompletedIsRenewed /\ ExtendedIsCompleted /\ ExtendedOnce)'
    BY <2>4
  <2>9. (OneRenewal /\ ExpiryAlone)'
    BY <2>4
  <2> QED
    BY <2>5, <2>6, <2>7, <2>8, <2>9
<1>3. ASSUME NEW dies \in BOOLEAN, IntentFailed(p, dies)
      PROVE  RenewalIndInv'
  BY <1>3 DEF IntentFailed
<1>4. ASSUME NEW to \in {"paid", "failed"}, TreasurySettles(p, to)
      PROVE  RenewalIndInv'
  BY <1>4, SMTT(60) DEF TreasurySettles
<1> QED
  BY <1>1, <1>2, <1>3, <1>4 DEF Renew

\* A request ends without writing, or is at the start of its work.
LEMMA QuietStep ==
    ASSUME RenewalConstants, RenewalIndInv, NEW h \in Workers,
           \/ \E p \in Payments : VerifyLoad(h, p)
           \/ RenewInactive(h) \/ JobDies(h) \/ ExpireLoad(h)
    PROVE  RenewalIndInv'
<1> USE JobShape
    DEF RenewalConstants, RenewalIndInv, RenewalTypes, IntentOpened, JobKnowsTreasury, Locks,
        JobHasSub, CompletedWasPaid, CompletedIsRenewed, ExtendedIsCompleted,
        ExtendedOnce, OneRenewal, ExpiryAlone, NewEnd, payVars, subVars
<1>1. ASSUME NEW p \in Payments, VerifyLoad(h, p)
      PROVE  RenewalIndInv'
  <2> DEFINE x == [pc |-> "ask", p |-> p, seen |-> pay[p]]
  <2>1. x \in Jobs /\ job' = [job EXCEPT ![h] = x]
    BY <1>1 DEF VerifyLoad, Jobs, Asking
  <2>2. /\ job' \in [Workers -> Jobs] /\ job'[h] = x
        /\ \A g \in Workers : g # h => job'[g] = job[g]
    BY <2>1, JobStep
  <2> QED
    BY <1>1, <2>2 DEF VerifyLoad
<1>2. CASE RenewInactive(h) \/ JobDies(h)
  <2>1. NoJob \in Jobs /\ job' = [job EXCEPT ![h] = NoJob]
    BY <1>2 DEF RenewInactive, JobDies, Jobs
  <2>2. /\ job' \in [Workers -> Jobs] /\ job'[h] = NoJob
        /\ \A g \in Workers : g # h => job'[g] = job[g]
    BY <2>1, JobStep
  <2> QED
    BY <1>2, <2>2, SMTT(60) DEF RenewInactive, JobDies, NoJob
<1>3. CASE ExpireLoad(h)
  <2> DEFINE x == [pc |-> "expire"]
  <2>1. x \in Jobs /\ job' = [job EXCEPT ![h] = x]
    BY <1>3 DEF ExpireLoad, Jobs, Expiring
  <2>2. /\ job' \in [Workers -> Jobs] /\ job'[h] = x
        /\ \A g \in Workers : g # h => job'[g] = job[g]
    BY <2>1, JobStep, SMTT(60)
  <2> QED
    BY <1>3, <2>2 DEF ExpireLoad
<1> QED
  BY <1>1, <1>2, <1>3, SMTT(60)

\* Treasury's answer, and the steps it leads to on the payment.  A verification
\* that takes the lock of a payment that has been completed since it was read is
\* recorded as a race, because what it carries was not completed.
LEMMA PaymentStep ==
    ASSUME RenewalConstants, RenewalIndInv, NEW h \in Workers,
           TreasuryAnswers(h) \/ VerifyFailed(h) \/ VerifyFlush(h) \/ RenewNothing(h)
    PROVE  RenewalIndInv'
<1> USE JobShape
    DEF RenewalConstants, RenewalIndInv, RenewalTypes, IntentOpened, JobKnowsTreasury, Locks,
        JobHasSub, CompletedWasPaid, CompletedIsRenewed, ExtendedIsCompleted,
        ExtendedOnce, OneRenewal, ExpiryAlone, NewEnd, payVars, subVars
<1>1. CASE TreasuryAnswers(h)
  <2>1. /\ job[h] \in Asking /\ job[h].p \in Payments
        /\ UNCHANGED <<pay, intent, page, treasury, sub_status, end_date, today, extended,
                       due, overlaps>>
    BY <1>1 DEF TreasuryAnswers
  <2>2. CASE treasury[job[h].p] = "open"
    <3>1. Verdict(job[h].p) = "idle"
      BY <2>2 DEF Verdict
    <3>2. NoJob \in Jobs /\ job' = [job EXCEPT ![h] = NoJob]
      BY <1>1, <3>1 DEF TreasuryAnswers, Jobs
    <3>3. /\ job' \in [Workers -> Jobs] /\ job'[h] = NoJob
          /\ \A g \in Workers : g # h => job'[g] = job[g]
      BY <3>2, JobStep
    <3> QED
      BY <2>1, <3>3, SMTT(60) DEF NoJob
  <2>3. CASE treasury[job[h].p] \in {"paid", "failed"}
    <3> DEFINE v == Verdict(job[h].p)
               x == [job[h] EXCEPT !.pc = v]
    <3>1. v = IF treasury[job[h].p] = "paid" THEN "flush" ELSE "fail"
      BY <2>3 DEF Verdict
    <3>2. x \in Jobs /\ x.p = job[h].p /\ x.pc = v
      BY <2>1, <3>1 DEF Jobs, Asking
    <3>3. job' = [job EXCEPT ![h] = x]
      BY <1>1, <3>1 DEF TreasuryAnswers
    <3> HIDE DEF x, v
    <3>4. /\ job' \in [Workers -> Jobs] /\ job'[h] = x
          /\ \A g \in Workers : g # h => job'[g] = job[g]
      BY <3>2, <3>3, JobStep
    <3>5. JobKnowsTreasury'
      <4>1. intent[job[h].p]
        BY <1>1 DEF TreasuryAnswers
      <4>2. ASSUME NEW g \in Workers
            PROVE  /\ job'[g].pc \in {"ask", "fail", "flush", "read", "update", "commit"}
                        => intent[job'[g].p]
                   /\ job'[g].pc \in {"flush", "read", "update", "commit"}
                        => treasury[job'[g].p] = "paid"
                   /\ job'[g].pc = "fail" => treasury[job'[g].p] = "failed"
        BY <2>3, <3>1, <3>2, <3>4, <4>1, SMTT(60)
      <4> QED
        BY <2>1, <4>2
    <3> QED
      BY <2>1, <3>1, <3>2, <3>4, <3>5, SMTT(60)
  <2> QED
    BY <1>1, <2>1, <2>2, <2>3 DEF TreasuryAnswers
<1>2. CASE VerifyFailed(h) \/ RenewNothing(h)
  <2>1. NoJob \in Jobs /\ job' = [job EXCEPT ![h] = NoJob]
    BY <1>2, SMTT(60) DEF VerifyFailed, RenewNothing, Jobs
  <2>2. /\ job' \in [Workers -> Jobs] /\ job'[h] = NoJob
        /\ \A g \in Workers : g # h => job'[g] = job[g]
    BY <2>1, JobStep
  <2>3. CASE VerifyFailed(h)
    BY <2>2, <2>3 DEF VerifyFailed, NoJob
  <2>4. CASE RenewNothing(h)
    BY <2>2, <2>4, SMTT(60) DEF RenewNothing, NoJob
  <2> QED
    BY <1>2, <2>3, <2>4, SMTT(60)
<1>3. CASE VerifyFlush(h)
  <2> DEFINE x == [job[h] EXCEPT !.pc = "read"]
  <2>1. job[h] \in Asking /\ job[h].pc = "flush" /\ job[h].p \in Payments
    BY <1>3 DEF VerifyFlush
  <2>2. /\ x \in Jobs /\ x.p = job[h].p /\ x.pc = "read"
        /\ job' = [job EXCEPT ![h] = x]
    BY <1>3, <2>1 DEF VerifyFlush, Jobs, Asking
  <2> HIDE DEF x
  <2>3. /\ job' \in [Workers -> Jobs] /\ job'[h] = x
        /\ \A g \in Workers : g # h => job'[g] = job[g]
    BY <2>2, JobStep
  <2>4. UNCHANGED <<pay, intent, page, treasury, sub_status, end_date, today, extended, due>>
    BY <1>3 DEF VerifyFlush
  <2>5. overlaps \subseteq overlaps' /\ (extended[job[h].p] > 0 => job[h].p \in overlaps')
    BY <1>3, <2>1 DEF VerifyFlush, Asking
  <2>6. Locks'
    BY <1>3, <2>2, <2>3 DEF VerifyFlush, HoldsPayment
  <2>7. (ExtendedIsCompleted /\ ExtendedOnce)'
    BY <2>2, <2>3, <2>4, <2>5
  <2>8. (OneRenewal /\ ExpiryAlone)'
    BY <2>2, <2>3, <2>4, <2>5, SMTT(60)
  <2> QED
    BY <2>1, <2>2, <2>3, <2>4, <2>6, <2>7, <2>8
<1> QED
  BY <1>1, <1>2, <1>3, SMTT(60)

\* The renewal of the subscription.  The end date that is committed is the one
\* that was due, unless somebody else was renewing since it was computed.
LEMMA SubscriptionStep ==
    ASSUME RenewalConstants, RenewalIndInv, NEW h \in Workers,
           RenewActive(h) \/ FlushSub(h) \/ VerifyCommit(h) \/ ExpireCommit(h)
    PROVE  RenewalIndInv'
<1> USE JobShape
    DEF RenewalConstants, RenewalIndInv, RenewalTypes, IntentOpened, JobKnowsTreasury, Locks,
        JobHasSub, CompletedWasPaid, CompletedIsRenewed, ExtendedIsCompleted,
        ExtendedOnce, OneRenewal, ExpiryAlone, NewEnd, payVars, subVars
<1>1. CASE RenewActive(h)
  <2> DEFINE x == [pc |-> "update", p |-> job[h].p, end |-> NewEnd]
  <2>1. x \in Jobs /\ job' = [job EXCEPT ![h] = x]
    BY <1>1 DEF RenewActive, Jobs, Renewing
  <2>2. /\ job' \in [Workers -> Jobs] /\ job'[h] = x
        /\ \A g \in Workers : g # h => job'[g] = job[g]
    BY <2>1, JobStep, SMTT(60)
  <2> QED
    BY <1>1, <2>2 DEF RenewActive
<1>2. CASE FlushSub(h)
  <2> DEFINE x == [job[h] EXCEPT !.pc = "commit"]
  <2>1. x \in Jobs /\ x.pc = "commit" /\ x.p = job[h].p /\ x.end = job[h].end
    BY <1>2 DEF FlushSub, Jobs, Renewing
  <2>2. job' = [job EXCEPT ![h] = x]
    BY <1>2 DEF FlushSub
  <2> HIDE DEF x
  <2>3. /\ job' \in [Workers -> Jobs] /\ job'[h] = x
        /\ \A g \in Workers : g # h => job'[g] = job[g]
    BY <2>1, <2>2, JobStep, SMTT(60)
  <2> QED
    BY <1>2, <2>1, <2>3 DEF FlushSub, HoldsSub
<1>3. CASE VerifyCommit(h)
  <2>1. NoJob \in Jobs /\ job' = [job EXCEPT ![h] = NoJob]
    BY <1>3 DEF VerifyCommit, Jobs
  <2>2. /\ job' \in [Workers -> Jobs] /\ job'[h].pc = "idle"
        /\ \A g \in Workers : g # h => job'[g] = job[g]
    BY <2>1, JobStep DEF NoJob
  <2>3. job[h] \in Renewing /\ job[h].pc = "commit" /\ job[h].p \in Payments /\ job[h].end \in Nat
    BY <1>3 DEF VerifyCommit, Renewing
  <2>4. /\ pay' = [pay EXCEPT ![job[h].p] = "completed"]
        /\ end_date' = job[h].end /\ due' = due + Validity
        /\ extended' = [extended EXCEPT ![job[h].p] = @ + 1]
        /\ overlaps \subseteq overlaps'
        /\ UNCHANGED <<intent, page, treasury, sub_status, today>>
    BY <1>3 DEF VerifyCommit
  <2>5. RenewalTypes' /\ IntentOpened' /\ JobKnowsTreasury' /\ Locks' /\ JobHasSub'
    BY <2>2, <2>3, <2>4, SMTT(60)
  <2>6. CompletedWasPaid' /\ CompletedIsRenewed'
    BY <2>3, <2>4
  <2>7. ExtendedIsCompleted' /\ ExtendedOnce'
    BY <2>2, <2>3, <2>4
  <2>8. OneRenewal'
    <3>1. ASSUME "renewals" \notin overlaps
          PROVE  job[h].end = NewEnd /\ end_date = due
      BY <2>3, <3>1
    <3>2. ASSUME "renewals" \notin overlaps, NEW g \in Workers
          PROVE  job'[g].pc \notin {"update", "commit"}
      BY <2>2, <2>3, <3>2
    <3> QED
      BY <2>4, <3>1, <3>2 DEF NewEnd
  <2>9. ExpiryAlone'
    BY <1>3, <2>2 DEF VerifyCommit
  <2> QED
    BY <2>5, <2>6, <2>7, <2>8, <2>9
<1>4. CASE ExpireCommit(h)
  <2>1. NoJob \in Jobs /\ job' = [job EXCEPT ![h] = NoJob]
    BY <1>4 DEF ExpireCommit, Jobs
  <2>2. /\ job' \in [Workers -> Jobs] /\ job'[h] = NoJob
        /\ \A g \in Workers : g # h => job'[g] = job[g]
    BY <2>1, JobStep, SMTT(60)
  <2> QED
    BY <1>4, <2>2 DEF ExpireCommit, NoJob
<1> QED
  BY <1>1, <1>2, <1>3, <1>4, SMTT(60)

\* The office sets the end date anew.  What it finds changed since it read the row
\* was a renewal or an expiry under way with it.
LEMMA OfficeStep ==
    ASSUME RenewalConstants, RenewalIndInv, NEW h \in Workers,
           \/ \E end \in 0 .. LastDay + Validity : OfficeLoad(h, end)
           \/ OfficeCommit(h)
    PROVE  RenewalIndInv'
<1> USE JobShape
    DEF RenewalConstants, RenewalIndInv, RenewalTypes, IntentOpened, JobKnowsTreasury, Locks,
        JobHasSub, CompletedWasPaid, CompletedIsRenewed, ExtendedIsCompleted,
        ExtendedOnce, OneRenewal, ExpiryAlone, NewEnd, payVars, subVars
<1>1. ASSUME NEW end \in 0 .. LastDay + Validity, OfficeLoad(h, end)
      PROVE  RenewalIndInv'
  <2> DEFINE x == [pc |-> "office", seen |-> sub_status, old |-> end_date, end |-> end]
  <2>1. x \in Jobs /\ x.pc = "office" /\ job' = [job EXCEPT ![h] = x]
    BY <1>1 DEF OfficeLoad, Jobs, Setting
  <2> HIDE DEF x
  <2>2. /\ job' \in [Workers -> Jobs] /\ job'[h] = x
        /\ \A g \in Workers : g # h => job'[g] = job[g]
    BY <2>1, JobStep
  <2> QED
    BY <1>1, <2>1, <2>2, SMTT(60) DEF OfficeLoad
<1>2. CASE OfficeCommit(h)
  <2>1. NoJob \in Jobs /\ job' = [job EXCEPT ![h] = NoJob]
    BY <1>2 DEF OfficeCommit, Jobs
  <2>2. /\ job' \in [Workers -> Jobs] /\ job'[h].pc = "idle"
        /\ \A g \in Workers : g # h => job'[g] = job[g]
    BY <2>1, JobStep DEF NoJob
  <2>3. /\ job[h] \in Setting /\ job[h].pc = "office"
        /\ sub_status # "none" /\ sub_status' \in {"active", "expired"}
        /\ end_date' \in Nat /\ due' \in Nat
        /\ end_date = due => end_date' = due'
        /\ overlaps \subseteq overlaps'
        /\ UNCHANGED <<pay, intent, page, treasury, today, extended>>
    BY <1>2 DEF OfficeCommit, Setting
  <2>4. RenewalTypes' /\ IntentOpened' /\ JobKnowsTreasury' /\ Locks' /\ JobHasSub'
    BY <2>2, <2>3, SMTT(60)
  <2>5. (CompletedWasPaid /\ CompletedIsRenewed /\ ExtendedIsCompleted /\ ExtendedOnce)'
    BY <2>2, <2>3
  <2>6. OneRenewal'
    <3>1. ASSUME "renewals" \notin overlaps', NEW g \in Workers
          PROVE  job'[g].pc \notin {"update", "commit"}
      BY <1>2, <2>2, <3>1 DEF OfficeCommit, HoldsSub
    <3> QED
      BY <2>3, <3>1
  <2>7. ExpiryAlone'
    <3>1. ASSUME "expiry" \notin overlaps'
          PROVE  sub_status' = "active" /\ \A g \in Workers : job'[g].pc # "expire"
      BY <1>2, <2>2, <3>1 DEF OfficeCommit
    <3> QED
      BY <3>1
  <2> QED
    BY <2>4, <2>5, <2>6, <2>7
<1> QED
  BY <1>1, <1>2

\* Time passes.
LEMMA OtherStep ==
    ASSUME RenewalConstants, RenewalIndInv, DayPasses
    PROVE  RenewalIndInv'
<1> USE JobShape
    DEF RenewalConstants, RenewalIndInv, RenewalTypes, IntentOpened, JobKnowsTreasury, Locks,
        JobHasSub, CompletedWasPaid, CompletedIsRenewed, ExtendedIsCompleted,
        ExtendedOnce, OneRenewal, ExpiryAlone, NewEnd, payVars, subVars
<1> QED
  BY DEF DayPasses

\* Every step keeps the invariant.
LEMMA RenewalStep ==
    ASSUME RenewalConstants
    PROVE  RenewalIndInv /\ [RenewalNext]_renewalVars => RenewalIndInv'
<1> SUFFICES ASSUME RenewalIndInv, [RenewalNext]_renewalVars
             PROVE  RenewalIndInv'
  OBVIOUS
<1>1. ASSUME NEW p \in Payments, Renew(p)
      PROVE  RenewalIndInv'
  BY <1>1, RenewStep
<1>2. ASSUME NEW h \in Workers,
             \/ \E p \in Payments : VerifyLoad(h, p)
             \/ Verify(h) \/ JobDies(h) \/ ExpireLoad(h) \/ ExpireCommit(h)
             \/ \E end \in 0 .. LastDay + Validity : OfficeLoad(h, end)
             \/ OfficeCommit(h)
      PROVE  RenewalIndInv'
  BY <1>2, QuietStep, PaymentStep, SubscriptionStep, OfficeStep DEF Verify
<1>3. CASE DayPasses
  BY <1>3, OtherStep
<1>4. CASE UNCHANGED renewalVars
  BY <1>4
  DEF renewalVars, payVars, subVars, RenewalIndInv, RenewalTypes, IntentOpened, JobKnowsTreasury,
      Locks, JobHasSub, CompletedWasPaid, CompletedIsRenewed, ExtendedIsCompleted,
      ExtendedOnce, OneRenewal, ExpiryAlone, NewEnd
<1> QED
  BY <1>1, <1>2, <1>3, <1>4 DEF RenewalNext

-----------------------------------------------------------------------------
(***************************************************************************)
(* Renewals: the theorems.                                                 *)
(***************************************************************************)

\* Every reachable state satisfies the invariant.
THEOREM RenewalInvariant ==
    RenewalSpec => []RenewalIndInv
<1>1. RenewalInit => RenewalIndInv
  BY RenewalAssumption, RenewalStart
<1>2. RenewalIndInv /\ [RenewalNext]_renewalVars => RenewalIndInv'
  BY RenewalAssumption, RenewalStep
<1> QED
  BY <1>1, <1>2, PTL DEF RenewalSpec

\* verify_pppoe_payment: the row locks are exclusive, a payment is completed only
\* with treasury's money, and one that is completed has renewed the subscription
\* unless there was none.
THEOREM RenewalCorrect ==
    RenewalSpec => []RenewalInv
<1>1. RenewalIndInv => RenewalInv
  <2> SUFFICES ASSUME RenewalIndInv PROVE RenewalInv
    OBVIOUS
  <2>1. \A p \in Payments : \A g, h \in HoldsPayment(p) : g = h
    BY DEF HoldsPayment, RenewalIndInv, Locks
  <2>2. \A g, h \in HoldsSub : g = h
    BY DEF HoldsSub, RenewalIndInv, Locks
  <2>3. \A h \in Workers : job[h].pc \in {"ask", "read", "update", "commit"} => intent[job[h].p]
    BY DEF RenewalIndInv, JobKnowsTreasury
  <2> QED
    BY <2>1, <2>2, <2>3 DEF RenewalIndInv, RenewalTypes, RenewalInv, RenewalTypeOK
<1> QED
  BY <1>1, RenewalInvariant, PTL

\* _process_pppoe_subscription_renewal: a payment extends the subscription once and
\* no paid period is lost, except in the overlaps of requests that nothing in the
\* code prevents.
THEOREM PaidTimeIsKept ==
    RenewalSpec => []PaidTimeKept
<1>1. RenewalIndInv => PaidTimeKept
  BY DEF RenewalIndInv, OneRenewal, PaidTimeKept, NoPaidTimeLost
<1> QED
  BY <1>1, RenewalInvariant, PTL

\* process_expired_subscriptions: who has paid is not cut off, except when the
\* expiry task has read the row before a renewal was committed.
THEOREM PaidTimeDoesRun ==
    RenewalSpec => []PaidTimeRuns
<1>1. RenewalIndInv => PaidTimeRuns
  BY DEF RenewalIndInv, ExpiryAlone, PaidTimeRuns
<1> QED
  BY <1>1, RenewalInvariant, PTL
=============================================================================
