------------------------ MODULE TenantMirrorProofs -------------------------
(***************************************************************************)
(* Proofs about the mirror of tenants and users, for any number of         *)
(* tenants, users, slugs, organizations and handlers.                      *)
(***************************************************************************)
EXTENDS TenantMirror, FiniteSetTheorems, NaturalsInduction, WellFoundedInduction, TLAPS

Bases     == Slugs \cup Tenants
Slug      == Bases \X Nat
OrgRec    == [uuid : Tenants \cup Orgs \cup {None}, auth : Tenants \cup {None},
              slug : Slug \cup {None}, name : Int]
TenantRec == [slug : Slugs \cup {None}, ver : Nat, said : SUBSET Nat]
UserRec   == [sub : BOOLEAN, role : DOMAIN Rank, obj : DOMAIN Rank \cup {None},
              org : Orgs \cup {None}]
TenantMsg == [kind : {"tenant"}, id : Nat, of : Tenants, ver : Nat, slug : Slugs \cup {None},
              named : BOOLEAN]
UserMsg   == [kind : {"user"}, id : Nat, of : Users, t : Tenants, role : Roles, slug : Slugs]

Types ==
    /\ tenant \in [Tenants -> TenantRec]
    /\ events \subseteq TenantMsg \cup UserMsg
    /\ org \in [Orgs -> OrgRec]
    /\ user \in [Users -> UserRec \cup {NoUser}]
    /\ DOMAIN work = Workers
    /\ trials \in [Tenants -> Nat]
    /\ seq \in Nat
    /\ holders \subseteq Slugs \X Tenants
    /\ saved \in [Tenants -> SUBSET Nat]
    /\ late \subseteq Tenants /\ stale \subseteq Users

\* What a message says was true when it was published.
Published(m) ==
    /\ m \in TenantMsg /\ m.ver > 0 /\ m.ver <= tenant[m.of].ver
    /\ m.named <=> m.ver \in tenant[m.of].said
    /\ m.slug # None => <<m.slug, m.of>> \in holders
Claimed(m) == m \in UserMsg /\ m.t = Home[m.of] /\ <<m.slug, m.t>> \in holders

Messages ==
    /\ \A t \in Tenants : tenant[t].slug # None => <<tenant[t].slug, t>> \in holders
    /\ \A t \in Tenants : saved[t] \cup tenant[t].said \subseteq 1 .. tenant[t].ver
    /\ \A m \in events : IF m.kind = "tenant" THEN Published(m) ELSE Claimed(m)

\* A row that is linked has the uuid of its tenant; one that is not has its own,
\* and the slug and the name it was created with.
Sound(o, x) ==
    /\ x \in OrgRec /\ x.uuid # None /\ x.slug \in Slug
    /\ x.auth # None => x.uuid = x.auth
    /\ x.auth = None => x.uuid = o /\ x.slug[1] \in Slugs /\ x.name = 0

\* Rows are numbered without a gap, and uuids and slugs are unique.
Table ==
    /\ \E k \in 0 .. Rows : \A o \in Orgs : IF o <= k THEN Sound(o, org[o]) ELSE org[o] = NoOrg
    /\ \A o, x \in Orgs : Exists(o) /\ Exists(x) /\ o # x =>
          org[o].uuid # org[x].uuid /\ org[o].slug # org[x].slug

\* What the handlers and the users refer to exists.
OfTenant == {"tenant", "save"}
Job(r) ==
    /\ r.pc \in {"idle", "tenant", "save", "trial", "ack", "user", "link"}
    /\ r.pc \in OfTenant \cup {"trial"} => Published(r.m)
    /\ r.pc = "ack" /\ r.m.kind = "tenant" => Published(r.m)
    /\ r.pc \in {"user", "link"} => Claimed(r.m) /\ r.login \in BOOLEAN
    /\ r.pc \in OfTenant =>
          \/ r.o = None /\ r.seen = NoOrg
          \/ /\ r.o \in Orgs /\ Exists(r.o) /\ Sound(r.o, r.seen)
             /\ r.seen.auth # None => org[r.o].auth # None
    /\ r.pc = "save" => r.slug \in Slug
    /\ r.pc = "user" =>
          /\ r.seen \in UserRec \cup {NoUser} /\ r.org \in Orgs \cup {None}
          /\ r.org # None => Exists(r.org)
    /\ r.pc = "link" => r.seen \in UserRec

Met(r) == r.pc \in {"user", "link"} /\ r.seen # NoUser => user[r.m.of] \in UserRec

Handling ==
    /\ \A w \in Workers : Job(work[w]) /\ Met(work[w])
    /\ \A u \in Users : user[u].org # None => Exists(user[u].org)

\* While no slug has passed from one tenant to another, the rows that tenants,
\* handlers and users have found are their own.
Held(slug, t) == slug[1] = t \/ <<slug[1], t>> \in holders
Own(x, t) == x.auth = t \/ (x.auth = None /\ <<x.slug[1], t>> \in holders)

Owns(r) ==
    /\ r.pc \in OfTenant /\ r.o # None =>
          Own(org[r.o], r.m.of) /\ Own(r.seen, r.m.of) /\ Held(r.seen.slug, r.m.of)
    /\ r.pc = "save" => Held(r.slug, r.m.of)
    /\ r.pc = "user" /\ r.org # None => Own(org[r.org], r.m.t)

Owned ==
    ~ Reused =>
       /\ \A o \in Orgs : org[o].auth # None => Held(org[o].slug, org[o].auth)
       /\ \A w \in Workers : Owns(work[w])
       /\ \A u \in Users : user[u].org # None => Own(org[user[u].org], Home[u])

\* A trial is started by the handler that created the row.
Starts(w, t) == work[w].pc = "trial" /\ work[w].m.of = t
Trials ==
    ~ Reused =>
       \A t \in Tenants :
          /\ trials[t] <= 1
          /\ \A w \in Workers : Starts(w, t) => trials[t] = 0
          /\ \A v, w \in Workers : Starts(v, t) /\ Starts(w, t) => v = w
          /\ trials[t] > 0 \/ (\E w \in Workers : Starts(w, t)) =>
                \E o \in Orgs : org[o].auth = t

\* A row shows the last name that was told and saved, or the default one; and what the
\* last change that was saved told, if it told a name.
Shown(x, t) ==
    LET told == saved[t] \cap tenant[t].said IN
    /\ x.name = IspProvider \/ (x.name \in told /\ \A v \in told : v <= x.name)
    /\ \A v \in told : (\A u \in saved[t] : u <= v) => x.name = v

\* A handler that is done has saved its change, and one that knows a name has it from
\* a change that was saved.
Follows(r) ==
    /\ r.pc \in {"trial", "ack"} /\ r.m.kind = "tenant" => r.m.ver \in saved[r.m.of]
    /\ r.pc \in OfTenant /\ r.o # None /\ r.seen.auth = r.m.of /\ r.seen.name > 0 =>
          r.seen.name \in saved[r.m.of]

\* Every change is saved or its event is still there.
AllSaved ==
    \A t \in Tenants : \A v \in 1 .. tenant[t].ver :
       v \in saved[t] \/ \E m \in events : m.kind = "tenant" /\ m.of = t /\ m.ver = v

\* Names of linked rows are those of changes that were saved, and the right ones unless
\* an event was overtaken or a name was given here.
RowNames ==
    /\ \A t \in Tenants : saved[t] # {} => \E o \in Orgs : org[o].auth = t
    /\ \A o \in Orgs : org[o].auth # None =>
          /\ org[o].name > 0 => org[o].name \in saved[org[o].auth]
          /\ org[o].auth \notin late => Shown(org[o], org[o].auth)
Names ==
    ~ Reused => RowNames /\ (\A w \in Workers : Follows(work[w])) /\ AllSaved

\* The inductive invariant.
Inv ==
    /\ Types /\ Messages /\ Table /\ Handling
    /\ Owned /\ Trials /\ Names /\ RoleIsLinked

-----------------------------------------------------------------------------
(***************************************************************************)
(* What the operators of the model give.                                   *)
(***************************************************************************)

\* A slug that has not been reused has one holder.
LEMMA OneHolder ==
    ASSUME ~ Reused, NEW s, NEW t, NEW u, <<s, t>> \in holders, <<s, u>> \in holders
    PROVE  t = u
  BY DEF Reused

\* A set of natural numbers that is not empty has a least element.
LEMMA Least ==
    ASSUME NEW S \in SUBSET Nat, S # {}
    PROVE  \E n \in S : \A m \in S : n <= m
<1> DEFINE less == {p \in Nat \X Nat : p[1] < p[2]}
<1>1. IsWellFoundedOn(less, Nat)
  BY NatLessThanWellFounded DEF OpToRel
<1> HIDE DEF less
<1>2. PICK n \in S : \A m \in S : <<m, n>> \notin less
  BY <1>1, WFMin
<1>3. ASSUME NEW m \in S
      PROVE  n <= m
  <2>1. <<m, n>> \in Nat \X Nat /\ <<m, n>>[1] = m /\ <<m, n>>[2] = n
    OBVIOUS
  <2>2. ~ (m < n)
    BY <1>2, <2>1 DEF less
  <2> QED
    BY <2>2
<1> QED
  BY <1>3

\* The suffixes cannot all be taken: there is one more of them than there are rows.
LEMMA FirstFreeIsFree ==
    ASSUME Types, NEW base
    PROVE  \E n \in Nat : FirstFree(base) = <<base, n>> /\ <<base, n>> \notin Taken
<1> USE MirrorAssumption
<1> DEFINE Unused == {n \in Suffixes : <<base, n>> \notin Taken}
<1>1. Unused # {}
  <2> SUFFICES ASSUME \A n \in Suffixes : <<base, n>> \in Taken
               PROVE  FALSE
    OBVIOUS
  <2> DEFINE f == [n \in Suffixes |-> CHOOSE o \in Orgs : org[o].slug = <<base, n>>]
  <2>1. \A n \in Suffixes : \E o \in Orgs : org[o].slug = <<base, n>>
    BY DEF Taken
  <2>2. \A n \in Suffixes : f[n] \in Orgs /\ org[f[n]].slug = <<base, n>>
    BY <2>1
  <2>3. IsFiniteSet(Suffixes) /\ Cardinality(Suffixes) = Rows + 1
    BY FS_Interval DEF Suffixes
  <2>4. IsFiniteSet(Orgs) /\ Cardinality(Orgs) = Rows
    BY FS_Interval DEF Orgs
  <2>5. f \in [Suffixes -> Orgs]
    BY <2>2
  <2> HIDE DEF f
  <2>6. PICK m, n \in Suffixes : m # n /\ f[m] = f[n]
    <3>1. Cardinality(Orgs) < Cardinality(Suffixes)
      BY <2>3, <2>4
    <3> QED
      BY <2>3, <2>4, <2>5, <3>1, FS_PigeonHole
  <2>7. <<base, m>> = <<base, n>>
    BY <2>2, <2>6
  <2> QED
    BY <2>6, <2>7
<1>2. PICK n \in Unused : \A m \in Unused : n <= m
  <2>1. Unused \in SUBSET Nat
    BY DEF Suffixes
  <2> HIDE DEF Unused
  <2> QED
    BY <1>1, <2>1, Least
<1> DEFINE P(k) == <<base, k>> \notin Taken /\ \A m \in 0 .. k - 1 : <<base, m>> \in Taken
<1>3. n \in Suffixes /\ P(n)
  BY <1>2 DEF Suffixes
<1>4. FirstFree(base) = <<base, CHOOSE k \in Suffixes : P(k)>>
  BY DEF FirstFree
<1>5. (CHOOSE k \in Suffixes : P(k)) \in Suffixes /\ P(CHOOSE k \in Suffixes : P(k))
  BY <1>3
<1>6. Suffixes \subseteq Nat
  BY DEF Suffixes
<1> HIDE DEF P
<1>7. <<base, CHOOSE k \in Suffixes : P(k)>> \notin Taken
  BY <1>5 DEF P
<1> QED
  BY <1>4, <1>5, <1>6, <1>7

\* A row exists if and only if it is sound, and the next one is the first that does not.
LEMMA RowShape ==
    ASSUME Types, Table
    PROVE  /\ \A o \in Orgs : IF Exists(o) THEN Sound(o, org[o]) ELSE org[o] = NoOrg
           /\ ~ Full => /\ NewRow \in Orgs /\ ~ Exists(NewRow)
                        /\ \A o \in Orgs : Exists(o) <=> o < NewRow
<1> USE MirrorAssumption
<1>1. PICK k \in 0 .. Rows :
         \A o \in Orgs : IF o <= k THEN Sound(o, org[o]) ELSE org[o] = NoOrg
  BY DEF Table
<1>2. NoOrg.uuid = None
  BY DEF NoOrg
<1>3. \A o \in Orgs : Exists(o) <=> o <= k
  BY <1>1, <1>2 DEF Exists, Sound
<1>4. \A o \in Orgs : IF Exists(o) THEN Sound(o, org[o]) ELSE org[o] = NoOrg
  BY <1>1, <1>3
<1>5. NewRow = k + 1
  <2>1. {o \in Orgs : Exists(o)} = 1 .. k
    BY <1>3 DEF Orgs
  <2>2. Cardinality(1 .. k) = k
    BY FS_Interval
  <2> QED
    BY <2>1, <2>2 DEF NewRow
<1>6. ASSUME ~ Full
      PROVE  NewRow \in Orgs
  BY <1>3, <1>5, <1>6 DEF Full, Orgs
<1> QED
  BY <1>3, <1>4, <1>5, <1>6 DEF Orgs

-----------------------------------------------------------------------------
(***************************************************************************)
(* What steps keep.                                                        *)
(***************************************************************************)

\* One handler moves on.
Moves(w) == DOMAIN work' = Workers /\ \A v \in Workers : v # w => work'[v] = work[v]

\* auth-api only goes forward, and what was saved was saved.
Grows ==
    /\ \A t \in Tenants :
          /\ tenant[t].ver <= tenant'[t].ver
          /\ \A v \in 0 .. tenant[t].ver : v \in tenant[t].said <=> v \in tenant'[t].said
          /\ saved[t] \subseteq saved'[t]
    /\ holders \subseteq holders'

\* Rows stay, and so do their links.
RowsStay ==
    \A o \in Orgs : Exists(o) => /\ Exists(o)'
                                 /\ org[o].auth # None => org'[o].auth # None
LinksStay == \A o \in Orgs : org[o].auth # None => org'[o].auth = org[o].auth
OwnersStay ==
    \A o \in Orgs : \A t \in Tenants : Exists(o) /\ Own(org[o], t) => Own(org[o], t)'
Stays == OwnersStay /\ LinksStay

\* Handlers are given what they do next.
LEMMA WorkMoves ==
    ASSUME Types, NEW w \in Workers, NEW x, work' = [work EXCEPT ![w] = x]
    PROVE  Moves(w) /\ work'[w] = x
  BY DEF Types, Moves

\* What was published stays so.
LEMMA MessageKept ==
    ASSUME Types, Types', Grows, NEW m
    PROVE  (Published(m) => Published(m)') /\ (Claimed(m) => Claimed(m)')
<1>1. ASSUME Published(m)
      PROVE  Published(m)'
  <2>1. m.of \in Tenants /\ m.ver \in Nat
    BY <1>1 DEF Published, TenantMsg
  <2>2. tenant[m.of].ver \in Nat /\ tenant'[m.of].ver \in Nat /\ tenant[m.of].ver <= tenant'[m.of].ver
    BY <2>1 DEF Types, Grows, TenantRec
  <2>3. m.ver <= tenant'[m.of].ver /\ m.ver \in 0 .. tenant[m.of].ver
    BY <1>1, <2>1, <2>2 DEF Published
  <2>4. m.ver \in tenant[m.of].said <=> m.ver \in tenant'[m.of].said
    BY <2>1, <2>3 DEF Grows
  <2> QED
    BY <1>1, <2>3, <2>4 DEF Published, Grows
<1> QED
  BY <1>1 DEF Claimed, Grows

\* A slug that is reused stays so.
LEMMA ReusedStays ==
    ASSUME Grows, ~ Reused'
    PROVE  ~ Reused
  BY DEF Grows, Reused

\* A handler that stays where it is still refers to what exists.
LEMMA JobKept ==
    ASSUME Types, Types', Grows, RowsStay, NEW r, Job(r)
    PROVE  Job(r)'
<1> USE MirrorAssumption
<1>1. (Published(r.m) => Published(r.m)') /\ (Claimed(r.m) => Claimed(r.m)')
  BY MessageKept
<1>2. ASSUME r.o \in Orgs, Exists(r.o), r.seen.auth # None => org[r.o].auth # None
      PROVE  Exists(r.o)' /\ (r.seen.auth # None => org'[r.o].auth # None)
  BY <1>2 DEF RowsStay
<1>3. ASSUME r.org \in Orgs \cup {None}, r.org # None => Exists(r.org)
      PROVE  r.org # None => Exists(r.org)'
  BY <1>3 DEF RowsStay
<1> HIDE MirrorAssumption
<1> QED
  BY <1>1, <1>2, <1>3 DEF Job, Sound, OfTenant

\* And its row is still its own.
LEMMA OwnsKept ==
    ASSUME Grows, OwnersStay, NEW r, Job(r), Owns(r)
    PROVE  Owns(r)'
<1>1. ASSUME r.pc \in OfTenant, r.o # None
      PROVE  Own(org[r.o], r.m.of)'
  <2>1. r.o \in Orgs /\ Exists(r.o) /\ r.m.of \in Tenants
    BY <1>1 DEF Job, Published, TenantMsg
  <2> QED
    BY <1>1, <2>1 DEF Owns, OwnersStay
<1>2. ASSUME r.pc = "user", r.org # None
      PROVE  Own(org[r.org], r.m.t)'
  <2>1. r.org \in Orgs /\ Exists(r.org) /\ r.m.t \in Tenants
    BY <1>2 DEF Job, Claimed, UserMsg
  <2> QED
    BY <1>2, <2>1 DEF Owns, OwnersStay
<1>3. \A s, t : Held(s, t) => Held(s, t)'
  BY DEF Held, Grows
<1>4. \A x, t : Own(x, t) => x.auth = t \/ (x.auth = None /\ <<x.slug[1], t>> \in holders')
  BY DEF Own, Grows
<1> QED
  BY <1>1, <1>2, <1>3, <1>4 DEF Owns, Own, Held, Grows

\* And what it saved or knows is saved.
LEMMA FollowsKept ==
    ASSUME Grows, NEW r, Job(r), Follows(r)
    PROVE  Follows(r)'
<1>1. r.pc \in OfTenant \cup {"trial"} \/ (r.pc = "ack" /\ r.m.kind = "tenant") =>
         r.m.of \in Tenants
  BY DEF Job, Published, TenantMsg
<1> QED
  BY <1>1 DEF Follows, Grows, OfTenant

\* Without a change of rows all of this stays.
LEMMA SameRows ==
    ASSUME Types, UNCHANGED org, Grows
    PROVE  RowsStay /\ Stays
<1>1. RowsStay
  BY DEF RowsStay, Exists
<1>2. OwnersStay
  BY DEF OwnersStay, Own, Grows
<1>3. LinksStay
  BY DEF LinksStay
<1> QED
  BY <1>1, <1>2, <1>3 DEF Stays

\* A handler that does not move keeps its invariants.
LEMMA OthersKept ==
    ASSUME Inv, Types', Grows, RowsStay, ~ Reused' => Stays,
           NEW v \in Workers, work'[v] = work[v]
    PROVE  Job(work[v])' /\ (~ Reused' => Owns(work[v])' /\ Follows(work[v])')
<1> DEFINE r == work[v]
<1>1. Types /\ Job(r)
  BY DEF Inv, Handling
<1>2. ~ Reused => Owns(r) /\ Follows(r)
  BY SMTT(60) DEF Inv, Owned, Names
<1> HIDE DEF r
<1>3. Job(work[v])'
  <2>1. \A x : Job(x) => Job(x)'
    BY <1>1, JobKept
  <2> QED
    BY <1>1, <2>1, SMTT(60) DEF r, Job, Sound, Published, Claimed, Exists
<1>4. ASSUME ~ Reused'
      PROVE  Owns(work[v])' /\ Follows(work[v])'
  <2>1. ~ Reused
    BY <1>4, ReusedStays
  <2>2. OwnersStay
    BY <1>4 DEF Stays
  <2>3. \A x : Job(x) /\ Owns(x) => Owns(x)'
    BY <2>2, OwnsKept
  <2>4. \A x : Job(x) /\ Follows(x) => Follows(x)'
    BY FollowsKept
  <2>5. Owns(work[v])'
    BY <1>1, <1>2, <2>1, <2>3, ZenonT(60) DEF r, Owns, Own, Held
  <2>6. Follows(work[v])'
    BY <1>1, <1>2, <2>1, <2>4 DEF r, Follows
  <2> QED
    BY <2>5, <2>6
<1> QED
  BY <1>3, <1>4

\* A user that stays where it is, is still in its own organization.
LEMMA UserKept ==
    ASSUME Inv, Grows, RowsStay, ~ Reused' => Stays,
           NEW u \in Users, user'[u].org = user[u].org, user[u].org # None
    PROVE  Exists(user[u].org)' /\ (~ Reused' => Own(org[user[u].org], Home[u])')
<1>1. user[u].org \in Orgs /\ Exists(user[u].org) /\ Home[u] \in Tenants
  <2>1. user[u] \in UserRec \/ user[u].org = None
    BY DEF Inv, Types, NoUser
  <2> QED
    BY <2>1, MirrorAssumption DEF Inv, Handling, UserRec
<1>2. Exists(user[u].org)'
  BY <1>1 DEF RowsStay, Exists
<1>3. ASSUME ~ Reused'
      PROVE  Own(org[user[u].org], Home[u])'
  <2>1. ~ Reused /\ OwnersStay
    BY <1>3, ReusedStays DEF Stays
  <2>2. Own(org[user[u].org], Home[u])
    BY <2>1 DEF Inv, Owned
  <2> QED
    BY <1>1, <2>1, <2>2 DEF OwnersStay, Own
<1> QED
  BY <1>2, <1>3

\* A trial is under way only where it was, and none was started.
LEMMA TrialsKept ==
    ASSUME Types, Trials, ~ Reused' => ~ Reused /\ LinksStay, UNCHANGED trials,
           \A v \in Workers : work'[v].pc = "trial" => work'[v] = work[v]
    PROVE  Trials'
<1> SUFFICES ASSUME ~ Reused', NEW t \in Tenants
             PROVE  /\ trials[t] <= 1
                    /\ \A w \in Workers : Starts(w, t)' => trials[t] = 0
                    /\ \A v, w \in Workers : Starts(v, t)' /\ Starts(w, t)' => v = w
                    /\ trials[t] > 0 \/ (\E w \in Workers : Starts(w, t)') =>
                          \E o \in Orgs : org'[o].auth = t
  BY DEF Trials
<1>1. \A w \in Workers : Starts(w, t)' => Starts(w, t)
  BY DEF Starts
<1>2. /\ trials[t] <= 1
      /\ \A w \in Workers : Starts(w, t) => trials[t] = 0
      /\ \A v, w \in Workers : Starts(v, t) /\ Starts(w, t) => v = w
      /\ trials[t] > 0 \/ (\E w \in Workers : Starts(w, t)) =>
                          \E o \in Orgs : org[o].auth = t
  BY DEF Trials
<1>3. \A o \in Orgs : org[o].auth = t => org'[o].auth = t
  BY MirrorAssumption DEF LinksStay
<1> QED
  BY <1>1, <1>2, <1>3

\* Only what a handler writes changes a link to a role.
LEMMA LinksKept ==
    ASSUME RoleIsLinked, UNCHANGED user, stale \subseteq stale',
           \A v \in Workers : work[v].pc = "link" /\ work'[v] # work[v] =>
              work[v].m.of \in stale'
    PROVE  RoleIsLinked'
<1> SUFFICES ASSUME NEW u \in Users
             PROVE  \/ ~ user[u].sub \/ u \in stale'
                    \/ \E w \in Workers : work'[w].pc = "link" /\ work'[w].m.of = u
                    \/ user[u].obj = user[u].role
  BY DEF RoleIsLinked
<1>1. CASE \E w \in Workers : work[w].pc = "link" /\ work[w].m.of = u
  BY <1>1
<1> QED
  BY <1>1 DEF RoleIsLinked

\* A step that only moves a handler, and perhaps takes events away.
LEMMA WorkStep ==
    ASSUME Inv, NEW w \in Workers, Types', Moves(w),
           UNCHANGED <<tenant, org, user, holders, saved, late>>, events' \subseteq events,
           Job(work[w])', Met(work[w])', ~ Reused => Owns(work[w])' /\ Follows(work[w])',
           Trials', AllSaved \/ Reused => AllSaved' \/ Reused, RoleIsLinked'
    PROVE  Inv'
<1>1. Grows
  BY DEF Grows, Inv, Types, TenantRec
<1>2. RowsStay /\ Stays
  BY <1>1, SameRows DEF Inv
<1>3. Reused' <=> Reused
  BY DEF Reused
<1>4. Messages'
  BY DEF Inv, Messages, Published, Claimed
<1>5. Table'
  BY DEF Inv, Table, Exists, Sound
<1>6. ASSUME NEW v \in Workers
      PROVE  Job(work[v])' /\ (~ Reused' => Owns(work[v])' /\ Follows(work[v])')
  <2>1. CASE v = w
    BY <1>3, <2>1
  <2>2. CASE v # w
    BY <1>1, <1>2, <2>2, OthersKept DEF Moves
  <2> QED
    BY <2>1, <2>2
<1>m. \A v \in Workers : Met(work[v])'
  BY DEF Moves, Met, Inv, Handling
<1>7. Handling'
  BY <1>6, <1>m DEF Inv, Handling, Exists
<1>8. Owned'
  BY <1>3, <1>6 DEF Inv, Owned, Held, Own
<1>9. Names'
  BY <1>3, <1>6 DEF Inv, Names, RowNames, Shown
<1> QED
  BY <1>4, <1>5, <1>7, <1>8, <1>9 DEF Inv

-----------------------------------------------------------------------------
(***************************************************************************)
(* One lemma per kind of step.                                             *)
(***************************************************************************)

\* A handler that is idle refers to nothing.
LEMMA IdleJob ==
    ASSUME NEW w, work'[w] = Idle
    PROVE  /\ Job(work[w])' /\ Met(work[w])' /\ Owns(work[w])' /\ Follows(work[w])'
           /\ work'[w].pc = "idle"
<1>1. Idle.pc = "idle"
  BY DEF Idle
<1> QED
  BY <1>1 DEF Job, Met, Owns, Follows, OfTenant

\* A handler ends without a commit, or dies: the event will come again, and a user
\* whose link was to follow is noted.
LEMMA EndKeeps ==
    ASSUME Inv, NEW w \in Workers, TenantRefused(w) \/ UserRefused(w) \/ Crash(w)
    PROVE  Inv'
<1>1. /\ UNCHANGED <<tenant, events, org, user, trials, seq, holders, saved, late>>
      /\ work' = [work EXCEPT ![w] = Idle]
  BY DEF TenantRefused, UserRefused, Crash, Nak, counters
<1>2. /\ stale' = IF work[w].pc = "link" THEN stale \cup {work[w].m.of} ELSE stale
  BY DEF TenantRefused, UserRefused, Crash
<1>3. Moves(w) /\ work'[w] = Idle
  BY <1>1, WorkMoves DEF Inv
<1>4. stale' \subseteq Users /\ stale \subseteq stale'
  <2>1. work[w].pc = "link" => work[w].m.of \in Users
    BY DEF Inv, Handling, Job, Claimed, UserMsg
  <2> QED
    BY <1>2, <2>1 DEF Inv, Types
<1>5. Types'
  BY <1>1, <1>3, <1>4 DEF Inv, Types, Moves
<1>6. /\ Job(work[w])' /\ Met(work[w])' /\ Owns(work[w])' /\ Follows(work[w])'
      /\ work'[w].pc = "idle"
  BY <1>3, IdleJob
<1>7. Trials'
  <2>1. Reused' <=> Reused
    BY <1>1 DEF Reused
  <2>2. LinksStay
    BY <1>1 DEF LinksStay
  <2>3. \A v \in Workers : work'[v].pc = "trial" => work'[v] = work[v]
    BY <1>3, <1>6 DEF Moves
  <2> QED
    BY <1>1, <2>1, <2>2, <2>3, TrialsKept DEF Inv
<1>8. RoleIsLinked'
  <2>1. \A v \in Workers : work[v].pc = "link" /\ work'[v] # work[v] => work[v].m.of \in stale'
    BY <1>2, <1>3 DEF Moves
  <2> QED
    BY <1>1, <1>4, <2>1, LinksKept DEF Inv
<1>9. AllSaved => AllSaved'
  BY <1>1 DEF AllSaved
<1> QED
  BY <1>1, <1>3, <1>5, <1>6, <1>7, <1>8, <1>9, WorkStep

\* An event that was handled is acknowledged: what it told is saved.
LEMMA AckKeeps ==
    ASSUME Inv, NEW w \in Workers, Ack(w)
    PROVE  Inv'
<1>1. /\ UNCHANGED <<tenant, org, user, trials, seq, holders, saved, late, stale>>
      /\ work' = [work EXCEPT ![w] = Idle] /\ work[w].pc = "ack"
      /\ events' = events \ {work[w].m}
  BY DEF Ack, counters
<1>3. Moves(w) /\ work'[w] = Idle
  BY <1>1, WorkMoves DEF Inv
<1>5. Types'
  BY <1>1, <1>3 DEF Inv, Types, Moves
<1>6. /\ Job(work[w])' /\ Met(work[w])' /\ Owns(work[w])' /\ Follows(work[w])'
      /\ work'[w].pc = "idle"
  BY <1>3, IdleJob
<1>7. Trials'
  <2>1. Reused' <=> Reused
    BY <1>1 DEF Reused
  <2>2. LinksStay
    BY <1>1 DEF LinksStay
  <2>3. \A v \in Workers : work'[v].pc = "trial" => work'[v] = work[v]
    BY <1>3, <1>6 DEF Moves
  <2> QED
    BY <1>1, <2>1, <2>2, <2>3, TrialsKept DEF Inv
<1>8. RoleIsLinked'
  <2>1. \A v \in Workers : work[v].pc = "link" /\ work'[v] # work[v] => work[v].m.of \in stale'
    BY <1>1, <1>3 DEF Moves
  <2> QED
    BY <1>1, <2>1, LinksKept DEF Inv
<1>9. AllSaved \/ Reused => AllSaved' \/ Reused
  <2> SUFFICES ASSUME ~ Reused, AllSaved
               PROVE  AllSaved'
    OBVIOUS
  <2>1. SUFFICES ASSUME NEW t \in Tenants, NEW m \in events, m.kind = "tenant", m.of = t,
                        m \notin events'
                 PROVE  m.ver \in saved[t]
    BY <1>1 DEF AllSaved
  <2>2. m = work[w].m
    BY <1>1, <2>1
  <2> QED
    BY <1>1, <2>1, <2>2 DEF Inv, Names, Follows
<1> QED
  BY <1>1, <1>3, <1>5, <1>6, <1>7, <1>8, <1>9, WorkStep

\* The trial of a new organization is started, or not.
LEMMA SubscribeKeeps ==
    ASSUME Inv, NEW w \in Workers, NEW ok \in BOOLEAN, Subscribe(w, ok)
    PROVE  Inv'
<1> DEFINE r == work[w]
           t == r.m.of
<1>1. /\ UNCHANGED <<tenant, events, org, user, seq, holders, saved, late, stale>>
      /\ work' = [work EXCEPT ![w].pc = "ack"] /\ r.pc = "trial"
      /\ trials' = IF ok THEN [trials EXCEPT ![t] = @ + 1] ELSE trials
  BY DEF Subscribe
<1>2. Published(r.m) /\ t \in Tenants
  BY <1>1 DEF Inv, Handling, Job, Published, TenantMsg
<1>3. Moves(w) /\ work'[w].pc = "ack" /\ work'[w].m = r.m
  BY <1>1 DEF Inv, Types, Moves
<1>5. Types'
  <2>1. trials' \in [Tenants -> Nat]
    BY <1>1, <1>2 DEF Inv, Types
  <2> QED
    BY <1>1, <1>3, <2>1 DEF Inv, Types, Moves
<1>6. Job(work[w])' /\ Met(work[w])' /\ Owns(work[w])'
  BY <1>1, <1>2, <1>3 DEF Job, Met, Owns, OfTenant, Published
<1>f. ~ Reused => Follows(work[w])'
  <2>1. ~ Reused => Follows(r)
    BY DEF Inv, Names
  <2> QED
    BY <1>1, <1>3, <2>1 DEF Follows, OfTenant
<1>7. Trials'
  <2> SUFFICES ASSUME ~ Reused', NEW y \in Tenants
               PROVE  /\ trials'[y] <= 1
                      /\ \A v \in Workers : Starts(v, y)' => trials'[y] = 0
                      /\ \A v, u \in Workers : Starts(v, y)' /\ Starts(u, y)' => v = u
                      /\ trials'[y] > 0 \/ (\E v \in Workers : Starts(v, y)') =>
                            \E o \in Orgs : org[o].auth = y
    BY <1>1 DEF Trials
  <2>1. /\ trials[y] <= 1
        /\ \A v \in Workers : Starts(v, y) => trials[y] = 0
        /\ \A v, u \in Workers : Starts(v, y) /\ Starts(u, y) => v = u
        /\ trials[y] > 0 \/ (\E v \in Workers : Starts(v, y)) =>
                            \E o \in Orgs : org[o].auth = y
    BY <1>1 DEF Inv, Trials, Reused
  <2>2. \A v \in Workers : Starts(v, y)' => v # w /\ Starts(v, y)
    BY <1>3 DEF Starts, Moves
  <2>3. Starts(w, t)
    BY <1>1 DEF Starts
  <2>4. trials[y] \in Nat
    BY DEF Inv, Types
  <2>5. IF ok /\ y = t THEN trials'[y] = trials[y] + 1 ELSE trials'[y] = trials[y]
    BY <1>1, <1>2 DEF Inv, Types
  <2>6. CASE y = t
    BY <2>1, <2>2, <2>3, <2>4, <2>5, <2>6
  <2>7. CASE y # t
    BY <2>1, <2>2, <2>5, <2>7
  <2> QED
    BY <2>6, <2>7
<1>8. RoleIsLinked'
  <2>1. \A v \in Workers : work[v].pc = "link" /\ work'[v] # work[v] => work[v].m.of \in stale'
    BY <1>1, <1>3 DEF Moves
  <2> QED
    BY <1>1, <2>1, LinksKept DEF Inv
<1>9. AllSaved => AllSaved'
  BY <1>1 DEF AllSaved
<1> QED
  BY <1>1, <1>3, <1>5, <1>6, <1>f, <1>7, <1>8, <1>9, WorkStep

\* A handler takes an event or decides; nothing is written.
LEMMA ReadStep ==
    ASSUME Inv, NEW w \in Workers, Moves(w), seq' \in Nat,
           UNCHANGED <<tenant, events, org, user, trials, holders, saved, late, stale>>,
           work'[w].pc # "trial", work[w].pc # "link",
           Job(work[w])', Met(work[w])', ~ Reused => Owns(work[w])' /\ Follows(work[w])'
    PROVE  Inv'
<1>1. Types'
  BY DEF Inv, Types, Moves
<1>2. Trials'
  <2>1. Reused' <=> Reused
    BY DEF Reused
  <2>2. LinksStay
    BY DEF LinksStay
  <2>3. \A v \in Workers : work'[v].pc = "trial" => work'[v] = work[v]
    BY DEF Moves
  <2> QED
    BY <2>1, <2>2, <2>3, TrialsKept DEF Inv
<1>3. RoleIsLinked'
  <2>1. \A v \in Workers : work[v].pc = "link" /\ work'[v] # work[v] => work[v].m.of \in stale'
    BY DEF Moves
  <2> QED
    BY <2>1, LinksKept DEF Inv
<1>4. AllSaved => AllSaved'
  BY DEF AllSaved
<1> QED
  BY <1>1, <1>2, <1>3, <1>4, WorkStep

\* The row that an event matches exists, and is the tenant's own.
LEMMA MatchIsOwn ==
    ASSUME Inv, NEW m, Published(m), NEW o \in Match(m)
    PROVE  /\ o \in Orgs /\ Exists(o) /\ Sound(o, org[o])
           /\ ~ Reused => Own(org[o], m.of) /\ Held(org[o].slug, m.of)
<1> USE MirrorAssumption
<1>1. m.of \in Tenants /\ m.slug \in Slugs \cup {None}
  BY DEF Published, TenantMsg
<1>2. /\ o \in Orgs
      /\ \/ org[o].auth = m.of
         \/ org[o].uuid = m.of
         \/ m.slug # None /\ Exists(o) /\ org[o].slug = <<m.slug, 0>>
  BY DEF Match
<1>3. NoOrg.uuid = None /\ NoOrg.auth = None
  BY DEF NoOrg
<1>4. Exists(o)
  BY <1>1, <1>2, <1>3 DEF Exists
<1>5. Sound(o, org[o])
  BY <1>2, <1>4, RowShape DEF Inv
<1>6. org[o].uuid = m.of => org[o].auth = m.of
  BY <1>1, <1>2, <1>5 DEF Sound, Orgs
<1>7. ASSUME ~ Reused
      PROVE  Own(org[o], m.of) /\ Held(org[o].slug, m.of)
  <2>1. CASE org[o].auth = m.of
    BY <1>1, <1>2, <1>7, <2>1 DEF Own, Inv, Owned
  <2>2. CASE m.slug # None /\ org[o].slug = <<m.slug, 0>>
    <3>1. <<m.slug, m.of>> \in holders /\ org[o].slug[1] = m.slug /\ m.slug \in Slugs
      BY <1>1, <2>2 DEF Published
    <3>2. CASE org[o].auth = None
      BY <3>1, <3>2 DEF Own, Held
    <3>3. CASE org[o].auth # None
      <4>1. Held(org[o].slug, org[o].auth)
        BY <1>2, <1>7, <3>3 DEF Inv, Owned
      <4>2. org[o].auth \in Tenants
        BY <1>5, <3>3 DEF Sound, OrgRec
      <4>3. <<m.slug, org[o].auth>> \in holders
        BY <3>1, <4>1, <4>2 DEF Held
      <4>4. org[o].auth = m.of
        BY <1>7, <3>1, <4>3, OneHolder
      <4> QED
        BY <4>1, <4>4 DEF Own
    <3> QED
      BY <3>2, <3>3
  <2> QED
    BY <1>2, <1>6, <2>1, <2>2
<1> QED
  BY <1>2, <1>4, <1>5, <1>7

\* The event is taken, and the row it is about is read.
LEMMA TenantLoadKeeps ==
    ASSUME Inv, NEW w \in Workers, NEW m \in events, TenantLoad(w, m)
    PROVE  Inv'
<1> USE MirrorAssumption
<1>1. PICK o \in Orgs \cup {None} :
         /\ IF Match(m) = {} THEN o = None ELSE o \in Match(m)
         /\ work' = [work EXCEPT ![w] = [pc |-> "tenant", m |-> m, o |-> o,
                                         seen |-> IF o = None THEN NoOrg ELSE org[o]]]
  BY DEF TenantLoad
<1> DEFINE x == [pc |-> "tenant", m |-> m, o |-> o, seen |-> IF o = None THEN NoOrg ELSE org[o]]
<1>2. /\ m.kind = "tenant" /\ work[w] = Idle
      /\ UNCHANGED <<tenant, events, org, user, trials, seq, holders, saved, late, stale>>
  BY DEF TenantLoad, Free
<1>4. /\ x.pc = "tenant" /\ x.m = m /\ x.o = o
      /\ o = None => x.seen = NoOrg
      /\ o # None => x.seen = org[o]
      /\ work' = [work EXCEPT ![w] = x]
  BY <1>1
<1> HIDE DEF x
<1>3. Moves(w) /\ work'[w] = x
  BY <1>4, WorkMoves DEF Inv
<1>5. Published(m)
  BY <1>2 DEF Inv, Messages
<1>6. ASSUME o # None
      PROVE  /\ o \in Orgs /\ Exists(o) /\ Sound(o, org[o])
             /\ ~ Reused => Own(org[o], m.of) /\ Held(org[o].slug, m.of)
  <2>1. o \in Match(m)
    BY <1>1, <1>6
  <2> QED
    BY <1>5, <2>1, MatchIsOwn
<1>7. Job(work[w])' /\ Met(work[w])'
  BY <1>2, <1>3, <1>4, <1>5, <1>6 DEF Job, Met, OfTenant, Published, Exists, Sound
<1>8. ASSUME ~ Reused
      PROVE  Owns(work[w])' /\ Follows(work[w])'
  <2>1. Owns(work[w])'
    BY <1>2, <1>3, <1>4, <1>6, <1>8 DEF Owns, OfTenant, Own, Held
  <2>2. o # None /\ org[o].auth = m.of /\ org[o].name > 0 => org[o].name \in saved[m.of]
    <3>1. m.of # None
      BY <1>5 DEF Published, TenantMsg
    <3> QED
      BY <1>6, <1>8, <3>1 DEF Inv, Names, RowNames
  <2>3. Follows(work[w])'
    BY <1>2, <1>3, <1>4, <2>2 DEF Follows, OfTenant
  <2> QED
    BY <2>1, <2>3
<1>9. Idle.pc = "idle" /\ seq \in Nat
  BY DEF Idle, Inv, Types
<1> QED
  BY <1>2, <1>3, <1>4, <1>7, <1>8, <1>9, ReadStep

\* The slug that an event leads to is one the tenant has held, or is named after it.
LEMMA SettleIsHeld ==
    ASSUME Inv, NEW r, Job(r), r.pc = "tenant"
    PROVE  /\ Settle(r.m, r.o, r.seen) \in Slug
           /\ ~ Reused /\ Owns(r) => Held(Settle(r.m, r.o, r.seen), r.m.of)
<1> USE MirrorAssumption
<1> DEFINE m == r.m
           s == Settle(r.m, r.o, r.seen)
<1>1. /\ m.of \in Tenants /\ m.slug \in Slugs \cup {None}
      /\ m.slug # None => <<m.slug, m.of>> \in holders
  BY DEF Job, OfTenant, Published, TenantMsg
<1>2. CASE r.o = None
  <2> DEFINE base == IF m.slug = None THEN m.of ELSE m.slug
  <2>1. s = FirstFree(base)
    BY <1>2 DEF Settle
  <2>2. PICK n \in Nat : FirstFree(base) = <<base, n>>
    BY FirstFreeIsFree DEF Inv
  <2>3. base \in Bases /\ (base = m.of \/ <<base, m.of>> \in holders)
    BY <1>1 DEF Bases
  <2> HIDE DEF base, m, s
  <2>4. s[1] = base /\ s \in Slug
    BY <2>1, <2>2, <2>3 DEF Slug
  <2>5. Held(s, m.of)
    BY <2>3, <2>4 DEF Held
  <2> QED
    BY <2>4, <2>5 DEF s, m
<1>3. CASE r.o # None
  <2>1. r.seen.slug \in Slug
    BY <1>3 DEF Job, OfTenant, Sound, OrgRec
  <2>2. s = r.seen.slug \/ (m.slug # None /\ s = <<m.slug, 0>>)
    BY <1>3 DEF Settle
  <2>3. CASE s = r.seen.slug
    BY <1>3, <2>1, <2>3 DEF Owns, OfTenant
  <2>4. CASE m.slug # None /\ s = <<m.slug, 0>>
    BY <1>1, <2>4 DEF Slug, Bases, Held
  <2> QED
    BY <2>2, <2>3, <2>4
<1> QED
  BY <1>2, <1>3

\* The slug is decided on.
LEMMA TenantDecideKeeps ==
    ASSUME Inv, NEW w \in Workers, TenantDecide(w)
    PROVE  Inv'
<1> DEFINE r == work[w]
           x == [pc |-> "save", m |-> r.m, o |-> r.o, seen |-> r.seen,
                 slug |-> Settle(r.m, r.o, r.seen)]
<1>1. /\ r.pc = "tenant" /\ work' = [work EXCEPT ![w] = x]
      /\ UNCHANGED <<tenant, events, org, user, trials, seq, holders, saved, late, stale>>
  BY DEF TenantDecide, counters
<1>2. Moves(w) /\ work'[w] = x
  BY <1>1, WorkMoves DEF Inv
<1>3. /\ x.pc = "save" /\ x.m = r.m /\ x.o = r.o /\ x.seen = r.seen
      /\ x.slug = Settle(r.m, r.o, r.seen)
  OBVIOUS
<1>4. Job(r) /\ (~ Reused => Owns(r) /\ Follows(r))
  BY DEF Inv, Handling, Owned, Names
<1> HIDE DEF r, x
<1>5. /\ x.slug \in Slug
      /\ ~ Reused => Held(x.slug, r.m.of)
  BY <1>1, <1>3, <1>4, SettleIsHeld
<1>6. Job(work[w])' /\ Met(work[w])'
  BY <1>1, <1>2, <1>3, <1>4, <1>5, SMTT(60) DEF Job, Met, OfTenant, Published, Exists, Sound
<1>7. ASSUME ~ Reused
      PROVE  Owns(work[w])' /\ Follows(work[w])'
  BY <1>1, <1>2, <1>3, <1>4, <1>5, <1>7, SMTT(60) DEF Owns, Follows, OfTenant, Own, Held
<1>8. seq \in Nat
  BY DEF Inv, Types
<1> QED
  BY <1>1, <1>2, <1>3, <1>6, <1>7, <1>8, ReadStep DEF r

\* The organization that claims lead to exists, and is the user's own.
LEMMA ResolveIsOwn ==
    ASSUME Inv, NEW m, Claimed(m)
    PROVE  /\ Resolve(m) \in Orgs \cup {None}
           /\ Resolve(m) # None =>
                 /\ Exists(Resolve(m))
                 /\ ~ Reused => Own(org[Resolve(m)], m.t)
<1> USE MirrorAssumption
<1> DEFINE bySlug == {o \in Orgs : Exists(o) /\ org[o].slug = <<m.slug, 0>>}
           byUuid == {o \in Orgs : org[o].uuid = m.t}
           o == Resolve(m)
<1>1. m.t \in Tenants /\ m.slug \in Slugs /\ <<m.slug, m.t>> \in holders
  BY DEF Claimed, UserMsg
<1>2. o = None \/ o \in bySlug \/ o \in byUuid
  BY DEF Resolve
<1>3. ASSUME o # None
      PROVE  Exists(o) /\ o \in Orgs /\ (~ Reused => Own(org[o], m.t))
  <2> HIDE DEF o
  <2>1. o \in Orgs /\ ((Exists(o) /\ org[o].slug = <<m.slug, 0>>) \/ org[o].uuid = m.t)
    BY <1>2, <1>3
  <2>2. NoOrg.uuid = None
    BY DEF NoOrg
  <2>3. Exists(o)
    BY <1>1, <2>1, <2>2 DEF Exists
  <2>4. Sound(o, org[o])
    BY <2>1, <2>3, RowShape DEF Inv
  <2>5. ASSUME ~ Reused
        PROVE  Own(org[o], m.t)
    <3>1. CASE org[o].uuid = m.t
      BY <1>1, <2>1, <2>4, <3>1 DEF Sound, Orgs, Own
    <3>2. CASE org[o].slug = <<m.slug, 0>> /\ org[o].auth = None
      BY <1>1, <3>2 DEF Own
    <3>3. CASE org[o].slug = <<m.slug, 0>> /\ org[o].auth # None
      <4>1. Held(org[o].slug, org[o].auth)
        BY <2>1, <2>5, <3>3 DEF Inv, Owned
      <4>2. org[o].auth \in Tenants
        BY <2>4, <3>3 DEF Sound, OrgRec
      <4>3. <<m.slug, org[o].auth>> \in holders
        BY <1>1, <3>3, <4>1, <4>2 DEF Held
      <4>4. org[o].auth = m.t
        BY <1>1, <2>5, <4>3, OneHolder
      <4> QED
        BY <4>4 DEF Own
    <3> QED
      BY <2>1, <3>1, <3>2, <3>3
  <2> QED
    BY <2>1, <2>3, <2>5
<1> QED
  BY <1>2, <1>3

\* The user and the organization are looked up.
LEMMA UserLoadKeeps ==
    ASSUME Inv, NEW w \in Workers, NEW m, NEW login \in BOOLEAN, UserLoad(w, m, login),
           Claimed(m), seq' \in Nat,
           UNCHANGED <<tenant, events, org, user, trials, holders, saved, late, stale>>
    PROVE  Inv'
<1> DEFINE x == [pc |-> "user", m |-> m, login |-> login, seen |-> user[m.of], org |-> Resolve(m)]
<1>1. work[w] = Idle /\ work' = [work EXCEPT ![w] = x]
  BY DEF UserLoad, Free
<1>2. Moves(w) /\ work'[w] = x
  BY <1>1, WorkMoves DEF Inv
<1>3. /\ x.pc = "user" /\ x.m = m /\ x.login = login /\ x.seen = user[m.of]
      /\ x.org = Resolve(m)
  OBVIOUS
<1> HIDE DEF x
<1>4. user[m.of] \in UserRec \cup {NoUser}
  BY DEF Claimed, UserMsg, Inv, Types
<1>5. /\ x.org \in Orgs \cup {None}
      /\ x.org # None => Exists(x.org) /\ (~ Reused => Own(org[x.org], m.t))
  BY <1>3, ResolveIsOwn
<1>6. Job(work[w])' /\ Met(work[w])'
  BY <1>2, <1>3, <1>4, <1>5 DEF Job, Met, OfTenant, Claimed, Exists
<1>7. ASSUME ~ Reused
      PROVE  Owns(work[w])' /\ Follows(work[w])'
  BY <1>2, <1>3, <1>5, <1>7 DEF Owns, Follows, OfTenant, Own
<1>8. Idle.pc = "idle"
  BY DEF Idle
<1> QED
  BY <1>1, <1>2, <1>3, <1>6, <1>7, <1>8, ReadStep

\* By an event.
LEMMA UserEventKeeps ==
    ASSUME Inv, NEW w \in Workers, NEW m \in events, UserEvent(w, m)
    PROVE  Inv'
<1>1. /\ m.kind = "user" /\ UserLoad(w, m, FALSE)
      /\ UNCHANGED <<tenant, events, org, user, trials, seq, holders, saved, late, stale>>
  BY DEF UserEvent
<1>2. Claimed(m) /\ seq \in Nat
  BY <1>1 DEF Inv, Messages, Types
<1> QED
  BY <1>1, <1>2, UserLoadKeeps

\* What auth-api says of a user names its tenant and a slug of it.
LEMMA ClaimsAreClaimed ==
    ASSUME Inv, NEW u \in Users, NEW r \in Roles, NEW id \in Nat, tenant[Home[u]].slug # None
    PROVE  Claimed(Claims(u, r, id))
<1> DEFINE m == Claims(u, r, id)
           t == Home[u]
           s == tenant[t].slug
<1>1. t \in Tenants
  BY MirrorAssumption
<1>2. s \in Slugs /\ <<s, t>> \in holders
  BY <1>1 DEF Inv, Types, Messages
<1>3. m = [kind |-> "user", id |-> id, of |-> u, t |-> t, role |-> r, slug |-> s]
  BY DEF Claims
<1> HIDE DEF m, s, t
<1>4. m \in UserMsg /\ m.t = t /\ m.of = u /\ m.slug = s
  BY <1>1, <1>2, <1>3 DEF UserMsg
<1> QED
  BY <1>2, <1>4 DEF Claimed, m, t

\* By a login.
LEMMA LoginKeeps ==
    ASSUME Inv, NEW w \in Workers, NEW u \in Users, NEW r \in Roles, Login(w, u, r)
    PROVE  Inv'
<1>1. /\ tenant[Home[u]].slug # None /\ UserLoad(w, Claims(u, r, seq), TRUE) /\ seq' = seq + 1
      /\ UNCHANGED <<tenant, events, org, user, trials, holders, saved, late, stale>>
  BY DEF Login
<1>2. seq \in Nat
  BY DEF Inv, Types
<1> DEFINE m == Claims(u, r, seq)
<1>3. Claimed(m) /\ UserLoad(w, m, TRUE)
  BY <1>1, <1>2, ClaimsAreClaimed
<1>4. seq' \in Nat /\ TRUE \in BOOLEAN
  BY <1>1, <1>2
<1> HIDE DEF m
<1> QED
  BY <1>1, <1>3, <1>4, UserLoadKeeps

\* A step that writes one user.
LEMMA UserStep ==
    ASSUME Inv, NEW w \in Workers, NEW u \in Users, Moves(w),
           user' \in [Users -> UserRec \cup {NoUser}], stale' \subseteq Users,
           \A y \in Users : y # u => user'[y] = user[y],
           UNCHANGED <<tenant, events, org, trials, seq, holders, saved, late>>,
           \/ user'[u].org = user[u].org
           \/ user'[u].org = None
           \/ Exists(user'[u].org) /\ (~ Reused => Own(org[user'[u].org], Home[u])),
           work'[w].pc # "trial",
           \A y \in Users : user[y] \in UserRec => user'[y] \in UserRec,
           Job(work[w])', Met(work[w])', Owns(work[w])', Follows(work[w])',
           RoleIsLinked'
    PROVE  Inv'
<1>1. Types'
  BY DEF Inv, Types, Moves
<1>2. Grows
  BY DEF Grows, Inv, Types, TenantRec
<1>3. RowsStay /\ Stays
  BY <1>2, SameRows DEF Inv, Stays
<1>4. Reused' <=> Reused
  BY DEF Reused
<1>5. Messages'
  BY DEF Inv, Messages, Published, Claimed
<1>6. Table'
  BY DEF Inv, Table, Exists, Sound
<1>7. ASSUME NEW v \in Workers
      PROVE  Job(work[v])' /\ (~ Reused' => Owns(work[v])' /\ Follows(work[v])')
  <2>1. CASE v = w
    BY <2>1
  <2>2. CASE v # w
    BY <1>1, <1>2, <1>3, <2>2, OthersKept DEF Moves
  <2> QED
    BY <2>1, <2>2
<1>8. ASSUME NEW y \in Users, user'[y].org # None
      PROVE  Exists(user[y].org)' /\ (~ Reused' => Own(org[user[y].org], Home[y])')
  <2>1. CASE user'[y].org = user[y].org
    <3>1. Exists(user[y].org) /\ (~ Reused => Own(org[user[y].org], Home[y]))
      BY <1>8, <2>1 DEF Inv, Handling, Owned
    <3> QED
      BY <1>4, <2>1, <3>1 DEF Exists, Own
  <2>2. CASE user'[y].org # user[y].org
    BY <1>4, <1>8, <2>2 DEF Exists, Own
  <2> QED
    BY <2>1, <2>2
<1>m. ASSUME NEW v \in Workers
      PROVE  Met(work[v])'
  <2>1. CASE v = w
    BY <2>1
  <2>2. CASE v # w
    <3>1. work'[v] = work[v] /\ Met(work[v]) /\ Job(work[v])
      BY <2>2 DEF Moves, Inv, Handling
    <3>2. work[v].pc \in {"user", "link"} => work[v].m.of \in Users
      BY <3>1 DEF Job, Claimed, UserMsg
    <3> QED
      BY <3>1, <3>2 DEF Met
  <2> QED
    BY <2>1, <2>2
<1>9. Handling'
  BY <1>7, <1>8, <1>m DEF Handling
<1>10. Owned'
  <2>1. ~ Reused => \A o \in Orgs : org[o].auth # None => Held(org[o].slug, org[o].auth)
    BY DEF Inv, Owned
  <2>2. ~ Reused => \A o \in Orgs : org'[o].auth # None => Held(org[o].slug, org[o].auth)'
    BY <2>1 DEF Held
  <2> QED
    BY <1>4, <1>7, <1>8, <2>2 DEF Owned
<1>11. Names'
  BY <1>4, <1>7 DEF Inv, Names, RowNames, Shown, AllSaved
<1>12. Trials'
  <2>1. LinksStay
    BY DEF LinksStay
  <2>2. \A v \in Workers : work'[v].pc = "trial" => work'[v] = work[v]
    BY DEF Moves
  <2> QED
    BY <1>4, <2>1, <2>2, TrialsKept DEF Inv
<1> QED
  BY <1>1, <1>5, <1>6, <1>9, <1>10, <1>11, <1>12 DEF Inv

\* Where a handler is when it is done with a user.
LEMMA OverIsOver ==
    ASSUME NEW w, work[w].login \in BOOLEAN, Claimed(work[w].m), work'[w] = Over(w)
    PROVE  /\ Job(work[w])' /\ Met(work[w])' /\ Owns(work[w])' /\ Follows(work[w])'
           /\ work'[w].pc \in {"idle", "ack"}
<1>1. Idle.pc = "idle"
  BY DEF Idle
<1>2. work'[w].pc = "idle" \/ (work'[w].pc = "ack" /\ work'[w].m = work[w].m)
  BY <1>1 DEF Over
<1>3. work[w].m.kind = "user"
  BY DEF Claimed, UserMsg
<1> QED
  BY <1>2, <1>3 DEF Job, Met, Owns, Follows, OfTenant

\* The user is brought up to date: alone, the role and its link are written together.
LEMMA UserUpdateKeeps ==
    ASSUME Inv, NEW w \in Workers, UserUpdate(w)
    PROVE  Inv'
<1> USE MirrorAssumption
<1> DEFINE r == work[w]
           u == r.m.of
           seen == r.seen
           role == NewRole(seen.role, r.m.role)
           y == [sub  |-> TRUE,
                 role |-> Flush(user[u].role, seen.role, role),
                 obj  |-> Flush(user[u].obj, seen.obj, _sync_role_obj(role)),
                 org  |-> IF r.org # None /\ seen.org = None /\ r.m.role # "owner"
                          THEN r.org ELSE user[u].org]
<1>1. /\ r.pc = "user" /\ seen # NoUser
      /\ stale' = IF user[u] # seen THEN stale \cup {u} ELSE stale \ {u}
      /\ work' = [work EXCEPT ![w] = Over(w)]
      /\ UNCHANGED <<tenant, events, org, trials, seq, holders, saved, late>>
  BY SMTT(60) DEF UserUpdate, counters
<1>2. /\ Job(r) /\ Met(r) /\ (~ Reused => Owns(r))
      /\ Claimed(r.m) /\ u \in Users /\ r.m.role \in Roles /\ r.m.t = Home[u]
      /\ seen \in UserRec /\ user[u] \in UserRec
      /\ r.org \in Orgs \cup {None} /\ (r.org # None => Exists(r.org))
  BY <1>1 DEF Inv, Handling, Owned, Job, Met, Claimed, UserMsg
<1>3. user' = [user EXCEPT ![u] = y]
  BY <1>2 DEF UserUpdate, Inv, Types
<1>4. role \in DOMAIN Rank
  <2>1. seen.role \in DOMAIN Rank
    BY <1>2, SMTT(60) DEF UserRec
  <2> QED
    BY <1>2, <2>1 DEF NewRole
<1>5. /\ y \in UserRec /\ y.sub = TRUE
      /\ y.role = Flush(user[u].role, seen.role, role)
      /\ y.obj = Flush(user[u].obj, seen.obj, role)
      /\ y.org = user[u].org \/ (y.org = r.org /\ r.org # None)
  <2> DEFINE a == Flush(user[u].role, seen.role, role)
             b == Flush(user[u].obj, seen.obj, _sync_role_obj(role))
             c == IF r.org # None /\ seen.org = None /\ r.m.role # "owner"
                  THEN r.org ELSE user[u].org
  <2>1. a \in DOMAIN Rank
    BY <1>2, <1>4 DEF Flush, UserRec
  <2>2. b \in DOMAIN Rank \cup {None} /\ b = Flush(user[u].obj, seen.obj, role)
    BY <1>2, <1>4 DEF Flush, UserRec, _sync_role_obj
  <2>3. c \in Orgs \cup {None} /\ (c = user[u].org \/ (c = r.org /\ r.org # None))
    BY <1>2 DEF UserRec
  <2>4. y = [sub |-> TRUE, role |-> a, obj |-> b, org |-> c]
    OBVIOUS
  <2> HIDE DEF a, b, c, y, role
  <2>5. y \in UserRec /\ y.sub = TRUE /\ y.role = a /\ y.obj = b /\ y.org = c
    BY <2>1, <2>2, <2>3, <2>4 DEF UserRec
  <2> QED
    BY <2>2, <2>3, <2>5 DEF a
<1>6. Moves(w) /\ work'[w] = Over(w)
  BY <1>1, WorkMoves DEF Inv
<1>7. /\ Job(work[w])' /\ Met(work[w])' /\ Owns(work[w])' /\ Follows(work[w])'
      /\ work'[w].pc \in {"idle", "ack"}
  <2>1. work[w].login \in BOOLEAN
    BY <1>1, <1>2 DEF Job
  <2> QED
    BY <1>2, <1>6, <2>1, OverIsOver
<1> HIDE DEF y, role
<1>8. /\ user' \in [Users -> UserRec \cup {NoUser}] /\ user'[u] = y
      /\ \A z \in Users : z # u => user'[z] = user[z]
  BY <1>2, <1>3, <1>5 DEF Inv, Types
<1>9. RoleIsLinked'
  <2> SUFFICES ASSUME NEW z \in Users
               PROVE  \/ ~ user'[z].sub \/ z \in stale'
                      \/ \E v \in Workers : work'[v].pc = "link" /\ work'[v].m.of = z
                      \/ user'[z].obj = user'[z].role
    BY DEF RoleIsLinked
  <2>1. CASE z = u
    <3>1. CASE user[u] # seen
      BY <1>1, <2>1, <3>1
    <3>2. CASE user[u] = seen
      <4>1. y.role = role /\ y.obj = role
        BY <1>5, <3>2 DEF Flush
      <4> QED
        BY <1>8, <2>1, <4>1
    <3> QED
      BY <3>1, <3>2
  <2>2. CASE z # u
    <3>1. CASE \E v \in Workers : work[v].pc = "link" /\ work[v].m.of = z
      <4>1. PICK v \in Workers : work[v].pc = "link" /\ work[v].m.of = z
        BY <3>1
      <4>2. work'[v] = work[v]
        BY <1>1, <1>6, <4>1 DEF Moves
      <4> QED
        BY <4>1, <4>2
    <3>2. CASE ~ user[z].sub \/ z \in stale \/ user[z].obj = user[z].role
      BY <1>1, <1>8, <2>2, <3>2
    <3> QED
      BY <3>1, <3>2 DEF Inv, RoleIsLinked
  <2> QED
    BY <2>1, <2>2
<1>10. stale' \subseteq Users
  BY <1>1, <1>2, SMTT(60) DEF Inv, Types
<1>11. \/ user'[u].org = user[u].org
       \/ Exists(user'[u].org) /\ (~ Reused => Own(org[user'[u].org], Home[u]))
  BY <1>1, <1>2, <1>5, <1>8 DEF Owns
<1>12. \A z \in Users : user[z] \in UserRec => user'[z] \in UserRec
  BY <1>5, <1>8
<1> HIDE DEF r, u, seen
<1> QED
  BY <1>1, <1>2, <1>6, <1>7, <1>8, <1>9, <1>10, <1>11, <1>12, UserStep

\* A user is created; its handler will link it to its role.
LEMMA UserInsertKeeps ==
    ASSUME Inv, NEW w \in Workers, UserInsert(w)
    PROVE  Inv'
<1> USE MirrorAssumption
<1> DEFINE r == work[w]
           u == r.m.of
           role == map_global_roles_to_isp_role(r.m.role)
           y == [sub |-> TRUE, role |-> role, obj |-> None,
                 org |-> IF r.m.role = "owner" THEN None ELSE r.org]
           x == [pc |-> "link", m |-> r.m, login |-> r.login, seen |-> user'[u]]
<1>1. /\ r.pc = "user" /\ r.seen = NoUser /\ ~ Known(u)
      /\ user' = [user EXCEPT ![u] = y] /\ work' = [work EXCEPT ![w] = x]
      /\ UNCHANGED <<tenant, events, org, trials, seq, holders, saved, late, stale>>
  BY SMTT(60) DEF UserInsert, counters
<1>2. /\ Job(r) /\ (~ Reused => Owns(r))
      /\ Claimed(r.m) /\ u \in Users /\ r.m.role \in Roles /\ r.m.t = Home[u]
      /\ r.login \in BOOLEAN
      /\ r.org \in Orgs \cup {None} /\ (r.org # None => Exists(r.org))
  BY <1>1 DEF Inv, Handling, Owned, Job, Claimed, UserMsg
<1>3. role \in DOMAIN Rank
  BY <1>2 DEF map_global_roles_to_isp_role, Rank
<1>4. y \in UserRec /\ (y.org = None \/ (y.org = r.org /\ r.org # None))
  <2> DEFINE c == IF r.m.role = "owner" THEN None ELSE r.org
  <2>1. c \in Orgs \cup {None} /\ (c = None \/ (c = r.org /\ r.org # None))
    BY <1>2
  <2>2. y = [sub |-> TRUE, role |-> role, obj |-> None, org |-> c]
    OBVIOUS
  <2> HIDE DEF c, y, role
  <2>3. y \in UserRec /\ y.org = c
    BY <1>3, <2>1, <2>2 DEF UserRec
  <2> QED
    BY <2>1, <2>3
<1>5. x.pc = "link" /\ x.m = r.m /\ x.login = r.login /\ x.seen = user'[u]
  OBVIOUS
<1>6. Moves(w) /\ work'[w] = x
  <2> HIDE DEF x
  <2> QED
    BY <1>1 DEF Moves, Inv, Types
<1> HIDE DEF y, role, x
<1>7. /\ user' \in [Users -> UserRec \cup {NoUser}] /\ user'[u] = y
      /\ \A z \in Users : z # u => user'[z] = user[z]
  BY <1>1, <1>2, <1>4 DEF Inv, Types
<1>8. Claimed(work[w].m)'
  BY <1>1, <1>2, <1>5, <1>6 DEF Claimed
<1>9. Job(work[w])' /\ Met(work[w])' /\ Owns(work[w])' /\ Follows(work[w])'
  BY <1>2, <1>4, <1>5, <1>6, <1>7, <1>8 DEF Job, Met, Owns, Follows, OfTenant
<1>10. RoleIsLinked'
  <2> SUFFICES ASSUME NEW z \in Users
               PROVE  \/ ~ user'[z].sub \/ z \in stale'
                      \/ \E v \in Workers : work'[v].pc = "link" /\ work'[v].m.of = z
                      \/ user'[z].obj = user'[z].role
    BY DEF RoleIsLinked
  <2>1. CASE z = u
    BY <1>5, <1>6, <2>1
  <2>2. CASE z # u
    <3>1. CASE \E v \in Workers : work[v].pc = "link" /\ work[v].m.of = z
      <4>1. PICK v \in Workers : work[v].pc = "link" /\ work[v].m.of = z
        BY <3>1
      <4>2. work'[v] = work[v]
        BY <1>1, <1>6, <4>1 DEF Moves
      <4> QED
        BY <4>1, <4>2
    <3>2. CASE ~ user[z].sub \/ z \in stale \/ user[z].obj = user[z].role
      BY <1>1, <1>7, <2>2, <3>2
    <3> QED
      BY <3>1, <3>2 DEF Inv, RoleIsLinked
  <2> QED
    BY <2>1, <2>2
<1>11. \/ user'[u].org = None
       \/ Exists(user'[u].org) /\ (~ Reused => Own(org[user'[u].org], Home[u]))
  BY <1>1, <1>2, <1>4, <1>7 DEF Owns
<1>12. \A z \in Users : user[z] \in UserRec => user'[z] \in UserRec
  BY <1>4, <1>7
<1>13. stale' \subseteq Users /\ work'[w].pc # "trial"
  BY <1>1, <1>5, <1>6 DEF Inv, Types
<1> HIDE DEF r, u
<1> QED
  BY <1>1, <1>2, <1>6, <1>7, <1>9, <1>10, <1>11, <1>12, <1>13, UserStep

\* The user is linked to the role it had when it was created.
LEMMA UserLinkKeeps ==
    ASSUME Inv, NEW w \in Workers, UserLink(w)
    PROVE  Inv'
<1> USE MirrorAssumption
<1> DEFINE r == work[w]
           u == r.m.of
           y == [user[u] EXCEPT !.obj = r.seen.role]
<1>1. /\ r.pc = "link" /\ user' = [user EXCEPT ![u].obj = r.seen.role]
      /\ stale' = IF user[u] # r.seen THEN stale \cup {u} ELSE stale
      /\ work' = [work EXCEPT ![w] = Over(w)]
      /\ UNCHANGED <<tenant, events, org, trials, seq, holders, saved, late>>
  BY SMTT(60) DEF UserLink, counters, _sync_role_obj
<1>2. /\ Claimed(r.m) /\ u \in Users /\ r.login \in BOOLEAN /\ r.seen \in UserRec
      /\ Met(r)
  BY <1>1 DEF Inv, Handling, Job, Claimed, UserMsg
<1>3. user[u] \in UserRec
  <2>1. CASE r.seen # NoUser
    BY <1>1, <1>2, <2>1 DEF Met
  <2>2. CASE r.seen = NoUser
    <3>1. NoUser \in UserRec
      BY <1>2, <2>2
    <3> QED
      BY <1>2, <3>1 DEF Inv, Types
  <2> QED
    BY <2>1, <2>2
<1>4. user' = [user EXCEPT ![u] = y]
  BY <1>1, <1>2 DEF Inv, Types
<1>5. /\ y \in UserRec /\ y.obj = r.seen.role /\ y.role = user[u].role /\ y.org = user[u].org
  <2> DEFINE a == r.seen.role
             b == user[u]
  <2>1. a \in DOMAIN Rank /\ b \in UserRec
    BY <1>2, <1>3 DEF UserRec
  <2>2. y = [b EXCEPT !.obj = a]
    OBVIOUS
  <2> HIDE DEF a, b, y
  <2>3. y \in UserRec /\ y.obj = a /\ y.role = b.role /\ y.org = b.org
    BY <2>1, <2>2 DEF UserRec
  <2> QED
    BY <2>3 DEF a, b
<1>6. Moves(w) /\ work'[w] = Over(w)
  BY <1>1, WorkMoves DEF Inv
<1>7. /\ Job(work[w])' /\ Met(work[w])' /\ Owns(work[w])' /\ Follows(work[w])'
      /\ work'[w].pc \in {"idle", "ack"}
  BY <1>2, <1>6, OverIsOver
<1> HIDE DEF y
<1>8. /\ user' \in [Users -> UserRec \cup {NoUser}] /\ user'[u] = y
      /\ \A z \in Users : z # u => user'[z] = user[z]
  BY <1>2, <1>4, <1>5 DEF Inv, Types
<1>9. RoleIsLinked'
  <2> SUFFICES ASSUME NEW z \in Users
               PROVE  \/ ~ user'[z].sub \/ z \in stale'
                      \/ \E v \in Workers : work'[v].pc = "link" /\ work'[v].m.of = z
                      \/ user'[z].obj = user'[z].role
    BY DEF RoleIsLinked
  <2>1. CASE z = u
    <3>1. CASE user[u] # r.seen
      BY <1>1, <2>1, <3>1
    <3>2. CASE user[u] = r.seen
      BY <1>5, <1>8, <2>1, <3>2
    <3> QED
      BY <3>1, <3>2
  <2>2. CASE z # u
    <3>1. CASE \E v \in Workers : work[v].pc = "link" /\ work[v].m.of = z
      <4>1. PICK v \in Workers : work[v].pc = "link" /\ work[v].m.of = z
        BY <3>1
      <4>2. work'[v] = work[v]
        BY <1>6, <2>2, <4>1, SMTT(60) DEF Moves
      <4> QED
        BY <4>1, <4>2
    <3>2. CASE ~ user[z].sub \/ z \in stale \/ user[z].obj = user[z].role
      BY <1>1, <1>8, <2>2, <3>2
    <3> QED
      BY <3>1, <3>2 DEF Inv, RoleIsLinked
  <2> QED
    BY <2>1, <2>2
<1>10. stale' \subseteq Users
  BY <1>1, <1>2 DEF Inv, Types
<1>11. user'[u].org = user[u].org
  BY <1>5, <1>8
<1>12. \A z \in Users : user[z] \in UserRec => user'[z] \in UserRec
  BY <1>5, <1>8
<1> HIDE DEF r, u
<1> QED
  BY <1>1, <1>2, <1>6, <1>7, <1>8, <1>9, <1>10, <1>11, <1>12, UserStep

\* auth-api goes on, and publishes what it did.
LEMMA AuthStep ==
    ASSUME Inv, Types', Messages', Grows, UNCHANGED <<org, user, work, trials, saved, late, stale>>,
           ~ Reused' => AllSaved'
    PROVE  Inv'
<1>1. RowsStay /\ Stays
  BY SameRows DEF Inv
<1>2. Table'
  BY DEF Inv, Table, Exists, Sound
<1>3. ASSUME NEW v \in Workers
      PROVE  Job(work[v])' /\ (~ Reused' => Owns(work[v])' /\ Follows(work[v])')
  BY <1>1, OthersKept
<1>4. \A v \in Workers : Met(work[v])'
  BY DEF Met, Inv, Handling
<1>5. ASSUME NEW u \in Users, user[u].org # None
      PROVE  Exists(user[u].org)' /\ (~ Reused' => Own(org[user[u].org], Home[u])')
  BY <1>1, <1>5, UserKept
<1>6. Handling'
  BY <1>3, <1>4, <1>5 DEF Handling
<1>7. Owned'
  <2> SUFFICES ASSUME ~ Reused'
               PROVE  \A o \in Orgs : org[o].auth # None => Held(org[o].slug, org[o].auth)'
    BY <1>3, <1>5 DEF Owned
  <2>1. ~ Reused
    BY ReusedStays
  <2>2. \A o \in Orgs : org[o].auth # None => Held(org[o].slug, org[o].auth)
    BY <2>1 DEF Inv, Owned
  <2> QED
    BY <2>2 DEF Held, Grows
<1>8. Names'
  <2> SUFFICES ASSUME ~ Reused'
               PROVE  RowNames'
    BY <1>3 DEF Names
  <2>1. RowNames
    BY ReusedStays DEF Inv, Names
  <2>2. ASSUME NEW t \in Tenants
        PROVE  saved[t] \cap tenant'[t].said = saved[t] \cap tenant[t].said
    <3>1. saved[t] \subseteq 1 .. tenant[t].ver /\ tenant[t].ver \in Nat
      BY DEF Inv, Messages, Types, TenantRec
    <3>2. \A v \in 0 .. tenant[t].ver : v \in tenant[t].said <=> v \in tenant'[t].said
      BY DEF Grows
    <3> QED
      BY <3>1, <3>2
  <2>3. ASSUME NEW o \in Orgs, org[o].auth # None, org[o].auth \notin late
        PROVE  Shown(org[o], org[o].auth)'
    <3>1. org[o].auth \in Tenants
      BY <2>3 DEF Inv, Types, OrgRec
    <3>2. Shown(org[o], org[o].auth)
      BY <2>1, <2>3 DEF RowNames
    <3> QED
      BY <2>2, <3>1, <3>2 DEF Shown
  <2> QED
    BY <2>1, <2>3 DEF RowNames
<1>9. Trials'
  <2>1. ~ Reused' => ~ Reused /\ LinksStay
    BY <1>1, ReusedStays DEF Stays
  <2> QED
    BY <2>1, TrialsKept DEF Inv
<1>10. RoleIsLinked'
  BY LinksKept DEF Inv
<1> QED
  BY <1>2, <1>6, <1>7, <1>8, <1>9, <1>10 DEF Inv

\* A tenant is created or changed.
LEMMA TenantChangesKeeps ==
    ASSUME Inv, NEW t \in Tenants, NEW s \in Slugs, NEW told \in BOOLEAN,
           NEW named \in BOOLEAN, TenantChanges(t, s, told, named)
    PROVE  Inv'
<1> USE MirrorAssumption
<1> DEFINE c == [slug |-> s, ver |-> tenant[t].ver + 1,
                 said |-> IF named THEN tenant[t].said \cup {tenant[t].ver + 1}
                                   ELSE tenant[t].said]
           e == [kind |-> "tenant", id |-> seq, of |-> t, ver |-> tenant'[t].ver,
                 slug |-> IF told THEN s ELSE None, named |-> named]
<1>1. /\ tenant' = [tenant EXCEPT ![t] = c] /\ events' = events \cup {e} /\ seq' = seq + 1
      /\ holders' = holders \cup {<<s, t>>}
      /\ UNCHANGED <<org, user, work, trials, saved, late, stale>>
  BY DEF TenantChanges, Inv, Types
<1>2. seq \in Nat /\ tenant[t].ver \in Nat /\ tenant[t].said \in SUBSET Nat
  BY DEF Inv, Types, TenantRec
<1>3. /\ c \in TenantRec /\ c.slug = s /\ c.ver = tenant[t].ver + 1
      /\ c.said = IF named THEN tenant[t].said \cup {tenant[t].ver + 1} ELSE tenant[t].said
  <2>1. PICK k : k = IF named THEN tenant[t].said \cup {tenant[t].ver + 1} ELSE tenant[t].said
    OBVIOUS
  <2>2. k \in SUBSET Nat
    BY <1>2, <2>1
  <2>3. c = [slug |-> s, ver |-> tenant[t].ver + 1, said |-> k]
    BY <2>1
  <2> HIDE DEF c
  <2> QED
    BY <1>2, <2>1, <2>2, <2>3 DEF TenantRec
<1> HIDE DEF c
<1>4. /\ tenant' \in [Tenants -> TenantRec]
      /\ tenant'[t] = c /\ \A y \in Tenants : y # t => tenant'[y] = tenant[y]
  BY <1>1, <1>3 DEF Inv, Types
<1>5. /\ e \in TenantMsg /\ e.kind = "tenant" /\ e.of = t /\ e.ver = tenant'[t].ver
      /\ e.slug \in {s, None} /\ e.named = named
  <2> DEFINE n == tenant'[t].ver
             k == IF told THEN s ELSE None
  <2>1. n \in Nat /\ k \in Slugs \cup {None} /\ k \in {s, None}
    BY <1>2, <1>3, <1>4
  <2>2. e = [kind |-> "tenant", id |-> seq, of |-> t, ver |-> n, slug |-> k, named |-> named]
    OBVIOUS
  <2> HIDE DEF n, k, e
  <2>3. /\ e \in TenantMsg /\ e.kind = "tenant" /\ e.of = t /\ e.ver = n /\ e.slug = k
        /\ e.named = named
    BY <1>2, <2>1, <2>2 DEF TenantMsg
  <2> QED
    BY <2>1, <2>3 DEF n
<1> HIDE DEF e
<1>6. Types'
  <2>1. events' \subseteq TenantMsg \cup UserMsg /\ holders' \subseteq Slugs \X Tenants /\ seq' \in Nat
    BY <1>1, <1>2, <1>5 DEF Inv, Types
  <2> QED
    BY <1>1, <1>4, <2>1 DEF Inv, Types
<1>7. Grows
  <2>1. \A v \in 0 .. tenant[t].ver : v \in tenant[t].said <=> v \in c.said
    BY <1>2, <1>3
  <2> QED
    BY <1>1, <1>2, <1>3, <1>4, <2>1 DEF Grows, Inv, Types, TenantRec
<1>8. Messages'
  <2>1. \A y \in Tenants : tenant'[y].slug # None => <<tenant'[y].slug, y>> \in holders'
    BY <1>1, <1>3, <1>4 DEF Inv, Messages
  <2>s. \A y \in Tenants : saved[y] \cup tenant'[y].said \subseteq 1 .. tenant'[y].ver
    <3>1. \A y \in Tenants : saved[y] \cup tenant[y].said \subseteq 1 .. tenant[y].ver
      BY DEF Inv, Messages
    <3> QED
      BY <1>2, <1>3, <1>4, <3>1
  <2>2. ASSUME NEW m \in events'
        PROVE  IF m.kind = "tenant" THEN Published(m)' ELSE Claimed(m)'
    <3>1. CASE m \in events
      BY <1>6, <1>7, <3>1, MessageKept DEF Inv, Messages
    <3>2. CASE m = e
      <4>1. named <=> c.ver \in c.said
        <5>1. tenant[t].ver + 1 \notin tenant[t].said
          BY <1>2 DEF Inv, Messages
        <5> QED
          BY <1>3, <5>1
      <4> QED
        BY <1>1, <1>2, <1>3, <1>4, <1>5, <3>2, <4>1 DEF Published
    <3> QED
      BY <1>1, <3>1, <3>2
  <2> QED
    BY <1>1, <2>1, <2>s, <2>2 DEF Messages
<1>9. ASSUME ~ Reused'
      PROVE  AllSaved'
  <2>1. AllSaved
    BY <1>7, <1>9, ReusedStays DEF Inv, Names
  <2>2. SUFFICES ASSUME NEW y \in Tenants, NEW v \in 1 .. tenant'[y].ver
                 PROVE  \/ v \in saved[y]
                        \/ \E m \in events' : m.kind = "tenant" /\ m.of = y /\ m.ver = v
    BY <1>1 DEF AllSaved
  <2>3. CASE y = t /\ v = tenant'[t].ver
    BY <1>1, <1>5, <2>3
  <2>4. CASE y # t \/ v # tenant'[t].ver
    <3>1. v \in 1 .. tenant[y].ver
      BY <1>2, <1>3, <1>4, <2>4
    <3> QED
      BY <1>1, <2>1, <3>1 DEF AllSaved
  <2> QED
    BY <2>3, <2>4
<1> QED
  BY <1>1, <1>6, <1>7, <1>8, <1>9, AuthStep

\* A user is created or changed.
LEMMA UserChangesKeeps ==
    ASSUME Inv, NEW u \in Users, NEW r \in Roles, UserChanges(u, r)
    PROVE  Inv'
<1> DEFINE e == Claims(u, r, seq)
<1>1. /\ tenant[Home[u]].slug # None /\ events' = events \cup {e} /\ seq' = seq + 1
      /\ UNCHANGED <<tenant, org, user, work, trials, holders, saved, late, stale>>
  BY DEF UserChanges
<1>2. seq \in Nat
  BY DEF Inv, Types
<1>3. Claimed(e) /\ e.kind = "user" /\ e \in UserMsg
  <2>1. Claimed(e)
    BY <1>1, <1>2, ClaimsAreClaimed
  <2> QED
    BY <2>1 DEF Claimed, UserMsg
<1> HIDE DEF e
<1>4. Types'
  BY <1>1, <1>2, <1>3 DEF Inv, Types
<1>5. Grows
  BY <1>1 DEF Grows, Inv, Types, TenantRec
<1>6. Messages'
  BY <1>1, <1>3 DEF Inv, Messages, Published, Claimed
<1>7. ~ Reused' => AllSaved'
  BY <1>1, <1>5, ReusedStays DEF Inv, Names, AllSaved
<1> QED
  BY <1>1, <1>4, <1>5, <1>6, <1>7, AuthStep

\* A row is written that clashes with no other: the next one, or one that is there.
Writes(o, x) ==
    /\ o \in Orgs /\ (Exists(o) \/ (~ Full /\ o = NewRow))
    /\ Sound(o, x) /\ org' = [org EXCEPT ![o] = x]
    /\ \A y \in Orgs : y # o /\ Exists(y) => org[y].uuid # x.uuid /\ org[y].slug # x.slug

\* The table stays sound.
LEMMA WriteKeepsTable ==
    ASSUME Types, Table, NEW o, NEW x, Writes(o, x)
    PROVE  /\ org' \in [Orgs -> OrgRec] /\ org'[o] = x
           /\ \A y \in Orgs : y # o => org'[y] = org[y]
           /\ Exists(o)' /\ \A y \in Orgs : Exists(y) => Exists(y)'
           /\ Table'
<1> USE MirrorAssumption
<1>1. /\ org' \in [Orgs -> OrgRec] /\ org'[o] = x
      /\ \A y \in Orgs : y # o => org'[y] = org[y]
  BY DEF Writes, Types, Sound
<1>2. NoOrg.uuid = None /\ x.uuid # None
  BY DEF NoOrg, Writes, Sound
<1>3. Exists(o)'
  BY <1>1, <1>2 DEF Exists
<1>4. \A y \in Orgs : Exists(y)' <=> Exists(y) \/ y = o
  BY <1>1, <1>3 DEF Exists, Writes
<1>5. \A y \in Orgs : Exists(y)' => Sound(y, org'[y])
  BY <1>1, <1>4, RowShape DEF Writes
<1>6. \A y \in Orgs : ~ Exists(y)' => org'[y] = NoOrg
  BY DEF Exists
<1>7. \E k \in 0 .. Rows : \A y \in Orgs : Exists(y)' <=> y <= k
  <2>1. PICK k \in 0 .. Rows :
           \A y \in Orgs : IF y <= k THEN Sound(y, org[y]) ELSE org[y] = NoOrg
    BY DEF Table
  <2>2. \A y \in Orgs : Exists(y) <=> y <= k
    BY <1>2, <2>1 DEF Exists, Sound
  <2>3. CASE Exists(o)
    BY <1>4, <2>2, <2>3
  <2>4. CASE ~ Full /\ o = NewRow /\ ~ Exists(o)
    <3>1. o \in Orgs /\ \A y \in Orgs : Exists(y) <=> y < o
      BY <2>4, RowShape
    <3>2. o \in 0 .. Rows
      BY <3>1 DEF Orgs
    <3>3. \A y \in Orgs : Exists(y)' <=> y <= o
      BY <1>4, <3>1 DEF Orgs
    <3> QED
      BY <3>2, <3>3
  <2> QED
    BY <2>3, <2>4 DEF Writes
<1>8. \E k \in 0 .. Rows : \A y \in Orgs : IF y <= k THEN Sound(y, org'[y]) ELSE org'[y] = NoOrg
  BY <1>5, <1>6, <1>7
<1>9. \A y, z \in Orgs : Exists(y)' /\ Exists(z)' /\ y # z =>
          org'[y].uuid # org'[z].uuid /\ org'[y].slug # org'[z].slug
  BY <1>1, <1>4 DEF Table, Writes
<1>10. Table'
  BY <1>8, <1>9 DEF Table, Sound
<1> QED
  BY <1>1, <1>3, <1>4, <1>10

\* A new organization with a slug that is free, not linked to a tenant.
Local(o, slug) == [uuid |-> o, auth |-> None, slug |-> slug, name |-> 0]
LEMMA LocalRow ==
    ASSUME Inv, ~ Full, NEW s \in Slugs, NEW n \in Nat, <<s, n>> \notin Taken, Grows,
           NEW o, o = NewRow, org' = [org EXCEPT ![o] = Local(o, <<s, n>>)]
    PROVE  /\ org' \in [Orgs -> OrgRec] /\ Table' /\ RowsStay /\ Stays
           /\ o \in Orgs /\ org'[o].auth = None /\ org'[o].slug[1] = s /\ Exists(o)'
           /\ \A y \in Orgs : y # o => org'[y] = org[y]
<1> USE MirrorAssumption
<1> DEFINE x == Local(o, <<s, n>>)
<1>1. o \in Orgs /\ ~ Exists(o) /\ org[o] = NoOrg
  BY RowShape DEF Inv
<1>2. x.uuid = o /\ x.auth = None /\ x.slug = <<s, n>> /\ x.name = 0
  BY DEF Local
<1>3. org' = [org EXCEPT ![o] = x]
  OBVIOUS
<1>4. x \in OrgRec
  <2>1. <<s, n>> \in Slug
    BY DEF Slug, Bases
  <2> QED
    BY <1>1, <2>1 DEF OrgRec, Local
<1> HIDE DEF x
<1>5. Sound(o, x)
  <2>1. o # None /\ <<s, n>>[1] = s
    BY <1>1 DEF Orgs
  <2>2. x.slug \in Slug
    BY <1>2 DEF Slug, Bases
  <2> QED
    BY <1>2, <1>4, <2>1, <2>2 DEF Sound
<1>6. Writes(o, x)
  <2>1. ASSUME NEW y \in Orgs, y # o, Exists(y)
        PROVE  org[y].uuid # x.uuid /\ org[y].slug # x.slug
    <3>1. Sound(y, org[y])
      BY <2>1, RowShape DEF Inv
    <3>2. org[y].uuid # o
      BY <1>1, <2>1, <3>1 DEF Sound, OrgRec, Orgs
    <3>3. org[y].slug # <<s, n>>
      BY <2>1 DEF Taken
    <3> QED
      BY <1>2, <3>2, <3>3
  <2> QED
    BY <1>1, <1>3, <1>5, <2>1 DEF Writes
<1>7. /\ org' \in [Orgs -> OrgRec] /\ org'[o] = x
      /\ \A y \in Orgs : y # o => org'[y] = org[y]
      /\ Exists(o)' /\ \A y \in Orgs : Exists(y) => Exists(y)'
      /\ Table'
  BY <1>6, WriteKeepsTable DEF Inv
<1>8. \A y \in Orgs : Exists(y) => org'[y] = org[y]
  BY <1>1, <1>7
<1>9. \A y \in Orgs : org[y].auth # None => Exists(y)
  BY DEF Exists, NoOrg
<1>10. RowsStay
  BY <1>7, <1>8 DEF RowsStay
<1>11. Stays
  <2>1. OwnersStay
    BY <1>8 DEF OwnersStay, Own, Grows
  <2>2. LinksStay
    BY <1>8, <1>9 DEF LinksStay
  <2> QED
    BY <2>1, <2>2 DEF Stays
<1>12. x.slug[1] = s
  BY <1>2
<1> QED
  BY <1>1, <1>2, <1>7, <1>10, <1>11, <1>12

\* A user is unchanged, or new in organization o that was created for s.
Joins(o, s) ==
    /\ holders' \subseteq Slugs \X Tenants
    /\ user' \in [Users -> UserRec \cup {NoUser}]
    /\ \A y \in Users :
          \/ user'[y] = user[y]
          \/ /\ user'[y] \in UserRec /\ ~ user'[y].sub
             /\ user'[y].org = o /\ <<s, Home[y]>> \in holders'

\* complete_registration adds the administrator to the new organization.
LEMMA RegistrationJoins ==
    ASSUME Inv, NEW s \in Slugs, NEW u \in Users, complete_registration(s, u),
           NEW o \in Orgs, o = NewRow
    PROVE  Joins(o, s)
<1> USE MirrorAssumption
<1> DEFINE x == [sub |-> FALSE, role |-> "admin", obj |-> None, org |-> o]
<1>1. user' = [user EXCEPT ![u] = x] /\ holders' = holders \cup {<<s, Home[u]>>}
  BY DEF complete_registration
<1>2. x \in UserRec /\ ~ x.sub /\ x.org = o
  BY DEF UserRec, Rank
<1> HIDE DEF x
<1>3. Home[u] \in Tenants
  OBVIOUS
<1>4. /\ user' \in [Users -> UserRec \cup {NoUser}] /\ user'[u] = x
      /\ \A y \in Users : y # u => user'[y] = user[y]
  BY <1>1, <1>2 DEF Inv, Types
<1> QED
  BY <1>1, <1>2, <1>3, <1>4 DEF Joins, Inv, Types

\* A new organization that is not linked keeps all the rest.
LEMMA LocalStep ==
    ASSUME Inv, NEW s \in Slugs, NEW o \in Orgs, Joins(o, s), Grows,
           UNCHANGED <<tenant, events, work, trials, seq, saved, late, stale>>,
           org' \in [Orgs -> OrgRec], Table', RowsStay, Stays,
           org'[o].auth = None, org'[o].slug[1] = s, Exists(o)',
           \A y \in Orgs : y # o => org'[y] = org[y]
    PROVE  Inv'
<1> USE MirrorAssumption
<1>1. Types'
  BY DEF Inv, Types, Joins
<1>2. Messages'
  <2>1. \A m : (Published(m) => Published(m)') /\ (Claimed(m) => Claimed(m)')
    BY <1>1, MessageKept DEF Inv
  <2> QED
    BY <2>1 DEF Inv, Messages, Grows
<1>3. ASSUME NEW v \in Workers
      PROVE  Job(work[v])' /\ (~ Reused' => Owns(work[v])' /\ Follows(work[v])')
  BY <1>1, OthersKept
<1>4. \A v \in Workers : Met(work[v])'
  <2>1. \A y \in Users : user[y] \in UserRec => user'[y] \in UserRec
    BY DEF Joins
  <2>2. \A v \in Workers : work[v].pc \in {"user", "link"} => work[v].m.of \in Users
    BY DEF Inv, Handling, Job, Claimed, UserMsg
  <2> QED
    BY <2>1, <2>2 DEF Met, Inv, Handling
<1>5. ASSUME NEW u \in Users, user'[u].org # None
      PROVE  Exists(user[u].org)' /\ (~ Reused' => Own(org[user[u].org], Home[u])')
  <2>1. CASE user'[u] = user[u]
    BY <1>5, <2>1, UserKept
  <2>2. CASE user'[u].org = o /\ <<s, Home[u]>> \in holders'
    BY <2>2 DEF Own, Exists
  <2> QED
    BY <2>1, <2>2 DEF Joins
<1>6. Handling'
  BY <1>3, <1>4, <1>5 DEF Handling
<1>7. ASSUME ~ Reused'
      PROVE  /\ \A y \in Orgs : org'[y].auth # None => Held(org[y].slug, org[y].auth)'
             /\ RowNames' /\ AllSaved'
  <2>1. ~ Reused
    BY <1>7, ReusedStays
  <2>2. ASSUME NEW y \in Orgs, org'[y].auth # None
        PROVE  org'[y] = org[y] /\ Held(org[y].slug, org[y].auth)'
    <3>1. org'[y] = org[y]
      BY <2>2
    <3> QED
      BY <2>1, <2>2, <3>1 DEF Inv, Owned, Held, Grows
  <2>3. RowNames /\ AllSaved
    BY <2>1 DEF Inv, Names
  <2>4. \A t \in Tenants : \A y \in Orgs : org[y].auth = t => org'[y].auth = t
    BY DEF Stays, LinksStay
  <2>5. RowNames'
    <3>1. ASSUME NEW y \in Orgs, org'[y].auth # None
          PROVE  /\ org'[y].name > 0 => org'[y].name \in saved'[org'[y].auth]
                 /\ org'[y].auth \notin late' => Shown(org[y], org[y].auth)'
      <4>1. org'[y] = org[y] /\ org[y].auth # None
        BY <2>2, <3>1
      <4>2. /\ org[y].name > 0 => org[y].name \in saved[org[y].auth]
            /\ org[y].auth \notin late => Shown(org[y], org[y].auth)
        BY <2>3, <4>1 DEF RowNames
      <4> QED
        BY <4>1, <4>2 DEF Shown
    <3>2. \A t \in Tenants : saved'[t] # {} => \E y \in Orgs : org'[y].auth = t
      BY <2>3, <2>4 DEF RowNames
    <3> QED
      BY <3>1, <3>2 DEF RowNames
  <2>6. AllSaved'
    BY <2>3 DEF AllSaved
  <2> QED
    BY <2>2, <2>5, <2>6
<1>8. Owned'
  BY <1>3, <1>5, <1>7 DEF Owned
<1>9. Names'
  BY <1>3, <1>7 DEF Names
<1>10. Trials'
  <2>1. ~ Reused' => ~ Reused /\ LinksStay
    BY ReusedStays DEF Stays
  <2> QED
    BY <2>1, TrialsKept DEF Inv
<1>11. RoleIsLinked'
  BY DEF RoleIsLinked, Inv, Joins
<1> QED
  BY <1>1, <1>2, <1>6, <1>8, <1>9, <1>10, <1>11 DEF Inv

\* create_organization and complete_registration add such a row.
LEMMA LocalKeeps ==
    ASSUME Inv, NEW s \in Slugs,
           create_organization(s) \/ \E u \in Users : complete_registration(s, u)
    PROVE  Inv' /\ LinksStay
<1>1. PICK o : o = NewRow
  OBVIOUS
<1>2. PICK n \in Nat : <<s, n>> \notin Taken /\ org' = [org EXCEPT ![o] = Local(o, <<s, n>>)]
  <2>1. CASE create_organization(s)
    BY <1>1, <2>1 DEF create_organization, Local
  <2>2. CASE \E u \in Users : complete_registration(s, u)
    <3>1. PICK n \in Nat : FirstFree(s) = <<s, n>> /\ <<s, n>> \notin Taken
      BY FirstFreeIsFree DEF Inv
    <3> QED
      BY <1>1, <2>2, <3>1 DEF complete_registration, Local
  <2> QED
    BY <2>1, <2>2
<1>3. /\ ~ Full /\ UNCHANGED <<tenant, events, work, trials, seq, saved, late, stale>>
      /\ holders \subseteq holders'
  BY DEF create_organization, complete_registration
<1>4. Grows
  BY <1>3 DEF Grows, Inv, Types, TenantRec
<1>5. /\ org' \in [Orgs -> OrgRec] /\ Table' /\ RowsStay /\ Stays
      /\ o \in Orgs /\ org'[o].auth = None /\ org'[o].slug[1] = s /\ Exists(o)'
      /\ \A y \in Orgs : y # o => org'[y] = org[y]
  BY <1>1, <1>2, <1>3, <1>4, LocalRow, ZenonT(60)
<1>6. Joins(o, s)
  <2>1. CASE create_organization(s)
    BY <2>1 DEF create_organization, Joins, Inv, Types
  <2>2. ASSUME NEW u \in Users, complete_registration(s, u)
        PROVE  Joins(o, s)
    BY <1>1, <1>5, <2>2, RegistrationJoins
  <2> QED
    BY <2>1, <2>2
<1>7. Inv'
  BY <1>3, <1>4, <1>5, <1>6, LocalStep
<1> QED
  BY <1>5, <1>7 DEF Stays

\* A linked organization is renamed here: nothing is said of its name any more.
LEMMA RenameKeeps ==
    ASSUME Inv, NEW o \in Orgs, update_organization(o)
    PROVE  Inv' /\ LinksStay
<1> USE MirrorAssumption
<1>1. PICK x : x = [org[o] EXCEPT !.name = 0]
  OBVIOUS
<1>2. PICK t : t = org[o].auth
  OBVIOUS
<1>3. /\ t # None /\ org' = [org EXCEPT ![o] = x] /\ late' = late \cup {t}
      /\ UNCHANGED <<tenant, events, user, work, trials, seq, holders, saved, stale>>
  BY <1>1, <1>2 DEF update_organization, Inv, Types
<1>4. org[o] \in OrgRec /\ t \in Tenants /\ Exists(o)
  BY <1>2, <1>3 DEF Inv, Types, OrgRec, Exists, NoOrg
<1>5. /\ x \in OrgRec /\ x.uuid = org[o].uuid /\ x.auth = t /\ x.slug = org[o].slug
      /\ x.name = 0
  BY <1>1, <1>2, <1>4 DEF OrgRec
<1>6. Sound(o, x)
  <2>1. Sound(o, org[o])
    BY <1>4, RowShape DEF Inv
  <2> QED
    BY <1>2, <1>3, <1>5, <2>1 DEF Sound
<1>7. Writes(o, x)
  BY <1>3, <1>4, <1>5, <1>6 DEF Writes, Inv, Table
<1>8. /\ org' \in [Orgs -> OrgRec] /\ org'[o] = x
      /\ \A y \in Orgs : y # o => org'[y] = org[y]
      /\ \A y \in Orgs : Exists(y) => Exists(y)'
      /\ Table'
  BY <1>7, WriteKeepsTable DEF Inv
<1>9. \A y \in Orgs : org'[y].auth = org[y].auth /\ org'[y].slug = org[y].slug
  BY <1>2, <1>5, <1>8
<1>10. Types' /\ Grows /\ (Reused' <=> Reused)
  BY <1>3, <1>4, <1>8 DEF Inv, Types, Grows, TenantRec, Reused
<1>11. RowsStay /\ Stays
  BY <1>3, <1>8, <1>9 DEF RowsStay, Stays, OwnersStay, LinksStay, Own
<1>12. Messages'
  BY <1>3 DEF Inv, Messages, Published, Claimed
<1>13. ASSUME NEW v \in Workers
       PROVE  Job(work[v])' /\ (~ Reused' => Owns(work[v])' /\ Follows(work[v])')
  BY <1>3, <1>10, <1>11, OthersKept
<1>14. \A v \in Workers : Met(work[v])'
  BY <1>3 DEF Met, Inv, Handling
<1>15. ASSUME NEW u \in Users, user[u].org # None
       PROVE  Exists(user[u].org)' /\ (~ Reused' => Own(org[user[u].org], Home[u])')
  BY <1>3, <1>10, <1>11, <1>15, UserKept
<1>16. Handling'
  BY <1>3, <1>13, <1>14, <1>15 DEF Handling
<1>17. Owned'
  <2>1. ~ Reused => \A y \in Orgs : org'[y].auth # None => Held(org[y].slug, org[y].auth)'
    BY <1>3, <1>9 DEF Inv, Owned, Held
  <2> QED
    BY <1>3, <1>10, <1>13, <1>15, <2>1 DEF Owned
<1>18. Names'
  <2> SUFFICES ASSUME ~ Reused
               PROVE  RowNames' /\ AllSaved'
    BY <1>10, <1>13 DEF Names
  <2>1. RowNames /\ AllSaved
    BY DEF Inv, Names
  <2>2. ASSUME NEW y \in Orgs, org'[y].auth # None
        PROVE  /\ org'[y].name > 0 => org'[y].name \in saved[org'[y].auth]
               /\ org'[y].auth \notin late' => Shown(org[y], org[y].auth)'
    <3>1. CASE y = o
      BY <1>3, <1>5, <1>8, <3>1
    <3>2. CASE y # o
      <4>1. org'[y] = org[y]
        BY <1>8, <3>2
      <4> QED
        BY <1>3, <2>1, <2>2, <4>1 DEF RowNames, Shown
    <3> QED
      BY <3>1, <3>2
  <2> QED
    BY <1>3, <1>9, <2>1, <2>2 DEF RowNames, AllSaved
<1>19. Trials'
  BY <1>3, <1>10, <1>11, TrialsKept DEF Inv, Stays
<1>20. RoleIsLinked'
  BY <1>3, LinksKept DEF Inv
<1> QED
  BY <1>8, <1>10, <1>11, <1>12, <1>16, <1>17, <1>18, <1>19, <1>20 DEF Inv, Stays

\* The name that an event leads to.
Told(m) == IF m.named THEN m.ver ELSE IspProvider

\* What the commit of handler r leaves in row o: the link of a tenant, and, while no
\* slug is reused, of the tenant that the event is about.
Saved(r, o, x) ==
    /\ o \in Orgs /\ Sound(o, x) /\ x.auth \in Tenants
    /\ IF r.o = None THEN ~ Full /\ o = NewRow /\ ~ Exists(o) /\ x.uuid = r.m.of
                     ELSE Exists(o) /\ o = r.o
    /\ x.name = Told(r.m) \/ (r.o = o /\ x.name = org[o].name /\ r.seen.name = Told(r.m))
    /\ ~ Reused => /\ x.auth = r.m.of /\ Held(x.slug, r.m.of)
                   /\ Exists(o) => Own(org[o], r.m.of)

\* So does a handler that inserts.
LEMMA InsertIsSaved ==
    ASSUME Inv, NEW r, Job(r), r.pc = "save", ~ Reused => Owns(r), r.o = None, ~ Full,
           NEW o, o = NewRow, NEW x, x = Row(r.m, r.o, r.seen, r.slug)
    PROVE  Saved(r, o, x)
<1> USE MirrorAssumption
<1> DEFINE m == r.m
<1>1. /\ m.of \in Tenants /\ r.seen = NoOrg /\ r.slug \in Slug
      /\ Told(m) \in Int /\ Told(m) # 0
  BY DEF Job, OfTenant, Published, TenantMsg, Orgs, Told, IspProvider
<1>2. o \in Orgs /\ ~ Exists(o) /\ org[o] = NoOrg
  BY RowShape DEF Inv
<1>3. Target(r.o) = o
  BY DEF Target
<1>4. x = [uuid |-> m.of, auth |-> m.of, slug |-> r.slug, name |-> Told(m)]
  BY <1>1, <1>2, <1>3 DEF Row, Flush, Told, NoOrg
<1>5. x \in OrgRec /\ x.uuid = m.of /\ x.auth = m.of /\ x.slug = r.slug /\ x.name = Told(m)
  <2> HIDE DEF m
  <2> QED
    BY <1>1, <1>4 DEF OrgRec
<1>6. Sound(o, x)
  BY <1>1, <1>5 DEF Sound
<1>7. ~ Reused => Held(x.slug, m.of)
  BY <1>5 DEF Owns
<1> QED
  BY <1>1, <1>2, <1>5, <1>6, <1>7 DEF Saved

\* And one that updates: columns it did not change keep what another has written.
LEMMA UpdateIsSaved ==
    ASSUME Inv, NEW r, Job(r), r.pc = "save", ~ Reused => Owns(r), r.o # None,
           NEW o, o = r.o, NEW x, x = Row(r.m, r.o, r.seen, r.slug)
    PROVE  Saved(r, o, x)
<1> USE MirrorAssumption
<1> DEFINE m == r.m
           seen == r.seen
<1>1. /\ m.of \in Tenants /\ Told(m) \in Int /\ r.slug \in Slug
      /\ o \in Orgs /\ Exists(o) /\ Sound(o, seen)
      /\ seen.auth # None => org[o].auth # None
  BY DEF Job, OfTenant, Published, TenantMsg, Told, IspProvider
<1>2. Target(r.o) = o
  BY DEF Target
<1>3. x = [uuid |-> Flush(org[o].uuid, seen.uuid, m.of),
           auth |-> Flush(org[o].auth, seen.auth, m.of),
           slug |-> Flush(org[o].slug, seen.slug, r.slug),
           name |-> Flush(org[o].name, seen.name, Told(m))]
  BY <1>2 DEF Row, Told
<1>4. /\ x.uuid = Flush(org[o].uuid, seen.uuid, m.of)
      /\ x.auth = Flush(org[o].auth, seen.auth, m.of)
      /\ x.slug = Flush(org[o].slug, seen.slug, r.slug)
      /\ x.name = Flush(org[o].name, seen.name, Told(m))
  BY <1>3
<1>5. Sound(o, org[o]) /\ org[o] \in OrgRec
  BY <1>1, RowShape DEF Inv, Types
<1>6. seen.uuid = m.of <=> seen.auth = m.of
  BY <1>1 DEF Sound, Orgs
<1>7. /\ x.uuid = x.auth /\ x.auth \in Tenants
      /\ x.auth = m.of \/ (seen.auth = m.of /\ x.auth = org[o].auth)
  <2>1. CASE seen.auth = m.of
    <3>1. org[o].auth # None /\ org[o].auth \in Tenants /\ org[o].uuid = org[o].auth
      BY <1>1, <1>5, <2>1 DEF Sound, OrgRec
    <3> QED
      BY <1>4, <1>6, <2>1, <3>1 DEF Flush
  <2>2. CASE seen.auth # m.of
    BY <1>1, <1>4, <1>6, <2>2 DEF Flush
  <2> QED
    BY <2>1, <2>2
<1>8. x.slug \in {r.slug, org[o].slug} /\ x.slug \in Slug
  BY <1>1, <1>4, <1>5 DEF Flush, Sound
<1>9. x.name \in Int /\ (x.name = Told(m) \/ (x.name = org[o].name /\ seen.name = Told(m)))
  BY <1>1, <1>4, <1>5 DEF Flush, OrgRec
<1> HIDE DEF m, seen
<1>10. x \in OrgRec
  <2>1. x = [uuid |-> x.uuid, auth |-> x.auth, slug |-> x.slug, name |-> x.name]
    BY <1>3
  <2>2. x.uuid \in Tenants \cup Orgs \cup {None} /\ x.auth \in Tenants \cup {None}
        /\ x.slug \in Slug \cup {None} /\ x.name \in Int
    BY <1>7, <1>8, <1>9
  <2> QED
    BY ONLY <2>1, <2>2 DEF OrgRec
<1>11. Sound(o, x)
  BY <1>7, <1>8, <1>10 DEF Sound
<1>12. ASSUME ~ Reused
       PROVE  x.auth = m.of /\ Held(x.slug, m.of) /\ Own(org[o], m.of)
  <2>1. Own(org[o], m.of) /\ Held(r.slug, m.of)
    BY <1>12 DEF Owns, OfTenant, m
  <2>2. x.auth = m.of
    BY <1>1, <1>7, <2>1 DEF Own
  <2>3. Held(org[o].slug, m.of)
    BY <1>1, <1>12, <2>1 DEF Own, Held, Inv, Owned
  <2> QED
    BY <1>8, <2>1, <2>2, <2>3
<1> QED
  BY <1>1, <1>9, <1>7, <1>11, <1>12 DEF Saved, m, seen

\* The commit clashes with no other row: the table stays sound, rows stay, and while no
\* slug is reused they stay the tenants' own.
LEMMA SaveStays ==
    ASSUME Inv, NEW r, NEW o, NEW x, Saved(r, o, x), ~ Clashes(o, x), r.m.of \in Tenants,
           org' = [org EXCEPT ![o] = x], Grows, UNCHANGED holders
    PROVE  /\ org' \in [Orgs -> OrgRec] /\ org'[o] = x
           /\ \A y \in Orgs : y # o => org'[y] = org[y]
           /\ Table' /\ RowsStay /\ (~ Reused' => Stays)
<1> USE MirrorAssumption
<1>1. Writes(o, x)
  BY DEF Saved, Writes, Clashes
<1>2. /\ org' \in [Orgs -> OrgRec] /\ org'[o] = x
      /\ \A y \in Orgs : y # o => org'[y] = org[y]
      /\ \A y \in Orgs : Exists(y) => Exists(y)'
      /\ Table'
  BY <1>1, WriteKeepsTable DEF Inv
<1>3. RowsStay
  BY <1>2 DEF RowsStay, Saved
<1>4. ASSUME ~ Reused'
      PROVE  Stays
  <2>1. ~ Reused
    BY <1>4 DEF Reused
  <2>2. x.auth = r.m.of /\ (Exists(o) => Own(org[o], r.m.of))
    BY <2>1 DEF Saved
  <2>3. org[o].auth # None => Exists(o)
    BY DEF Exists, NoOrg
  <2>4. org[o].auth # None => org[o].auth = r.m.of
    BY <2>2, <2>3 DEF Own
  <2>5. LinksStay
    BY <1>2, <2>2, <2>4 DEF LinksStay
  <2>6. OwnersStay
    <3> SUFFICES ASSUME NEW y \in Orgs, NEW t \in Tenants, Exists(y), Own(org[y], t)
                 PROVE  Own(org[y], t)'
      BY DEF OwnersStay
    <3>1. CASE y # o
      BY <1>2, <3>1 DEF Own
    <3>2. CASE y = o
      <4>1. t = r.m.of
        BY <2>1, <2>2, <3>2, OneHolder DEF Own
      <4> QED
        BY <1>2, <2>2, <3>2, <4>1 DEF Own
    <3> QED
      BY <3>1, <3>2
  <2> QED
    BY <2>5, <2>6 DEF Stays
<1> QED
  BY <1>2, <1>3, <1>4

\* What is saved is shown, unless it was overtaken or the tenant was renamed here.
LEMMA SaveShows ==
    ASSUME Inv, NEW r, Job(r), r.pc = "save", ~ Reused, Owns(r), Follows(r),
           NEW o, NEW x, Saved(r, o, x), ~ Clashes(o, x), Types', UNCHANGED tenant,
           org'[o] = x, saved' = [saved EXCEPT ![r.m.of] = @ \cup {r.m.ver}]
    PROVE  /\ x.name > 0 => x.name \in saved'[r.m.of]
           /\ r.m.of \notin late /\ ~ Overtaken(r.m) => Shown(org[o], r.m.of)'
<1> USE MirrorAssumption
<1> DEFINE t == r.m.of
           n == r.m.ver
           said == tenant[t].said
           old == saved[t]
<1>1. /\ t \in Tenants /\ n \in Nat /\ n > 0 /\ Told(r.m) # 0
      /\ Told(r.m) = IF n \in said THEN n ELSE IspProvider
      /\ old \in SUBSET Nat /\ said \in SUBSET Nat
  BY DEF Job, OfTenant, Published, TenantMsg, Told, IspProvider, Inv, Types, TenantRec
<1>2. saved'[t] = old \cup {n}
  BY <1>1 DEF Inv, Types
<1>3. RowNames
  BY DEF Inv, Names
<1>4. ASSUME x.name # Told(r.m)
      PROVE  /\ o \in Orgs /\ org[o].auth = t /\ x.name = org[o].name
             /\ r.seen.name = Told(r.m) /\ (r.seen.name > 0 => r.seen.name \in old)
  <2>1. r.o = o /\ x.name = org[o].name /\ r.seen.name = Told(r.m)
    BY <1>4 DEF Saved
  <2>2. o \in Orgs /\ r.o # None /\ Sound(o, r.seen) /\ (r.seen.auth # None => org[o].auth # None)
    BY <2>1 DEF Job, OfTenant, Saved, Orgs
  <2>3. r.seen.auth = t /\ org[o].auth = t
    BY <1>1, <2>1, <2>2 DEF Sound, Owns, Own, OfTenant
  <2> QED
    BY <2>1, <2>2, <2>3 DEF Follows, OfTenant
<1>5. ASSUME old # {}
      PROVE  org[o].auth = t
  <2>1. PICK z \in Orgs : org[z].auth = t
    BY <1>1, <1>3, <1>5 DEF RowNames
  <2>2. Exists(z) /\ org[z].uuid = t
    BY <1>1, <2>1, RowShape DEF Inv, Sound, Exists, NoOrg
  <2>3. x.uuid = t
    BY <1>1 DEF Saved, Sound
  <2> QED
    BY <2>1, <2>2, <2>3 DEF Clashes, Saved
<1>6. x.name > 0 => x.name \in saved'[t]
  <2>1. CASE x.name = Told(r.m)
    BY <1>1, <1>2, <2>1 DEF IspProvider
  <2>2. CASE x.name # Told(r.m)
    BY <1>1, <1>2, <1>3, <1>4, <2>2 DEF RowNames
  <2> QED
    BY <2>1, <2>2
<1>7. ASSUME t \notin late, ~ Overtaken(r.m)
      PROVE  Shown(org[o], t)'
  <2>1. \A v \in old : v <= n
    BY <1>1, <1>7 DEF Overtaken
  <2>2. PICK told : told = old \cap said
    OBVIOUS
  <2>3. PICK now : now = (old \cup {n}) \cap said
    OBVIOUS
  <2>4. /\ \A v \in told : v \in now /\ v \in Nat /\ v <= n
        /\ \A v \in now : v \in told \/ (v = n /\ n \in said)
        /\ n \in said => n \in now
    BY <1>1, <2>1, <2>2, <2>3
  <2>5. SUFFICES /\ x.name = IspProvider \/ (x.name \in now /\ \A v \in now : v <= x.name)
                 /\ \A v \in now : (\A u \in old \cup {n} : u <= v) => x.name = v
    BY <1>2, <2>3 DEF Shown
  <2>6. old # {} => /\ org[o].name = IspProvider \/ (org[o].name \in told /\ \A v \in told : v <= org[o].name)
                    /\ \A v \in told : (\A u \in old : u <= v) => org[o].name = v
    <3> SUFFICES ASSUME old # {}
                 PROVE  Shown(org[o], t)
      BY <2>2 DEF Shown
    <3>1. org[o].auth = t /\ o \in Orgs /\ t # None
      BY <1>1, <1>5 DEF Saved
    <3> QED
      BY <1>3, <1>7, <3>1 DEF RowNames
  <2>7. CASE n \in said
    <3>1. x.name = n
      <4> SUFFICES ASSUME x.name # n
                   PROVE  FALSE
        OBVIOUS
      <4>1. n \in old /\ x.name = org[o].name
        BY <1>1, <1>4, <2>7
      <4> QED
        BY <2>1, <2>2, <2>6, <2>7, <4>1
    <3> QED
      BY <1>1, <2>4, <2>7, <3>1
  <2>8. CASE n \notin said
    <3>1. now = told
      BY <2>2, <2>3, <2>8
    <3>3. \A v \in told : ~ (\A u \in old \cup {n} : u <= v)
      BY <1>1, <2>2, <2>4, <2>8
    <3>4. CASE x.name = IspProvider
      BY <3>1, <3>3, <3>4
    <3>5. CASE x.name # IspProvider
      <4>1. x.name # Told(r.m) /\ o \in Orgs /\ org[o].auth = t /\ x.name = org[o].name
        BY <1>1, <1>4, <2>8, <3>5
      <4>2. Shown(org[o], t)
        BY <1>1, <1>3, <1>7, <4>1 DEF RowNames
      <4> QED
        BY <2>2, <3>1, <3>3, <3>5, <4>1, <4>2 DEF Shown
    <3> QED
      BY <3>4, <3>5
  <2> QED
    BY <2>7, <2>8
<1> QED
  BY <1>6, <1>7

\* The handler that creates the row is the only one to start the trial: there was no row
\* of this tenant.
LEMMA SaveTrials ==
    ASSUME Inv, NEW w \in Workers, NEW o, NEW x, Saved(work[w], o, x), ~ Clashes(o, x),
           work[w].m.of \in Tenants, Moves(w), UNCHANGED <<trials, holders>>,
           ~ Reused' => LinksStay, org'[o] = x, work'[w].m = work[w].m,
           work'[w].pc = IF work[w].o = None THEN "trial" ELSE "ack"
    PROVE  Trials'
<1> USE MirrorAssumption
<1> DEFINE t == work[w].m.of
<1>1. CASE work[w].o # None
  <2>1. \A v \in Workers : work'[v].pc = "trial" => work'[v] = work[v]
    BY <1>1 DEF Moves
  <2>2. ~ Reused' => ~ Reused /\ LinksStay
    BY DEF Reused
  <2> QED
    BY <2>1, <2>2, TrialsKept DEF Inv
<1>2. CASE work[w].o = None
  <2> SUFFICES ASSUME ~ Reused', NEW y \in Tenants
               PROVE  /\ trials[y] <= 1
                      /\ \A v \in Workers : Starts(v, y)' => trials[y] = 0
                      /\ \A v, u \in Workers : Starts(v, y)' /\ Starts(u, y)' => v = u
                      /\ trials[y] > 0 \/ (\E v \in Workers : Starts(v, y)') =>
                            \E z \in Orgs : org'[z].auth = y
    BY DEF Trials
  <2>1. ~ Reused
    BY DEF Reused
  <2>2. /\ trials[y] <= 1
        /\ \A v \in Workers : Starts(v, y) => trials[y] = 0
        /\ \A v, u \in Workers : Starts(v, y) /\ Starts(u, y) => v = u
        /\ trials[y] > 0 \/ (\E v \in Workers : Starts(v, y)) =>
                            \E z \in Orgs : org[z].auth = y
    BY <2>1 DEF Inv, Trials
  <2>3. \A v \in Workers : v # w => (Starts(v, y)' <=> Starts(v, y))
    BY DEF Starts, Moves
  <2>4. Starts(w, y)' <=> y = t
    BY <1>2 DEF Starts
  <2>5. trials[y] \in Nat
    BY DEF Inv, Types
  <2>6. \A z \in Orgs : org[z].auth = y => org'[z].auth = y
    BY DEF LinksStay
  <2>7. CASE y # t
    BY <2>2, <2>3, <2>4, <2>6, <2>7
  <2>8. CASE y = t
    <3>1. ~ \E z \in Orgs : org[z].auth = t
      <4> SUFFICES ASSUME NEW z \in Orgs, org[z].auth = t
                   PROVE  FALSE
        OBVIOUS
      <4>1. Exists(z)
        BY DEF Exists, NoOrg
      <4>2. Sound(z, org[z]) /\ org[z].uuid = t
        BY <4>1, RowShape DEF Inv, Sound
      <4>3. z # o /\ x.uuid = t
        BY <1>2, <4>1 DEF Saved
      <4> QED
        BY <4>1, <4>2, <4>3 DEF Clashes
    <3>2. o \in Orgs /\ org'[o].auth = t
      BY <2>1 DEF Saved
    <3> QED
      BY <2>2, <2>3, <2>5, <2>8, <3>1, <3>2
  <2> QED
    BY <2>7, <2>8
<1> QED
  BY <1>1, <1>2

\* The commit of an event.
LEMMA TenantSaveKeeps ==
    ASSUME Inv, NEW w \in Workers, TenantSave(w)
    PROVE  Inv' /\ (~ Reused' => LinksStay)
<1> USE MirrorAssumption
<1>1. PICK r : r = work[w]
  OBVIOUS
<1>2. PICK o : o = Target(r.o)
  OBVIOUS
<1>3. PICK x : x = Row(r.m, r.o, r.seen, r.slug)
  OBVIOUS
<1> DEFINE q == [pc |-> IF r.o = None THEN "trial" ELSE "ack", m |-> r.m]
<1>4. /\ r.pc = "save" /\ (r.o = None => ~ Full) /\ ~ Clashes(o, x)
      /\ org' = [org EXCEPT ![o] = x] /\ work' = [work EXCEPT ![w] = q]
      /\ late' \in {late, late \cup {r.m.of}} /\ (Overtaken(r.m) => r.m.of \in late')
      /\ saved' = [saved EXCEPT ![r.m.of] = @ \cup {r.m.ver}]
      /\ UNCHANGED <<tenant, events, user, trials, seq, holders, stale>>
  BY <1>1, <1>2, <1>3, SMTT(60) DEF TenantSave, counters
<1>5. /\ Job(r) /\ (~ Reused => Owns(r) /\ Follows(r)) /\ Published(r.m)
      /\ r.m.of \in Tenants /\ r.m.ver \in Nat
  BY <1>1, <1>4 DEF Inv, Handling, Owned, Names, Job, OfTenant, Published, TenantMsg
<1>6. q.pc = (IF r.o = None THEN "trial" ELSE "ack") /\ q.m = r.m
  OBVIOUS
<1> HIDE DEF q
<1>7. Moves(w) /\ work'[w] = q
  BY <1>4, WorkMoves DEF Inv
<1>8. Saved(r, o, x)
  <2>1. CASE r.o = None
    BY <1>2, <1>3, <1>4, <1>5, <2>1, InsertIsSaved DEF Target
  <2>2. CASE r.o # None
    BY <1>2, <1>3, <1>4, <1>5, <2>2, UpdateIsSaved DEF Target
  <2> QED
    BY <2>1, <2>2
<1>s. /\ saved' \in [Tenants -> SUBSET Nat] /\ saved'[r.m.of] = saved[r.m.of] \cup {r.m.ver}
      /\ \A t \in Tenants : t # r.m.of => saved'[t] = saved[t]
  BY <1>4, <1>5 DEF Inv, Types
<1>11. Grows /\ (Reused' <=> Reused) /\ late \subseteq late'
  BY <1>4, <1>5, <1>s DEF Grows, Reused, Inv, Types, TenantRec
<1>9. /\ org' \in [Orgs -> OrgRec] /\ org'[o] = x
      /\ \A y \in Orgs : y # o => org'[y] = org[y]
      /\ Table' /\ RowsStay /\ (~ Reused' => Stays)
  BY <1>4, <1>5, <1>8, <1>11, SaveStays
<1>10. Types'
  BY <1>4, <1>5, <1>7, <1>9, <1>s DEF Inv, Types, Moves
<1>12. Messages'
  <2>1. \A t \in Tenants : saved'[t] \cup tenant[t].said \subseteq 1 .. tenant[t].ver
    <3>1. r.m.ver \in 1 .. tenant[r.m.of].ver
      BY <1>5 DEF Published, Inv, Types, TenantRec
    <3> QED
      BY <1>s, <3>1 DEF Inv, Messages
  <2> QED
    BY <1>4, <2>1 DEF Inv, Messages, Published, Claimed
<1>13. ASSUME ~ Reused
       PROVE  /\ x.name > 0 => x.name \in saved'[r.m.of]
              /\ r.m.of \notin late' => Shown(org[o], r.m.of)'
  BY <1>4, <1>5, <1>8, <1>9, <1>10, <1>13, SaveShows
<1>14. Job(work[w])' /\ Met(work[w])' /\ Owns(work[w])'
  <2>1. Published(r.m)'
    BY <1>5, <1>10, <1>11, MessageKept DEF Inv
  <2> QED
    BY <1>6, <1>7, <2>1 DEF Job, Met, Owns, OfTenant, Published
<1>15. Follows(work[w])'
  BY <1>s, <1>6, <1>7 DEF Follows, OfTenant
<1>16. ASSUME NEW v \in Workers
       PROVE  Job(work[v])' /\ Met(work[v])' /\ (~ Reused => Owns(work[v])' /\ Follows(work[v])')
  <2>1. CASE v = w
    BY <1>14, <1>15, <2>1
  <2>2. CASE v # w
    <3>1. work'[v] = work[v]
      BY <1>7, <2>2 DEF Moves
    <3>2. Job(work[v])' /\ (~ Reused' => Owns(work[v])' /\ Follows(work[v])')
      BY <1>9, <1>10, <1>11, <3>1, OthersKept
    <3>3. Met(work[v])'
      BY <1>4, <3>1 DEF Met, Inv, Handling
    <3> QED
      BY <1>11, <3>2, <3>3
  <2> QED
    BY <2>1, <2>2
<1>17. ASSUME NEW u \in Users, user[u].org # None
       PROVE  Exists(user[u].org)' /\ (~ Reused' => Own(org[user[u].org], Home[u])')
  BY <1>4, <1>9, <1>11, <1>17, UserKept
<1>18. Handling'
  BY <1>4, <1>16, <1>17 DEF Handling
<1>19. ASSUME ~ Reused, NEW y \in Orgs, org'[y].auth # None
       PROVE  Held(org[y].slug, org[y].auth)'
  <2>1. CASE y = o
    BY <1>4, <1>8, <1>9, <1>19, <2>1 DEF Saved, Held
  <2>2. CASE y # o
    BY <1>4, <1>9, <1>19, <2>2 DEF Inv, Owned, Held
  <2> QED
    BY <2>1, <2>2
<1>20. Owned'
  BY <1>4, <1>11, <1>16, <1>17, <1>19 DEF Owned
<1>21. ASSUME ~ Reused
       PROVE  RowNames' /\ AllSaved'
  <2>1. RowNames /\ AllSaved /\ LinksStay
    BY <1>9, <1>11, <1>21 DEF Inv, Names, Stays
  <2>2. o \in Orgs /\ x.auth = r.m.of /\ org'[o].auth = r.m.of /\ org'[o].uuid = r.m.of
    BY <1>5, <1>8, <1>9, <1>21 DEF Saved, Sound
  <2>3. \A t \in Tenants : saved'[t] # {} => \E y \in Orgs : org'[y].auth = t
    BY <1>s, <2>1, <2>2 DEF RowNames, LinksStay
  <2>4. ASSUME NEW y \in Orgs, org'[y].auth # None
        PROVE  /\ org'[y].name > 0 => org'[y].name \in saved'[org'[y].auth]
               /\ org'[y].auth \notin late' => Shown(org[y], org[y].auth)'
    <3>1. CASE y = o
      BY <1>9, <1>13, <1>21, <2>2, <3>1
    <3>2. CASE y # o
      <4>1. org'[y] = org[y] /\ org[y].auth \in Tenants
        BY <1>9, <2>4, <3>2 DEF Inv, Types, OrgRec
      <4>2. org[y].auth # r.m.of
        <5>1. Exists(y) /\ org[y].uuid = org[y].auth
          BY <2>4, <4>1, RowShape DEF Inv, Sound, Exists, NoOrg
        <5> QED
          BY <1>4, <1>9, <2>2, <3>2, <5>1 DEF Clashes
      <4>3. saved'[org[y].auth] = saved[org[y].auth]
        BY <1>s, <4>1, <4>2
      <4>4. /\ org[y].name > 0 => org[y].name \in saved[org[y].auth]
            /\ org[y].auth \notin late => Shown(org[y], org[y].auth)
        BY <2>1, <2>4, <4>1 DEF RowNames
      <4> QED
        BY <1>4, <4>1, <4>3, <4>4, SMTT(60) DEF Shown
    <3> QED
      BY <3>1, <3>2
  <2>5. RowNames'
    BY <2>3, <2>4 DEF RowNames
  <2>6. AllSaved'
    BY <1>4, <1>11, <2>1 DEF AllSaved, Grows
  <2> QED
    BY <2>5, <2>6
<1>22. Names'
  BY <1>11, <1>16, <1>21 DEF Names
<1>23. Trials'
  <2>1. ~ Reused' => LinksStay
    BY <1>9 DEF Stays
  <2> QED
    BY <1>1, <1>4, <1>5, <1>6, <1>7, <1>8, <1>9, <2>1, SaveTrials
<1>24. RoleIsLinked'
  <2>1. \A v \in Workers : work[v].pc = "link" /\ work'[v] # work[v] => work[v].m.of \in stale'
    BY <1>1, <1>4, <1>7 DEF Moves
  <2> QED
    BY <1>4, <2>1, LinksKept DEF Inv
<1> QED
  BY <1>9, <1>10, <1>12, <1>18, <1>20, <1>22, <1>23, <1>24 DEF Inv, Stays

-----------------------------------------------------------------------------
(***************************************************************************)
(* The theorems.                                                           *)
(***************************************************************************)

\* The initial states: nothing is mirrored, or one tenant is.
LEMMA InitInv == Init => Inv
<1> SUFFICES ASSUME Init
             PROVE  Inv
  OBVIOUS
<1> USE MirrorAssumption
<1>1. PICK old \in SUBSET (Tenants \X Slugs) :
          /\ \A p, q \in old : p = q
          /\ tenant = [t \in Tenants |-> IF \E p \in old : p[1] = t
                                        THEN [slug |-> CHOOSE s \in Slugs : <<t, s>> \in old, ver |-> 1,
                                              said |-> {1}]
                                        ELSE [slug |-> None, ver |-> 0, said |-> {}]]
          /\ org = [o \in Orgs |-> IF o = 1 /\ old # {}
                                   THEN LET p == CHOOSE q \in old : TRUE IN
                                        [uuid |-> p[1], auth |-> p[1], slug |-> <<p[2], 0>>, name |-> 1]
                                   ELSE NoOrg]
          /\ trials = [t \in Tenants |-> tenant[t].ver]
          /\ holders = {<<p[2], p[1]>> : p \in old}
  BY DEF Init
<1>2. /\ events = {} /\ user = [u \in Users |-> NoUser] /\ work = [w \in Workers |-> Idle]
      /\ seq = 0 /\ late = {} /\ stale = {}
      /\ saved = [y \in Tenants |-> tenant[y].said]
  BY DEF Init
<1>3. PICK k \in {0, 1}, t \in Tenants \cup {None}, s \in Slugs \cup {None} :
         /\ k = 1 => t \in Tenants /\ s \in Slugs
         /\ old = IF k = 1 THEN {<<t, s>>} ELSE {}
  <2>1. CASE old = {}
    BY <2>1
  <2>2. CASE old # {}
    <3>1. PICK p \in old : TRUE
      BY <2>2
    <3>2. p[1] \in Tenants /\ p[2] \in Slugs /\ p = <<p[1], p[2]>>
      BY <1>1, <3>1
    <3>3. old = {<<p[1], p[2]>>}
      BY <1>1, <3>1, <3>2
    <3> QED
      BY <3>2, <3>3
  <2> QED
    BY <2>1, <2>2
<1>4. /\ tenant \in [Tenants -> TenantRec]
      /\ trials \in [Tenants -> Nat]
      /\ \A y \in Tenants :
            /\ trials[y] = tenant[y].ver
            /\ IF k = 1 /\ y = t
               THEN tenant[y].slug = s /\ tenant[y].ver = 1 /\ tenant[y].said = {1}
               ELSE tenant[y].slug = None /\ tenant[y].ver = 0 /\ tenant[y].said = {}
  <2>1. ASSUME NEW y \in Tenants
        PROVE  /\ tenant[y] \in TenantRec
               /\ trials[y] = tenant[y].ver
               /\ IF k = 1 /\ y = t
                  THEN tenant[y].slug = s /\ tenant[y].ver = 1 /\ tenant[y].said = {1}
                  ELSE tenant[y].slug = None /\ tenant[y].ver = 0 /\ tenant[y].said = {}
    <3>1. trials[y] = tenant[y].ver
      BY <1>1
    <3>2. CASE k = 1 /\ y = t
      <4>1. \A z \in Slugs : <<t, z>> \in old <=> z = s
        BY <1>3, <3>2
      <4>2. (CHOOSE z \in Slugs : <<t, z>> \in old) = s
        BY <1>3, <3>2, <4>1
      <4>3. \E p \in old : p[1] = t
        BY <1>3, <3>2
      <4>4. tenant[y] = [slug |-> CHOOSE z \in Slugs : <<t, z>> \in old, ver |-> 1, said |-> {1}]
        BY <1>1, <3>2, <4>3
      <4>5. tenant[y] = [slug |-> s, ver |-> 1, said |-> {1}]
        BY <4>2, <4>4
      <4> QED
        BY <1>3, <3>1, <3>2, <4>5 DEF TenantRec
    <3>3. CASE ~ (k = 1 /\ y = t)
      <4>1. ~ \E p \in old : p[1] = y
        BY <1>3, <3>3
      <4>2. tenant[y] = [slug |-> None, ver |-> 0, said |-> {}]
        BY <1>1, <4>1
      <4> QED
        BY <3>1, <3>3, <4>2 DEF TenantRec
    <3> QED
      BY <3>2, <3>3
  <2>2. tenant = [y \in Tenants |-> tenant[y]] /\ trials = [y \in Tenants |-> trials[y]]
    BY <1>1
  <2>3. \A y \in Tenants : trials[y] \in Nat
    BY <2>1 DEF TenantRec
  <2> QED
    BY <2>1, <2>2, <2>3
<1>5. PICK first : first = [uuid |-> t, auth |-> t, slug |-> <<s, 0>>, name |-> 1]
  OBVIOUS
<1>6. org = [o \in Orgs |-> IF o = 1 /\ k = 1 THEN first ELSE NoOrg]
  <2>1. CASE k = 1
    <3>1. (CHOOSE q \in old : TRUE) = <<t, s>> /\ old # {}
      BY <1>3, <2>1
    <3> QED
      BY <1>1, <1>5, <2>1, <3>1
  <2>2. CASE k # 1
    BY <1>1, <1>3, <2>2
  <2> QED
    BY <2>1, <2>2
<1>7. holders = IF k = 1 THEN {<<s, t>>} ELSE {}
  <2>1. CASE k = 1
    <3>1. <<t, s>>[1] = t /\ <<t, s>>[2] = s
      OBVIOUS
    <3> QED
      BY <1>1, <1>3, <2>1, <3>1
  <2>2. CASE k # 1
    BY <1>1, <1>3, <2>2
  <2> QED
    BY <2>1, <2>2
<1>8. k = 1 => /\ first \in OrgRec /\ first.uuid = t /\ first.auth = t /\ first.slug = <<s, 0>>
               /\ first.name = 1 /\ first.slug[1] = s /\ first.slug \in Slug
  <2> SUFFICES ASSUME k = 1
               PROVE  /\ first \in OrgRec /\ first.uuid = t /\ first.auth = t
                      /\ first.slug = <<s, 0>> /\ first.name = 1 /\ first.slug[1] = s
                      /\ first.slug \in Slug
    OBVIOUS
  <2>0. <<s, 0>>[1] = s
    OBVIOUS
  <2>1. PICK p : p = <<s, 0>> /\ p[1] = s
    BY <2>0
  <2>2. p \in Slug
    BY <1>3, <2>1 DEF Slug, Bases
  <2> QED
    BY <1>3, <1>5, <2>1, <2>2 DEF OrgRec
<1>9. /\ NoOrg \in OrgRec /\ NoOrg.uuid = None /\ NoOrg.auth = None
  BY DEF NoOrg, OrgRec
<1>10. \A o \in Orgs : IF o = 1 /\ k = 1 THEN org[o] = first ELSE org[o] = NoOrg
  BY <1>6
<1>s. saved \in [Tenants -> SUBSET Nat] /\ \A y \in Tenants : saved[y] = tenant[y].said
  BY <1>2, <1>4 DEF TenantRec
<1>11. Types
  <2>1. org \in [Orgs -> OrgRec]
    BY <1>3, <1>6, <1>8, <1>9
  <2>2. holders \subseteq Slugs \X Tenants
    BY <1>3, <1>7
  <2> QED
    BY <1>2, <1>4, <1>s, <2>1, <2>2 DEF Types
<1>12. \A o \in Orgs : Exists(o) <=> o = 1 /\ k = 1
  BY <1>3, <1>8, <1>9, <1>10 DEF Exists
<1>13. k = 1 => Sound(1, first)
  BY <1>3, <1>8 DEF Sound
<1>14. Table
  <2>1. k \in 0 .. Rows /\ \A o \in Orgs : o <= k <=> (o = 1 /\ k = 1)
    BY DEF Orgs
  <2>2. \A o \in Orgs : IF o <= k THEN Sound(o, org[o]) ELSE org[o] = NoOrg
    BY <1>10, <1>13, <2>1
  <2> QED
    BY <1>12, <2>1, <2>2 DEF Table
<1>15. Messages
  <2>1. \A y \in Tenants : saved[y] \cup tenant[y].said \subseteq 1 .. tenant[y].ver
    BY <1>4, <1>s
  <2> QED
    BY <1>2, <1>4, <1>7, <2>1 DEF Messages
<1>16. NoUser.org = None /\ NoUser.sub = FALSE /\ Idle.pc = "idle"
  BY DEF NoUser, Idle
<1>17. /\ \A u \in Users : user[u].org = None /\ ~ user[u].sub
       /\ \A w \in Workers : work[w].pc = "idle"
  BY <1>2, <1>16
<1>18. Handling
  BY <1>17 DEF Handling, Job, Met, OfTenant
<1>19. \A o \in Orgs : org[o].auth # None => k = 1 /\ org[o] = first /\ org[o].auth = t
  BY <1>8, <1>9, <1>10
<1>20. Owned
  <2>1. \A o \in Orgs : org[o].auth # None => Held(org[o].slug, org[o].auth)
    BY <1>7, <1>8, <1>19 DEF Held
  <2> QED
    BY <1>17, <2>1 DEF Owned, Owns, OfTenant
<1>21. k = 1 => 1 \in Orgs /\ org[1].auth = t /\ org[1].name = 1
  BY <1>8, <1>10 DEF Orgs
<1>22. Trials
  <2>1. \A w \in Workers : \A y : ~ Starts(w, y)
    BY <1>17 DEF Starts
  <2>2. \A y \in Tenants : trials[y] <= 1 /\ (trials[y] > 0 => \E o \in Orgs : org[o].auth = y)
    BY <1>4, <1>21
  <2> QED
    BY <2>1, <2>2 DEF Trials
<1>23. Names
  <2>1. \A y \in Tenants : saved[y] # {} => k = 1 /\ y = t
    BY <1>4, <1>s
  <2>2. k = 1 => saved[t] = {1} /\ tenant[t].said = {1}
    BY <1>3, <1>4, <1>s
  <2>3. ASSUME NEW o \in Orgs, org[o].auth # None
        PROVE  /\ org[o].name > 0 => org[o].name \in saved[org[o].auth]
               /\ Shown(org[o], org[o].auth)
    <3>1. org[o].name = 1 /\ saved[org[o].auth] = {1} /\ tenant[org[o].auth].said = {1}
      BY <1>8, <1>19, <2>2, <2>3
    <3> QED
      BY <3>1 DEF Shown
  <2>4. RowNames
    BY <1>21, <2>1, <2>3 DEF RowNames
  <2>5. AllSaved
    BY <1>4, <1>s DEF AllSaved
  <2> QED
    BY <1>17, <2>4, <2>5 DEF Names, Follows, OfTenant
<1>24. RoleIsLinked
  BY <1>17 DEF RoleIsLinked
<1> QED
  BY <1>11, <1>14, <1>15, <1>18, <1>20, <1>22, <1>23, <1>24 DEF Inv

\* Every step keeps the invariant, and the links while no slug is reused.
LEMMA NextInv == Inv /\ [Next]_vars => Inv' /\ (~ Reused' => LinksStay)
<1> SUFFICES ASSUME Inv, [Next]_vars
             PROVE  Inv' /\ (~ Reused' => LinksStay)
  OBVIOUS
<1>1. UNCHANGED org => LinksStay
  BY DEF LinksStay
<1>2. ASSUME NEW t \in Tenants, NEW s \in Slugs, NEW told \in BOOLEAN, NEW named \in BOOLEAN,
             TenantChanges(t, s, told, named)
      PROVE  Inv' /\ UNCHANGED org
  BY <1>2, TenantChangesKeeps DEF TenantChanges
<1>3. ASSUME NEW u \in Users, NEW r \in Roles, UserChanges(u, r)
      PROVE  Inv' /\ UNCHANGED org
  BY <1>3, UserChangesKeeps DEF UserChanges
<1>4. ASSUME NEW s \in Slugs,
             create_organization(s) \/ \E u \in Users : complete_registration(s, u)
      PROVE  Inv' /\ LinksStay
  BY <1>4, LocalKeeps
<1>r. ASSUME NEW o \in Orgs, update_organization(o)
      PROVE  Inv' /\ LinksStay
  BY <1>r, RenameKeeps
<1>5. ASSUME NEW w \in Workers, NEW m \in events, TenantLoad(w, m)
      PROVE  Inv' /\ UNCHANGED org
  BY <1>5, TenantLoadKeeps DEF TenantLoad
<1>6. ASSUME NEW w \in Workers, NEW m \in events, UserEvent(w, m)
      PROVE  Inv' /\ UNCHANGED org
  BY <1>6, UserEventKeeps DEF UserEvent
<1>7. ASSUME NEW w \in Workers, NEW u \in Users, NEW r \in Roles, Login(w, u, r)
      PROVE  Inv' /\ UNCHANGED org
  BY <1>7, LoginKeeps DEF Login
<1>8. ASSUME NEW w \in Workers, Crash(w)
      PROVE  Inv' /\ UNCHANGED org
  BY <1>8, EndKeeps DEF Crash
<1>9. ASSUME NEW w \in Workers, Handle(w)
      PROVE  Inv' /\ (UNCHANGED org \/ (~ Reused' => LinksStay))
  <2>1. CASE TenantDecide(w)
    BY <2>1, TenantDecideKeeps DEF TenantDecide
  <2>2. CASE TenantSave(w)
    BY <2>2, TenantSaveKeeps
  <2>3. CASE TenantRefused(w) \/ UserRefused(w)
    BY <2>3, EndKeeps DEF TenantRefused, UserRefused
  <2>4. CASE \E ok \in BOOLEAN : Subscribe(w, ok)
    BY <2>4, SubscribeKeeps DEF Subscribe
  <2>5. CASE UserUpdate(w)
    BY <2>5, UserUpdateKeeps DEF UserUpdate
  <2>6. CASE UserInsert(w)
    BY <2>6, UserInsertKeeps DEF UserInsert
  <2>7. CASE UserLink(w)
    BY <2>7, UserLinkKeeps DEF UserLink
  <2>8. CASE Ack(w)
    BY <2>8, AckKeeps DEF Ack
  <2> QED
    BY <1>9, <2>1, <2>2, <2>3, <2>4, <2>5, <2>6, <2>7, <2>8 DEF Handle
<1>10. CASE UNCHANGED vars
  <2>1. UNCHANGED <<tenant, events, org, user, work, trials, seq, holders, saved, late, stale>>
    BY <1>10 DEF vars, counters
  <2>2. Types' /\ Messages' /\ Grows
    BY <2>1 DEF Inv, Types, Messages, Published, Claimed, Grows, TenantRec
  <2>3. ~ Reused' => AllSaved'
    BY <2>1 DEF Inv, Names, AllSaved, Reused
  <2> QED
    BY <1>1, <2>1, <2>2, <2>3, AuthStep
<1> QED
  BY <1>1, <1>2, <1>3, <1>4, <1>r, <1>5, <1>6, <1>7, <1>8, <1>9, <1>10 DEF Next, Deliver

\* The invariant holds in every state, for any number of tenants, users, slugs, rows and
\* handlers, whatever is redelivered, overtaken, or lost in a crash.
THEOREM MirrorInvariant == Spec => []Inv
  BY InitInv, NextInv, PTL DEF Spec

\* Tenants, organizations, users, their roles and trials belong together: a linked row has
\* its tenant's id as uuid, no user is in another tenant's organization and no trial is
\* started twice unless a slug was reused, and provisioned users have their role's
\* permissions unless handlers met.
THEOREM MirrorCorrect == Spec => []MirrorInv
<1>1. Inv => MirrorInv
  <2> SUFFICES ASSUME Inv
               PROVE  MirrorInv
    OBVIOUS
  <2> USE MirrorAssumption
  <2>1. \A o \in Orgs : org[o].auth \in Tenants \cup {None}
    BY DEF Inv, Types, OrgRec
  <2>2. \A o \in Orgs : org[o].auth # None => org[o].uuid = org[o].auth
    BY RowShape DEF Inv, Sound, NoOrg
  <2>3. \A u \in Users : Known(u) => user[u].role \in DOMAIN Rank
    BY DEF Inv, Types, Known, UserRec
  <2>4. MirrorTypeOK
    BY <2>1, <2>2, <2>3 DEF MirrorTypeOK, Inv, Types
  <2>5. UserInOwnTenant
    BY DEF UserInOwnTenant, Inv, Owned, Own
  <2>6. TrialOnce
    BY DEF TrialOnce, Inv, Trials
  <2> QED
    BY <2>4, <2>5, <2>6 DEF MirrorInv, Inv
<1> QED
  BY <1>1, MirrorInvariant, PTL

\* Once the events of a tenant are handled, its organization has the name that the last
\* change told, or, if that told none, the default one or the last that was told, unless
\* an older event was saved after a newer one or a name was given here.
THEOREM MirrorIsUpToDate == Spec => []MirrorUpToDate
<1>1. Inv => MirrorUpToDate
  <2> SUFFICES ASSUME Inv, NEW t \in Tenants, tenant[t].ver > 0, t \notin late, ~ Reused,
                      \A m \in events : m.kind = "tenant" => m.of # t
               PROVE  \E o \in Orgs :
                        /\ org[o].auth = t
                        /\ IF tenant[t].ver \in tenant[t].said
                           THEN org[o].name = tenant[t].ver
                           ELSE \/ org[o].name = IspProvider
                                \/ /\ org[o].name \in tenant[t].said
                                   /\ \A v \in tenant[t].said : v <= org[o].name
    BY DEF MirrorUpToDate
  <2>1. /\ tenant[t].ver \in Nat
        /\ saved[t] \subseteq 1 .. tenant[t].ver /\ tenant[t].said \subseteq 1 .. tenant[t].ver
    BY DEF Inv, Types, TenantRec, Messages
  <2>2. saved[t] = 1 .. tenant[t].ver
    BY <2>1 DEF Inv, Names, AllSaved
  <2>3. saved[t] \cap tenant[t].said = tenant[t].said /\ tenant[t].ver \in saved[t]
    BY <2>1, <2>2
  <2>4. PICK o \in Orgs : org[o].auth = t /\ Shown(org[o], t)
    BY <2>3, MirrorAssumption DEF Inv, Names, RowNames
  <2> QED
    BY <2>1, <2>2, <2>3, <2>4 DEF Shown
<1> QED
  BY <1>1, MirrorInvariant, PTL

\* No event is refused for ever: handled with nothing else going on, its row breaks no
\* unique column.
THEOREM EventsAreAccepted == Spec => []NoneIsRefusedForEver
<1>1. ASSUME Inv, NEW m \in events, m.kind = "tenant", NEW o \in Orgs \cup {None},
             IF Match(m) = {} THEN o = None ELSE o \in Match(m),
             o = None => ~ Full,
             NEW seen, seen = IF o = None THEN NoOrg ELSE org[o]
      PROVE  ~ Clashes(Target(o), Row(m, o, seen, Settle(m, o, seen)))
  <2> USE MirrorAssumption
  <2>1. PICK x : x = Row(m, o, seen, Settle(m, o, seen))
    OBVIOUS
  <2>2. PICK z : z = Target(o)
    OBVIOUS
  <2>3. Published(m) /\ m.of \in Tenants
    BY <1>1 DEF Inv, Messages, Published, TenantMsg
  <2>4. z \in Orgs /\ org[z] = seen
    BY <1>1, <2>2, RowShape DEF Target, Inv, Orgs
  <2>5. x.uuid = m.of /\ x.auth = m.of /\ x.slug = Settle(m, o, seen)
    BY <2>1, <2>2, <2>4 DEF Row, Flush
  <2> SUFFICES ASSUME NEW y \in Orgs \ {z}, Exists(y),
                      org[y].uuid = x.uuid \/ org[y].auth = x.auth \/ org[y].slug = x.slug
               PROVE  FALSE
    BY <2>1, <2>2 DEF Clashes
  <2>6. Sound(y, org[y])
    BY <1>1, RowShape DEF Inv
  <2>7. ASSUME org[y].uuid = m.of \/ org[y].auth = m.of
        PROVE  FALSE
    <3>1. org[y].uuid = m.of /\ org[y].auth = m.of
      BY <2>3, <2>6, <2>7 DEF Sound, Orgs
    <3>2. o \in Orgs /\ org[o].auth = m.of
      BY <1>1, <3>1 DEF Match
    <3>3. o = z
      BY <2>2, <3>2 DEF Target, Orgs
    <3>4. Exists(o)
      BY <2>3, <3>2 DEF Exists, NoOrg
    <3>5. org[o].uuid = m.of
      BY <1>1, <2>3, <3>2, <3>4, RowShape DEF Inv, Sound
    <3> QED
      BY <1>1, <3>1, <3>2, <3>3, <3>4, <3>5 DEF Inv, Table
  <2>8. ASSUME org[y].slug = Settle(m, o, seen)
        PROVE  FALSE
    <3>1. CASE o = None
      <4> DEFINE base == IF m.slug = None THEN m.of ELSE m.slug
      <4>1. Settle(m, o, seen) = FirstFree(base)
        BY <3>1 DEF Settle
      <4> HIDE DEF base
      <4>2. FirstFree(base) \notin Taken
        BY <1>1, FirstFreeIsFree DEF Inv
      <4> QED
        BY <2>8, <4>1, <4>2 DEF Taken
    <3>2. CASE o # None
      <4>1. o \in Orgs /\ o = z /\ seen = org[o]
        BY <1>1, <2>2, <3>2 DEF Target
      <4>2. Exists(o)
        BY <1>1, <2>3, <3>2, MatchIsOwn
      <4>3. org[y].slug # org[o].slug
        BY <1>1, <4>1, <4>2 DEF Inv, Table
      <4> QED
        BY <2>8, <3>2, <4>1, <4>3 DEF Settle
    <3> QED
      BY <3>1, <3>2
  <2> QED
    BY <2>5, <2>7, <2>8
<1>2. Inv => NoneIsRefusedForEver
  <2> SUFFICES ASSUME Inv, NEW m \in events, m.kind = "tenant"
               PROVE  \E o \in Orgs \cup {None} :
                         LET seen == IF o = None THEN NoOrg ELSE org[o] IN
                         /\ IF Match(m) = {} THEN o = None ELSE o \in Match(m)
                         /\ (o = None /\ Full) \/ ~ Clashes(Target(o), Row(m, o, seen, Settle(m, o, seen)))
    BY DEF NoneIsRefusedForEver
  <2>1. PICK o \in Orgs \cup {None} : IF Match(m) = {} THEN o = None ELSE o \in Match(m)
    BY DEF Match
  <2>2. PICK seen : seen = IF o = None THEN NoOrg ELSE org[o]
    OBVIOUS
  <2>3. (o = None /\ Full) \/ ~ Clashes(Target(o), Row(m, o, seen, Settle(m, o, seen)))
    BY <1>1, <2>1, <2>2
  <2> QED
    BY <2>1, <2>2, <2>3
<1> QED
  BY <1>2, MirrorInvariant, PTL

\* The organization a tenant was linked to stays its own, unless a slug went from one
\* tenant to another.
THEOREM LinksAreStable == Spec => LinkIsStable
<1>1. Inv /\ [Next]_vars =>
        [\A o \in Orgs : org[o].auth # None /\ org'[o].auth # org[o].auth => Reused']_vars
  BY NextInv DEF LinksStay
<1> QED
  BY <1>1, MirrorInvariant, PTL DEF Spec, LinkIsStable
=============================================================================
