---------------------------- MODULE TenantMirror ----------------------------
(***************************************************************************)
(* The local copies of the tenants and users that auth-api owns.  Durable  *)
(* JetStream consumers deliver auth.tenant.* and auth.user.* events, each  *)
(* again and again until it is acknowledged, to any replica, in any order  *)
(* and perhaps to two of them at once; a login with a central token goes   *)
(* through the same provisioning of the user.                              *)
(*                                                                         *)
(* A handler reads, decides, and commits; nothing is locked, and the       *)
(* unique columns of the tables are what keeps two of them apart.  The     *)
(* selects a handler starts with are one step: only what it read last can  *)
(* differ, and that the unique columns catch.                              *)
(***************************************************************************)
EXTENDS Integers, FiniteSets

CONSTANTS
    Tenants,     \* tenant ids of auth-api
    Slugs,       \* slugs that tenants and local organizations ask for
    Users,       \* user ids of auth-api, each with its own e-mail address
    Home,        \* the tenant of each
    Rows,        \* bound on the rows of organizations, which are numbered
    None,        \* no value, or NULL
    Handlers,    \* bound on the handlers that can be under way at once
    Roles,       \* roles that claims carry; NoRoles: they carry none
    MaxEvents,   \* bound on events and logins
    MaxFaults,   \* bound on crashes, outages of subscriptions-api, and events
                 \* that come again while their handler is still at work
    MaxLocal     \* bound on organizations created or renamed locally

NoRoles == "none"
Rank == [customer |-> 0, technician |-> 1, admin |-> 2, owner |-> 3]

Orgs    == 1 .. Rows
Workers == 1 .. Handlers

ASSUME MirrorAssumption ==
    /\ Home \in [Users -> Tenants]
    /\ Roles \subseteq DOMAIN Rank \cup {NoRoles}
    /\ {Rows, Handlers, MaxEvents, MaxFaults, MaxLocal} \subseteq Nat
    /\ Rows > 0
    \* ids are UUIDs: no slug, no number, and no NULL is one
    /\ Tenants \cap (Slugs \cup {None}) = {} /\ None \notin Slugs
    /\ \A x \in Tenants \cup {None} : x \notin Nat

VARIABLES
    tenant,     \* auth-api's tenants: slug, number of changes, those that told a name
    events,     \* published and not acknowledged
    org,        \* organizations
    user,       \* users
    work,       \* handlers under way
    trials,     \* subscribe calls made for each tenant
    seq, faults, locals,
    holders,    \* history: who has gone by a slug
    saved,      \* history: the changes of each tenant that were saved here
    late,       \* history: tenants whose event was overtaken, or who were renamed here
    stale       \* history: users whose link to a role was lost or overwritten

counters == <<seq, faults, locals>>
vars == <<tenant, events, org, user, work, trials, counters, holders, saved, late, stale>>

\* The name of a row: 0 is one given here, v the one that change v told, and
\* this one is written when an event tells none.
IspProvider == -1

NoOrg  == [uuid |-> None, auth |-> None, slug |-> None, name |-> 0]
NoUser == [sub |-> FALSE, role |-> None, obj |-> None, org |-> None]
Idle   == [pc |-> "idle"]

Exists(o) == org[o] # NoOrg
Full      == \A o \in Orgs : Exists(o)
NewRow    == Cardinality({o \in Orgs : Exists(o)}) + 1
Known(u)  == user[u] # NoUser

\* The slug s itself is <<s, 0>>, and "s-1" is <<s, 1>>.
Suffixes == 0 .. Rows
Taken    == {org[o].slug : o \in {x \in Orgs : Exists(x)}}
FirstFree(base) ==
    <<base, CHOOSE n \in Suffixes :
              /\ <<base, n>> \notin Taken
              /\ \A m \in 0 .. n - 1 : <<base, m>> \in Taken>>

\* Handlers are alike: the first that is free takes the next event or request.
Free(w) == work[w] = Idle /\ \A v \in 1 .. w - 1 : work[v] # Idle

\* An event that is not acknowledged comes, or comes again.
Receive(m) ==
    /\ m \in events
    /\ IF \E v \in Workers : work[v] # Idle /\ work[v].m = m
       THEN faults < MaxFaults /\ faults' = faults + 1
       ELSE UNCHANGED faults

\* What a commit leaves in a column: one the copy did not change is not written.
Flush(column, seen, new) == IF new # seen THEN new ELSE column

MirrorTypeOK ==
    /\ \A o \in Orgs : org[o].auth \in Tenants \cup {None}
    \* the local uuid is the tenant's id once the two are linked
    /\ \A o \in Orgs : org[o].auth # None => org[o].uuid = org[o].auth
    /\ \A u \in Users : Known(u) => user[u].role \in DOMAIN Rank
    /\ trials \in [Tenants -> Nat]
    /\ late \subseteq Tenants /\ stale \subseteq Users

\* One tenant may have been mirrored before.
Init ==
    /\ \E old \in SUBSET (Tenants \X Slugs) :
          /\ \A p, q \in old : p = q
          /\ tenant = [t \in Tenants |-> IF \E p \in old : p[1] = t
                                        THEN [slug |-> CHOOSE s \in Slugs : <<t, s>> \in old, ver |-> 1,
                                              said |-> {1}]
                                        ELSE [slug |-> None, ver |-> 0, said |-> {}]]
          /\ org = [o \in Orgs |-> IF o = 1 /\ old # {}
                                   THEN LET p == CHOOSE q \in old : TRUE IN
                                        [uuid |-> p[1], auth |-> p[1], slug |-> <<p[2], 0>>, name |-> 1]
                                   ELSE NoOrg]
          /\ trials = [t \in Tenants |-> tenant[t].ver]
          /\ holders = {<<p[2], p[1]>> : p \in old}
    /\ events = {}
    /\ user = [u \in Users |-> NoUser]
    /\ work = [w \in Workers |-> Idle]
    /\ seq = 0 /\ faults = 0 /\ locals = 0
    /\ saved = [t \in Tenants |-> tenant[t].said]
    /\ late = {} /\ stale = {}

-----------------------------------------------------------------------------
(***************************************************************************)
(* auth-api, and organizations created here.                               *)
(***************************************************************************)

\* Two tenants have gone by the same slug, one after the other.
Reused == \E p, q \in holders : p[1] = q[1] /\ p[2] # q[2]

\* Bound on events and logins; there are no more once a slug is reused.
MayChange == seq < MaxEvents /\ ~ Reused

\* A tenant is created or changed.  No two have the same slug at a time; an
\* event may leave out the slug, the name, or both.
TenantChanges(t, s, told, named) ==
    /\ MayChange
    /\ \A x \in Tenants \ {t} : tenant[x].slug # s
    /\ tenant' = [tenant EXCEPT ![t] = [slug |-> s, ver |-> @.ver + 1,
                                                 said |-> IF named THEN @.said \cup {@.ver + 1} ELSE @.said]]
    /\ events' = events \cup {[kind |-> "tenant", id |-> seq, of |-> t, ver |-> tenant'[t].ver,
                               slug |-> IF told THEN s ELSE None, named |-> named]}
    /\ seq' = seq + 1
    /\ holders' = holders \cup {<<s, t>>}
    /\ UNCHANGED <<org, user, work, trials, faults, locals, saved, late, stale>>

Claims(u, r, id) == [kind |-> "user", id |-> id, of |-> u, t |-> Home[u], role |-> r,
                     slug |-> tenant[Home[u]].slug]

UserChanges(u, r) ==
    /\ MayChange
    /\ tenant[Home[u]].slug # None
    /\ events' = events \cup {Claims(u, r, seq)}
    /\ seq' = seq + 1
    /\ UNCHANGED <<tenant, org, user, work, trials, faults, locals, holders, saved, late, stale>>

\* create_organization refuses a slug that is taken.
create_organization(s) ==
    /\ ~ Full /\ locals < MaxLocal
    /\ <<s, 0>> \notin Taken
    /\ org' = [org EXCEPT ![NewRow] = [uuid |-> NewRow, auth |-> None, slug |-> <<s, 0>>, name |-> 0]]
    /\ locals' = locals + 1
    /\ UNCHANGED <<tenant, events, user, work, trials, seq, faults, holders, saved, late, stale>>

\* complete_registration takes the first slug that is free, and creates the
\* administrator, without a link to a role.
complete_registration(s, u) ==
    /\ ~ Full /\ ~ Known(u) /\ locals < MaxLocal
    /\ org' = [org EXCEPT ![NewRow] = [uuid |-> NewRow, auth |-> None, slug |-> FirstFree(s), name |-> 0]]
    /\ user' = [user EXCEPT ![u] = [sub |-> FALSE, role |-> "admin", obj |-> None, org |-> NewRow]]
    /\ locals' = locals + 1
    /\ holders' = holders \cup {<<s, Home[u]>>}
    /\ UNCHANGED <<tenant, events, work, trials, seq, faults, saved, late, stale>>

\* update_organization renames one here; so do the settings of a tenant.
update_organization(o) ==
    /\ org[o].auth # None /\ locals < MaxLocal
    /\ org' = [org EXCEPT ![o].name = 0]
    /\ locals' = locals + 1
    /\ late' = late \cup {org[o].auth}
    /\ UNCHANGED <<tenant, events, user, work, trials, seq, faults, holders, saved, stale>>

-----------------------------------------------------------------------------
(***************************************************************************)
(* auth.tenant.*                                                           *)
(***************************************************************************)

\* Mutation: tenants that tell no slug all go by the same one.
MatchDefault(m) ==
    LET byAuth == {o \in Orgs : org[o].auth = m.of}
        bySlug == {o \in Orgs : Exists(o) /\ org[o].slug = <<m.slug, 0>>}
        byName == {o \in Orgs : Exists(o) /\ org[o].slug[1] \in Tenants}
    IN IF byAuth # {} THEN byAuth ELSE IF m.slug # None THEN bySlug ELSE byName

\* The row an event is about: by auth_tenant_id, by uuid, by slug.
Match(m) ==
    LET byAuth == {o \in Orgs : org[o].auth = m.of}
        byUuid == {o \in Orgs : org[o].uuid = m.of}
        bySlug == {o \in Orgs : Exists(o) /\ org[o].slug = <<m.slug, 0>>}
    IN IF byAuth # {} THEN byAuth
       ELSE IF byUuid # {} THEN byUuid
       ELSE IF m.slug # None THEN bySlug ELSE {}

TenantLoad(w, m) ==
    /\ Free(w) /\ Receive(m) /\ m.kind = "tenant"
    /\ \E o \in Orgs \cup {None} :
          /\ IF Match(m) = {} THEN o = None ELSE o \in Match(m)
          /\ work' = [work EXCEPT ![w] =
                        [pc |-> "tenant", m |-> m, o |-> o,
                         seen |-> IF o = None THEN NoOrg ELSE org[o]]]
    /\ UNCHANGED <<tenant, events, org, user, trials, seq, locals, holders, saved, late, stale>>

\* Mutation: the tenant's slug is adopted whether it is taken or not.
SettleAlways(m, o, seen) ==
    IF o = None THEN FirstFree(IF m.slug = None THEN m.of ELSE m.slug)
    ELSE IF m.slug = None THEN seen.slug ELSE <<m.slug, 0>>

\* The slug an event leads to: an existing row keeps its own if the tenant's
\* is taken, a new one gets a suffix.
Settle(m, o, seen) ==
    IF o = None THEN FirstFree(IF m.slug = None THEN m.of ELSE m.slug)
    ELSE IF m.slug = None \/ \E x \in Orgs \ {o} : Exists(x) /\ org[x].slug = <<m.slug, 0>>
    THEN seen.slug ELSE <<m.slug, 0>>

TenantDecide(w) ==
    LET r == work[w] IN
    /\ r.pc = "tenant"
    /\ work' = [work EXCEPT ![w] = [pc |-> "save", m |-> r.m, o |-> r.o, seen |-> r.seen,
                                    slug |-> Settle(r.m, r.o, r.seen)]]
    /\ UNCHANGED <<tenant, events, org, user, trials, counters, holders, saved, late, stale>>

\* The row a handler writes to; the row its commit would leave behind, and
\* whether that breaks a unique column.
Target(o) == IF o = None THEN NewRow ELSE o

Row(m, o, seen, slug) ==
    [uuid |-> Flush(org[Target(o)].uuid, seen.uuid, m.of),
     auth |-> Flush(org[Target(o)].auth, seen.auth, m.of),
     slug |-> Flush(org[Target(o)].slug, seen.slug, slug),
     name |-> Flush(org[Target(o)].name, seen.name, IF m.named THEN m.ver ELSE IspProvider)]

Clashes(o, row) ==
    \E x \in Orgs \ {o} : Exists(x) /\ (org[x].uuid = row.uuid \/ org[x].auth = row.auth
                                        \/ org[x].slug = row.slug)

\* A newer event of the same tenant was saved before.
Overtaken(m) == \E v \in saved[m.of] : v > m.ver

TenantSave(w) ==
    LET r == work[w]  m == r.m IN
    /\ r.pc = "save"
    /\ r.o = None => ~ Full
    /\ ~ Clashes(Target(r.o), Row(m, r.o, r.seen, r.slug))
    /\ org' = [org EXCEPT ![Target(r.o)] = Row(m, r.o, r.seen, r.slug)]
    /\ work' = [work EXCEPT ![w] = [pc |-> IF r.o = None THEN "trial" ELSE "ack", m |-> m]]
    /\ saved' = [saved EXCEPT ![m.of] = @ \cup {m.ver}]
    /\ late' = IF Overtaken(m) THEN late \cup {m.of} ELSE late
    /\ UNCHANGED <<tenant, events, user, trials, counters, holders, stale>>

\* Mutation: an event whose handler failed is acknowledged all the same.
NakAcks(w) ==
    /\ events' = events \ {work[w].m}
    /\ work' = [work EXCEPT ![w] = Idle]

\* The callback of a handler that raised: the event will come again.
Nak(w) ==
    /\ work' = [work EXCEPT ![w] = Idle]
    /\ UNCHANGED events

\* The commit breaks a unique column.
TenantRefused(w) ==
    LET r == work[w] IN
    /\ r.pc = "save"
    /\ r.o = None => ~ Full
    /\ Clashes(Target(r.o), Row(r.m, r.o, r.seen, r.slug))
    /\ Nak(w)
    /\ UNCHANGED <<tenant, org, user, trials, counters, holders, saved, late, stale>>

\* The default plan, when the row is new; a failure is passed over.
Subscribe(w, ok) ==
    /\ work[w].pc = "trial"
    /\ ok \/ faults < MaxFaults
    /\ trials' = IF ok THEN [trials EXCEPT ![work[w].m.of] = @ + 1] ELSE trials
    /\ faults' = IF ok THEN faults ELSE faults + 1
    /\ work' = [work EXCEPT ![w].pc = "ack"]
    /\ UNCHANGED <<tenant, events, org, user, seq, locals, holders, saved, late, stale>>

Ack(w) ==
    /\ work[w].pc = "ack"
    /\ events' = events \ {work[w].m}
    /\ work' = [work EXCEPT ![w] = Idle]
    /\ UNCHANGED <<tenant, org, user, trials, counters, holders, saved, late, stale>>

-----------------------------------------------------------------------------
(***************************************************************************)
(* auth.user.* and logins.                                                 *)
(***************************************************************************)

\* Mutation: a user whose tenant is not there yet goes to the first organization.
ResolveAny(m) ==
    LET bySlug == {o \in Orgs : Exists(o) /\ org[o].slug = <<m.slug, 0>>}
    IN IF bySlug # {} THEN CHOOSE o \in bySlug : TRUE ELSE IF Exists(1) THEN 1 ELSE None

\* _resolve_organization_id: by slug, then by uuid.
Resolve(m) ==
    LET bySlug == {o \in Orgs : Exists(o) /\ org[o].slug = <<m.slug, 0>>}
        byUuid == {o \in Orgs : org[o].uuid = m.t}
    IN IF bySlug # {} THEN CHOOSE o \in bySlug : TRUE
       ELSE IF byUuid # {} THEN CHOOSE o \in byUuid : TRUE ELSE None

\* provision_sso_user finds the user, by subject or e-mail, and the organization.
UserLoad(w, m, login) ==
    /\ Free(w)
    /\ work' = [work EXCEPT ![w] = [pc |-> "user", m |-> m, login |-> login,
                                    seen |-> user[m.of], org |-> Resolve(m)]]

UserEvent(w, m) ==
    /\ Receive(m) /\ m.kind = "user"
    /\ UserLoad(w, m, FALSE)
    /\ UNCHANGED <<tenant, events, org, user, trials, seq, locals, holders, saved, late, stale>>

\* A request with a central token, which carries the user's roles.
Login(w, u, r) ==
    /\ r # NoRoles /\ MayChange /\ tenant[Home[u]].slug # None
    /\ UserLoad(w, Claims(u, r, seq), TRUE)
    /\ seq' = seq + 1
    /\ UNCHANGED <<tenant, events, org, user, trials, faults, locals, holders, saved, late, stale>>

map_global_roles_to_isp_role(r) == IF r = NoRoles THEN "customer" ELSE r

\* The role of a user that exists: claims that carry none leave it, and none
\* are demoted to customer.
NewRole(seen, r) ==
    IF r # NoRoles /\ (Rank[r] >= Rank[seen] \/ r # "customer") THEN r ELSE seen

\* Where a handler goes when it is done: an event is acknowledged.
Over(w) == IF work[w].login THEN Idle ELSE [pc |-> "ack", m |-> work[w].m]

\* The RBAC role of the same name is linked.
_sync_role_obj(role) == role

UserUpdate(w) ==
    LET r == work[w]  u == r.m.of  seen == r.seen
        role == NewRole(seen.role, r.m.role) IN
    /\ r.pc = "user" /\ seen # NoUser
    /\ user' = [user EXCEPT ![u] =
          [sub  |-> TRUE,
           role |-> Flush(@.role, seen.role, role),
           obj  |-> Flush(@.obj, seen.obj, _sync_role_obj(role)),
           org  |-> IF r.org # None /\ seen.org = None /\ r.m.role # "owner" THEN r.org ELSE @.org]]
    /\ stale' = IF user[u] # seen THEN stale \cup {u} ELSE stale \ {u}
    /\ work' = [work EXCEPT ![w] = Over(w)]
    /\ UNCHANGED <<tenant, events, org, trials, counters, holders, saved, late>>

\* A new user is committed first and linked to the role in a second commit.
UserInsert(w) ==
    LET r == work[w]  u == r.m.of  role == map_global_roles_to_isp_role(r.m.role) IN
    /\ r.pc = "user" /\ r.seen = NoUser /\ ~ Known(u)
    /\ user' = [user EXCEPT ![u] = [sub |-> TRUE, role |-> role, obj |-> None,
                                    org |-> IF r.m.role = "owner" THEN None ELSE r.org]]
    /\ work' = [work EXCEPT ![w] = [pc |-> "link", m |-> r.m, login |-> r.login, seen |-> user'[u]]]
    /\ UNCHANGED <<tenant, events, org, trials, counters, holders, saved, late, stale>>

UserLink(w) ==
    LET r == work[w]  u == r.m.of IN
    /\ r.pc = "link"
    /\ user' = [user EXCEPT ![u].obj = _sync_role_obj(r.seen.role)]
    /\ stale' = IF user[u] # r.seen THEN stale \cup {u} ELSE stale
    /\ work' = [work EXCEPT ![w] = Over(w)]
    /\ UNCHANGED <<tenant, events, org, trials, counters, holders, saved, late>>

\* Another handler has created the user: e-mail and subject are unique.
UserRefused(w) ==
    /\ work[w].pc = "user" /\ work[w].seen = NoUser /\ Known(work[w].m.of)
    /\ Nak(w)
    /\ UNCHANGED <<tenant, org, user, trials, counters, holders, saved, late, stale>>

\* A replica dies; what it has not acknowledged will come again.
Crash(w) ==
    /\ work[w] # Idle /\ faults < MaxFaults
    /\ work' = [work EXCEPT ![w] = Idle]
    /\ faults' = faults + 1
    /\ stale' = IF work[w].pc = "link" THEN stale \cup {work[w].m.of} ELSE stale
    /\ UNCHANGED <<tenant, events, org, user, trials, seq, locals, holders, saved, late>>

-----------------------------------------------------------------------------
Deliver(w, m) == TenantLoad(w, m) \/ UserEvent(w, m)

Handle(w) ==
    \/ TenantDecide(w) \/ TenantSave(w) \/ TenantRefused(w)
    \/ \E ok \in BOOLEAN : Subscribe(w, ok)
    \/ UserUpdate(w) \/ UserInsert(w) \/ UserLink(w) \/ UserRefused(w)
    \/ Ack(w)

Next ==
    \/ \E t \in Tenants, s \in Slugs, told, named \in BOOLEAN : TenantChanges(t, s, told, named)
    \/ \E u \in Users, r \in Roles : UserChanges(u, r)
    \/ \E s \in Slugs : create_organization(s)
    \/ \E s \in Slugs, u \in Users : complete_registration(s, u)
    \/ \E o \in Orgs : update_organization(o)
    \/ \E w \in Workers : \E m \in events : Deliver(w, m)
    \/ \E w \in Workers, u \in Users, r \in Roles : Login(w, u, r)
    \/ \E w \in Workers : Handle(w) \/ Crash(w)

Spec == Init /\ [][Next]_vars

-----------------------------------------------------------------------------
(***************************************************************************)
(* Properties.                                                             *)
(***************************************************************************)

\* The organization a tenant was linked to stays its own, whatever is
\* redelivered, overtaken or renamed, unless a slug has gone from one tenant
\* to another: the match by slug then takes over a row that is linked already.
LinkIsStable ==
    [][\A o \in Orgs :
          org[o].auth # None /\ org'[o].auth # org[o].auth => Reused']_vars

\* A user is never put into an organization of another tenant, under the same
\* condition: claims are resolved by slug first.
UserInOwnTenant ==
    \A u \in Users :
        user[u].org # None => org[user[u].org].auth \in {None, Home[u]} \/ Reused

\* The free trial of a tenant is started once, however often its events come.
TrialOnce == \A t \in Tenants : trials[t] <= 1 \/ Reused

\* Once all events of a tenant are handled, its organization has the name that
\* the last change told.  If that told none, it has the default name or the last
\* one that was told.  Only an older event saved after a newer one, and a name
\* given here, make a difference.
MirrorUpToDate ==
    \A t \in Tenants :
        /\ tenant[t].ver > 0 /\ t \notin late /\ ~ Reused
        /\ \A m \in events : m.kind = "tenant" => m.of # t
        => \E o \in Orgs :
             /\ org[o].auth = t
             /\ IF tenant[t].ver \in tenant[t].said
                THEN org[o].name = tenant[t].ver
                ELSE \/ org[o].name = IspProvider
                     \/ org[o].name \in tenant[t].said /\ \A v \in tenant[t].said : v <= org[o].name

\* A user that was provisioned has the permissions of its role, unless two
\* handlers worked on it at once or the one that created it died in between.
RoleIsLinked ==
    \A u \in Users :
        \/ ~ user[u].sub \/ u \in stale
        \/ \E w \in Workers : work[w].pc = "link" /\ work[w].m.of = u
        \/ user[u].obj = user[u].role

\* No event is refused for ever: handled now, with nothing else going on, any
\* event that is left would be saved.
NoneIsRefusedForEver ==
    \A m \in events : m.kind = "tenant" =>
        \E o \in Orgs \cup {None} :
            LET seen == IF o = None THEN NoOrg ELSE org[o] IN
            /\ IF Match(m) = {} THEN o = None ELSE o \in Match(m)
            /\ (o = None /\ Full) \/ ~ Clashes(Target(o), Row(m, o, seen, Settle(m, o, seen)))

\* Tenants, organizations, users, their roles and trials belong together.
MirrorInv == MirrorTypeOK /\ UserInOwnTenant /\ TrialOnce /\ RoleIsLinked
=============================================================================
