--------------------------- MODULE RouterRegistry ---------------------------
(***************************************************************************)
(* The registry of routers and how a device joins it: the row that is made *)
(* before the bootstrap command is shown, the bootstrap script with the    *)
(* token of the polling agent and the address in the WireGuard tunnel, the *)
(* registration of the device's public key, the update by the wizard, the  *)
(* deletion of a router, and the status derived from the agent's polls.    *)
(*                                                                         *)
(* Each request works on rows it has read earlier in its own session       *)
(* (expire_on_commit=False): what it writes is decided by that copy.  The  *)
(* database refuses two rows with one winbox_port or one vpn_address, and  *)
(* nothing else.                                                           *)
(***************************************************************************)
EXTENDS Naturals, FiniteSets, FiniteSetsExt

CONSTANTS
    Devices,    \* physical routers
    Names,      \* identities a device can be given
    Orgs,       \* organizations
    Requests,   \* requests that can be under way at once
    MaxRows,    \* bound on the rows created
    MaxPort,    \* ports of the winbox range: 1 .. MaxPort
    MaxAddr,    \* addresses of the tunnel's subnet: 1 .. MaxAddr
    MaxOps      \* bound on the requests made and the status tasks started

ASSUME RegistryAssumption ==
    /\ {MaxRows, MaxPort, MaxAddr, MaxOps} \subseteq Nat
    /\ IsFiniteSet(Devices) /\ IsFiniteSet(Requests)

VARIABLES
    who,      \* identity and organization of each device
    rows,     \* table routers
    req,      \* requests under way, with what they have read
    run,      \* the script each device is importing
    agent,    \* the polling agent on each device: row and token
    tunnel,   \* addresses on the WireGuard interface of each device
    missed,   \* addresses a script could not add to it
    poll,     \* the poll of each device under way: row, and whether it read it online
    fresh,    \* rows whose last poll is within the threshold
    task,     \* the run of sync_router_status under way
    subs,     \* rows with a subscription that is not over
    issued,   \* agent tokens generated so far
    ops,
    crossed,  \* kinds of interference that have happened
    late,     \* rows subscribed to while their deletion was under way
    lost,     \* rows deleted with a subscription
    overtaken \* rows left offline by a sync and a poll that overlapped

deviceVars == <<run, agent, tunnel, missed>>
statusVars == <<fresh, task, poll, overtaken>>
subVars    == <<subs, late, lost>>
vars == <<who, rows, req, deviceVars, statusVars, subVars, issued, ops, crossed>>

RowIds == 1 .. MaxRows
NoRow  == [st |-> "none", name |-> "none", org |-> "none", ip |-> "none", port |-> 0,
           tok |-> 0, addr |-> 0, key |-> "none", polled |-> FALSE, online |-> FALSE]
Idle   == [pc |-> "idle", d |-> "none", r |-> 0, ip |-> "none", tok |-> 0, val |-> 0]
NoRun  == [step |-> "none", r |-> 0, tok |-> 0, addr |-> 0, name |-> "none"]
NoPoll == [r |-> 0, online |-> FALSE]
NoTask == [on |-> FALSE, of |-> {}, polled |-> {}, online |-> {}, fresh |-> {}, again |-> {}]
Scripting == {"token", "pick", "reserve"}

Live    == {r \in RowIds : rows[r].st = "live"}
Default == "default"                  \* 192.168.88.1, when no address is given
IpOf(d) == {Default, d}
Own(d)  == {r \in Live : rows[r].org = who[d].org}

RegistryTypeOK ==
    /\ \A r \in Live : rows[r].port \in 1 .. MaxPort /\ rows[r].addr \in 0 .. MaxAddr
    /\ \A h \in Requests : req[h].pc \in Scripting => rows[req[h].r].st # "none"
    /\ \A d \in Devices : tunnel[d] \cup missed[d] \subseteq 1 .. MaxAddr /\ agent[d].tok <= issued
    /\ {fresh, subs, late, lost, overtaken} \subseteq SUBSET RowIds
    /\ crossed \subseteq {"deleted", "renamed", "created", "scripts"}

Init ==
    /\ who \in [Devices -> [name : Names, org : Orgs]]
    /\ rows = [r \in RowIds |-> NoRow]
    /\ req = [h \in Requests |-> Idle]
    /\ run = [d \in Devices |-> NoRun]
    /\ agent = [d \in Devices |-> [r |-> 0, tok |-> 0]]
    /\ tunnel = [d \in Devices |-> {}] /\ missed = tunnel
    /\ poll = [d \in Devices |-> NoPoll]
    /\ fresh = {} /\ task = NoTask /\ overtaken = {}
    /\ subs = {} /\ late = {} /\ lost = {}
    /\ issued = 0 /\ ops = 0 /\ crossed = {}

\* A request comes in.  Bound: none does once something has been crossed.
Request(h, q) ==
    /\ req[h] = Idle /\ ops < MaxOps /\ crossed = {}
    /\ ops' = ops + 1 /\ req' = [req EXCEPT ![h] = q]
Goto(h, q) == req' = [req EXCEPT ![h] = q] /\ UNCHANGED ops
End(h)     == Goto(h, Idle)

Underway(pcs) == {h \in Requests : req[h].pc \in pcs}
Running       == {d \in Devices : run[d] # NoRun}

-----------------------------------------------------------------------------
(***************************************************************************)
(* Rows.                                                                   *)
(***************************************************************************)

UsedPorts == {rows[r].port : r \in Live}
FreePorts == (1 .. MaxPort) \ UsedPorts

\* The next port nobody has; the creation fails when there is none.
_assign_winbox_port == Min(FreePorts)

\* The rows of the organization that have the address or the name.
Duplicate(d, ip) == {r \in Own(d) : rows[r].ip = ip \/ rows[r].name = who[d].name}

\* The duplicate check of create_router, as asked for by the bootstrap command (which
\* ignores a failure), by the create form and by an upsert that matches nothing.
CreateCheck(h, d, ip) ==
    /\ Duplicate(d, ip) = {}
    /\ Request(h, [Idle EXCEPT !.pc = "port", !.d = d, !.ip = ip])
    /\ UNCHANGED <<who, rows, deviceVars, statusVars, subVars, issued, crossed>>

\* The port is chosen by a select of its own; without a free one the creation fails.
PickPort(h) ==
    /\ req[h].pc = "port"
    /\ \/ FreePorts # {} /\ Goto(h, [req[h] EXCEPT !.pc = "create", !.val = _assign_winbox_port])
       \/ FreePorts = {} /\ End(h)
    /\ UNCHANGED <<who, rows, deviceVars, statusVars, subVars, issued, crossed>>

NewRow(h) ==
    [NoRow EXCEPT !.st = "live", !.name = who[req[h].d].name, !.org = who[req[h].d].org,
                  !.ip = req[h].ip, !.port = req[h].val]

\* Mutation: winbox_port without its unique constraint.
PortTakenNever(h) == h \notin Requests

\* winbox_port is unique.
PortTaken(h) == req[h].val \in UsedPorts

\* Creations of the same identity that have not chosen their port yet.
Rivals(h) == {o \in Requests \ {h} : req[o].pc = "port" /\ who[req[o].d] = who[req[h].d]}

\* The insert; the unique port may have gone to somebody else.
create_router(h) ==
    /\ req[h].pc = "create"
    /\ \/ /\ PortTaken(h) /\ UNCHANGED <<rows, crossed>>
       \/ /\ ~ PortTaken(h)
          /\ \E r \in RowIds :
                /\ \A i \in RowIds : rows[i].st = "none" <=> i >= r
                /\ rows' = [rows EXCEPT ![r] = NewRow(h)]
          /\ crossed' = IF Rivals(h) # {} THEN crossed \cup {"created"} ELSE crossed
       \/ /\ \A r \in RowIds : rows[r].st # "none"   \* bound
          /\ UNCHANGED <<rows, crossed>>
    /\ End(h)
    /\ UNCHANGED <<who, deviceVars, statusVars, subVars, issued>>

\* The wizard's upsert finds a row by address or by name and gives it both, unless
\* a row of any organization has one of them already.
upsert_router(d, ip) ==
    /\ ops < MaxOps /\ crossed = {} /\ ops' = ops + 1
    /\ \E r \in Duplicate(d, ip) :
          /\ rows[r].ip # ip => \A o \in Live \ {r} : rows[o].ip # ip
          /\ rows[r].name # who[d].name => \A o \in Live \ {r} : rows[o].name # who[d].name
          /\ rows' = [rows EXCEPT ![r].ip = ip, ![r].name = who[d].name]
          /\ rows' # rows
          /\ crossed' = IF rows[r].name # who[d].name THEN crossed \cup {"renamed"} ELSE crossed
    /\ UNCHANGED <<who, req, deviceVars, statusVars, subVars, issued>>

Deletable(r) == r \notin subs

\* Deletion looks for subscriptions, tells the device (which takes its time), and
\* then deletes the row with everything that refers to it.
DeleteCheck(h, r) ==
    /\ r \in Live /\ Deletable(r)
    /\ Request(h, [Idle EXCEPT !.pc = "delete", !.r = r])
    /\ UNCHANGED <<who, rows, deviceVars, statusVars, subVars, issued, crossed>>

delete_router(h) ==
    LET r == req[h].r IN
    /\ req[h].pc = "delete"
    /\ IF r \in Live
       THEN /\ rows' = [rows EXCEPT ![r] = [NoRow EXCEPT !.st = "gone"]]
            /\ lost' = lost \cup ({r} \cap subs)
            /\ subs' = subs \ {r}
            /\ fresh' = fresh \ {r} /\ overtaken' = overtaken \ {r}
            /\ crossed' = IF Underway(Scripting \cup {"port", "create"}) \cup Running # {}
                          THEN crossed \cup {"deleted"} ELSE crossed
       ELSE UNCHANGED <<rows, lost, subs, fresh, overtaken, crossed>>
    /\ End(h)
    /\ UNCHANGED <<who, deviceVars, task, poll, late, issued>>

\* A customer's subscription on the router (modelled in SubscriptionRouterSync).
Subscribe(r) ==
    /\ r \in Live \ subs
    /\ subs' = subs \cup {r}
    /\ late' = IF \E h \in Requests : req[h].pc = "delete" /\ req[h].r = r
               THEN late \cup {r} ELSE late
    /\ UNCHANGED <<who, rows, req, deviceVars, statusVars, lost, issued, ops, crossed>>

-----------------------------------------------------------------------------
(***************************************************************************)
(* The bootstrap script.                                                   *)
(***************************************************************************)

\* Rows are looked up by name over all organizations; two of them are an error.
ByName(n) == {r \in Live : rows[r].name = n}
ByIp(d)   == {r \in Live : rows[r].ip = d}

\* The script is asked for, by the device or by someone who looks at it.
ScriptLoad(h, d) ==
    \E r \in ByName(who[d].name) :
       /\ ByName(who[d].name) = {r}
       /\ Request(h, [Idle EXCEPT !.pc = "token", !.d = d, !.r = r,
                                  !.tok = rows[r].tok, !.val = rows[r].addr])
       /\ crossed' = IF \E o \in Underway(Scripting) : req[o].r = r
                     THEN crossed \cup {"scripts"} ELSE crossed
       /\ UNCHANGED <<who, rows, deviceVars, statusVars, subVars, issued>>

\* Mutation: a new token for every script.
ReuseNever(h) == h \notin Requests

Reuse(h) == req[h].tok # 0

\* The token the copy has is used again, otherwise a new one is stored.
generate_agent_token(h) ==
    LET r == req[h].r IN
    /\ req[h].pc = "token"
    /\ \/ /\ r \in Live /\ Reuse(h)
          /\ Goto(h, [req[h] EXCEPT !.pc = "pick"])
          /\ UNCHANGED <<rows, issued>>
       \/ /\ r \in Live /\ ~ Reuse(h)
          /\ issued' = issued + 1
          /\ rows' = [rows EXCEPT ![r].tok = issued + 1]
          /\ Goto(h, [req[h] EXCEPT !.pc = "pick", !.tok = issued + 1])
       \/ /\ r \notin Live        \* the update finds no row
          /\ End(h)
          /\ UNCHANGED <<rows, issued>>
    /\ UNCHANGED <<who, deviceVars, statusVars, subVars, crossed>>

\* A router that has joined and whose agent is accepted asks for the tunnel's
\* configuration alone (enroll-vpn).
Accepted(d) == agent[d].r \in Live /\ rows[agent[d].r].tok = agent[d].tok

VpnScriptLoad(h, d) ==
    LET r == agent[d].r IN
    /\ Accepted(d)
    /\ Request(h, [Idle EXCEPT !.pc = "pick", !.d = d, !.r = r, !.val = rows[r].addr])
    /\ crossed' = IF \E o \in Underway(Scripting) : req[o].r = r
                  THEN crossed \cup {"scripts"} ELSE crossed
    /\ UNCHANGED <<who, rows, deviceVars, statusVars, subVars, issued>>

UsedAddresses == {rows[r].addr : r \in Live}
FreeAddresses == (1 .. MaxAddr) \ UsedAddresses

\* Mutation: an address is chosen for every script and every registration.
AllocateAlways(has) == IF FreeAddresses = {} THEN has ELSE Min(FreeAddresses)

\* The address the copy has, or the first one nobody has; 0: there is none.
allocate_ip(has) ==
    IF has = 0 /\ FreeAddresses # {} THEN Min(FreeAddresses) ELSE has

PickAddress(h) ==
    /\ req[h].pc = "pick"
    /\ Goto(h, [req[h] EXCEPT !.pc = "reserve", !.val = allocate_ip(req[h].val)])
    /\ UNCHANGED <<who, rows, deviceVars, statusVars, subVars, issued, crossed>>

AddressTaken(r, a) == \E o \in Live \ {r} : rows[o].addr = a

\* The address is stored, unless another row got it first or the row has gone: then
\* the script comes without the tunnel.  The answer is imported by the device, or
\* it is lost or was only looked at.
ReserveAddress(h) ==
    LET r  == req[h].r
        d  == req[h].d
        a  == req[h].val
        ok == a # 0 /\ r \in Live /\ ~ AddressTaken(r, a)
    IN
    /\ req[h].pc = "reserve"
    /\ rows' = IF ok THEN [rows EXCEPT ![r].addr = a] ELSE rows
    /\ \/ UNCHANGED run
       \/ /\ run[d] = NoRun
          /\ run' = [run EXCEPT ![d] = [step |-> "agent", r |-> r, tok |-> req[h].tok,
                                        addr |-> IF ok THEN a ELSE 0,
                                        name |-> IF req[h].tok = 0 THEN rows[r].name ELSE who[d].name]]
    /\ End(h)
    /\ UNCHANGED <<who, agent, tunnel, missed, statusVars, subVars, issued, crossed>>

Step(d, to) == run' = [run EXCEPT ![d] = IF to = "none" THEN NoRun ELSE [@ EXCEPT !.step = to]]

\* The device fetches the agent with the token of the script.  A token that is not
\* the row's is refused and an agent that is there stays.
get_agent_script(d) ==
    LET s == run[d] IN
    /\ s.step = "agent"
    /\ \/ /\ s.tok # 0 /\ s.r \in Live /\ rows[s.r].tok = s.tok
          /\ agent' = [agent EXCEPT ![d] = [r |-> s.r, tok |-> s.tok]]
       \/ UNCHANGED agent           \* refused, lost, or no part of this script
    /\ Step(d, IF s.addr = 0 THEN "none" ELSE "vpn")
    /\ UNCHANGED <<who, rows, req, tunnel, missed, statusVars, subVars, issued, ops, crossed>>

\* The tunnel's address is added to the interface next to those it has.  An addition
\* that fails is only logged, and the script goes on.
build_bootstrap_lines(d) ==
    LET a == run[d].addr IN
    /\ run[d].step = "vpn"
    /\ \/ /\ tunnel' = [tunnel EXCEPT ![d] = @ \cup {a}]
          /\ missed' = [missed EXCEPT ![d] = @ \ {a}]
       \/ /\ a \notin tunnel[d]
          /\ missed' = [missed EXCEPT ![d] = @ \cup {a}]
          /\ UNCHANGED tunnel
    /\ Step(d, "register")
    /\ UNCHANGED <<who, rows, req, agent, statusVars, subVars, issued, ops, crossed>>

\* The device posts its public key; the row is looked up again, by the name in the
\* script and then by the address the request comes from.
PeerRow(d) ==
    IF ByName(run[d].name) # {} THEN ByName(run[d].name) ELSE ByIp(d)

register_peer(d) ==
    /\ run[d].step = "register"
    /\ \/ \E r \in PeerRow(d) :
             LET a == allocate_ip(rows[r].addr) IN
             /\ PeerRow(d) = {r}
             /\ a # 0
             /\ rows' = [rows EXCEPT ![r].addr = a, ![r].key = d]
       \/ UNCHANGED rows            \* lost, no such row, or two of them
    /\ Step(d, "none")
    /\ UNCHANGED <<who, req, agent, tunnel, missed, statusVars, subVars, issued, ops, crossed>>

\* What the WireGuard server is told.
list_peers == {[key |-> rows[r].key, addr |-> rows[r].addr, port |-> rows[r].port] :
                  r \in {i \in Live : rows[i].key # "none" /\ rows[i].addr # 0}}

-----------------------------------------------------------------------------
(***************************************************************************)
(* Status.                                                                 *)
(***************************************************************************)

\* A poll with the row's token.
PollLoad(d) ==
    LET r == agent[d].r IN
    /\ Accepted(d) /\ poll[d] = NoPoll
    /\ poll' = [poll EXCEPT ![d] = [r |-> r, online |-> rows[r].online]]
    /\ UNCHANGED <<who, rows, req, deviceVars, fresh, task, overtaken, subVars, issued, ops, crossed>>

\* The status is written only if the copy that was read is not online already.  A row
\* that has been deleted meanwhile fails the update.
handle_poll(d) ==
    LET r  == poll[d].r
        on == poll[d].online => rows[r].online
    IN
    /\ poll[d] # NoPoll /\ poll' = [poll EXCEPT ![d] = NoPoll]
    /\ IF r \in Live
       THEN /\ rows' = [rows EXCEPT ![r].polled = TRUE, ![r].online = on]
            /\ fresh' = fresh \cup {r}
            /\ overtaken' = IF on THEN overtaken \ {r} ELSE overtaken \cup {r}
            /\ task' = [task EXCEPT !.again = IF task.on THEN @ \cup {r} ELSE @]
       ELSE UNCHANGED <<rows, fresh, task, overtaken>>
    /\ UNCHANGED <<who, req, deviceVars, subVars, issued, ops, crossed>>

\* agent_poll_interval times the multiplier has passed since the last poll.
Lapse(r) ==
    /\ r \in fresh
    /\ fresh' = fresh \ {r} /\ overtaken' = overtaken \ {r}
    /\ UNCHANGED <<who, rows, req, deviceVars, task, poll, subVars, issued, ops, crossed>>

SyncLoad ==
    /\ ~ task.on
    /\ ops < MaxOps /\ crossed = {} /\ ops' = ops + 1
    /\ task' = [on |-> TRUE, of |-> Live, fresh |-> fresh, again |-> {},
                online |-> {r \in Live : rows[r].online},
                polled |-> {r \in Live : rows[r].polled}]
    /\ UNCHANGED <<who, rows, req, deviceVars, fresh, poll, overtaken, subVars, issued, crossed>>

\* Mutation: only routers that answer directly are online.
MayFindOnlineDirect(s) == s \cap task.polled = {}

\* The routers a sync may find online: one that polled, if the poll it read is still
\* within the threshold when its turn comes; one that never polled is asked
\* directly and may answer or not.
MayFindOnline(s) ==
    \A r \in task.polled :
       /\ r \in s => r \in task.fresh
       /\ r \in (task.fresh \cap fresh) \ task.again => r \in s

\* Rows whose status changes are written, in one transaction: a row that has been
\* deleted meanwhile fails it.
sync_router_status ==
    /\ task.on
    /\ \E s \in SUBSET task.of :
          LET written == (s \ task.online) \cup (task.online \ s) IN
          /\ MayFindOnline(s)
          /\ IF written \subseteq Live
             THEN /\ rows' = [r \in RowIds |-> IF r \in written THEN [rows[r] EXCEPT !.online = r \in s]
                                                               ELSE rows[r]]
                  /\ overtaken' = overtaken \cup ((written \ s) \cap task.again \cap fresh)
             ELSE UNCHANGED <<rows, overtaken>>
    /\ task' = NoTask
    /\ UNCHANGED <<who, req, deviceVars, fresh, poll, subVars, issued, ops, crossed>>

-----------------------------------------------------------------------------
Rows ==
    \/ \E h \in Requests, d \in Devices : \E ip \in IpOf(d) : CreateCheck(h, d, ip)
    \/ \E h \in Requests : PickPort(h) \/ create_router(h) \/ delete_router(h)
    \/ \E d \in Devices : \E ip \in IpOf(d) : upsert_router(d, ip)
    \/ \E h \in Requests, r \in RowIds : DeleteCheck(h, r)
    \/ \E r \in RowIds : Subscribe(r)

Bootstrap ==
    \/ \E h \in Requests, d \in Devices : ScriptLoad(h, d) \/ VpnScriptLoad(h, d)
    \/ \E h \in Requests : generate_agent_token(h) \/ PickAddress(h) \/ ReserveAddress(h)
    \/ \E d \in Devices : get_agent_script(d) \/ build_bootstrap_lines(d) \/ register_peer(d)

Status ==
    \/ \E d \in Devices : PollLoad(d) \/ handle_poll(d)
    \/ \E r \in RowIds : Lapse(r)
    \/ SyncLoad
    \/ sync_router_status

Next == Rows \/ Bootstrap \/ Status

Spec == Init /\ [][Next]_vars

-----------------------------------------------------------------------------
(***************************************************************************)
(* Properties.                                                             *)
(***************************************************************************)

\* create_router: an organization has one row for an identity, although nothing in
\* the table says so: two requests that have both chosen a port before either inserts
\* have chosen the same one, and it is unique.  This is defeated by an insert between
\* another request's name check and its choice of a port, by a deletion that frees a
\* port between two choices, and by a row that is given the name by an upsert.
OneRowPerName ==
    crossed \cap {"deleted", "renamed", "created"} = {} =>
       \A r, o \in Live : rows[r].org = rows[o].org /\ rows[r].name = rows[o].name => r = o

\* get_bootstrap_script: however often the script is fetched, the agent that runs
\* on a device is not shut out, unless two fetches overlap before there is a token.
AgentAuthenticates ==
    "scripts" \notin crossed =>
       \A d \in Devices : agent[d].r \in Live => Accepted(d)

\* allocate_ip, register_peer: what the WireGuard server is told of a device is the
\* address its script has put on its interface, or has failed to put there, and a
\* device is told of once, as long as rows are not deleted, renamed or made twice and
\* scripts of one router not made under each other.
TunnelAgrees ==
    crossed = {} =>
       \A p, q \in list_peers : /\ p.addr \in tunnel[p.key] \cup missed[p.key]
                                /\ p.key = q.key => p = q

\* delete_router: a router with a subscription is not deleted, except when the
\* subscription was made while the deletion waited for the device.
KeptUnlessLate == lost \subseteq late

\* sync_router_status: a router that polled within the threshold is shown offline
\* only if its poll was saved after the task had read the row.
OfflineIsDeserved ==
    \A r \in Live \cap fresh : rows[r].online \/ r \in overtaken

\* The invariants of the table and of deletion.
RegistryInv == RegistryTypeOK /\ KeptUnlessLate /\ OneRowPerName
=============================================================================
