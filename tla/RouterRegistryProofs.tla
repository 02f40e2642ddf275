------------------------ MODULE RouterRegistryProofs ------------------------
(***************************************************************************)
(* Proofs about RouterRegistry, for any devices, identities, organizations *)
(* and requests, any number of rows, ports and addresses.                  *)
(***************************************************************************)
EXTENDS RouterRegistry, WellFoundedInduction, TLAPS

-----------------------------------------------------------------------------
(***************************************************************************)
(* The least free port and the least free address.                         *)
(***************************************************************************)

\* Min chooses the least element of a set of numbers that is not empty.
LEMMA MinIsLeast ==
    ASSUME NEW S \in SUBSET Nat, S # {}
    PROVE  Min(S) \in S /\ \A n \in S : Min(S) <= n
<1> DEFINE less == {ss \in Nat \X Nat : ss[1] < ss[2]}
<1>1. IsWellFoundedOn(less, Nat)
  BY NatLessThanWellFounded, Zenon DEF OpToRel
<1> HIDE DEF less
<1>2. PICK m \in S : \A n \in S : <<n, m>> \notin less
  BY <1>1, WFMin
<1>3. ASSUME NEW n \in S
      PROVE  m <= n
  <2>1. n \in Nat /\ m \in Nat /\ <<n, m>> \notin less
    BY <1>2
  <2>2. <<n, m>> \in Nat \X Nat /\ <<n, m>>[1] = n /\ <<n, m>>[2] = m
    BY <2>1
  <2>3. ~ (n < m)
    BY <2>1, <2>2 DEF less
  <2> QED
    BY <2>1, <2>3
<1> QED
  BY <1>3 DEF Min
-----------------------------------------------------------------------------
(***************************************************************************)
(* Types, and the rows that requests, scripts and agents refer to.         *)
(***************************************************************************)

RowRec == [st : {"none", "live", "gone"}, name : Names \cup {"none"}, org : Orgs \cup {"none"},
           ip : Devices \cup {Default, "none"}, port : 0 .. MaxPort, tok : Nat,
           addr : 0 .. MaxAddr, key : Devices \cup {"none"}, polled : BOOLEAN, online : BOOLEAN]
ReqRec == [pc : {"idle", "port", "create", "delete"} \cup Scripting, d : Devices \cup {"none"},
           r : 0 .. MaxRows, ip : Devices \cup {Default, "none"}, tok : Nat, val : Nat]
RunRec == [step : {"none", "agent", "vpn", "register"}, r : 0 .. MaxRows, tok : Nat,
           addr : 0 .. MaxAddr, name : Names \cup {"none"}]
TaskRec == [on : BOOLEAN, of : SUBSET RowIds, polled : SUBSET RowIds, online : SUBSET RowIds,
            fresh : SUBSET RowIds, again : SUBSET RowIds]

Types ==
    /\ who \in [Devices -> [name : Names, org : Orgs]]
    /\ rows \in [RowIds -> RowRec]
    /\ req \in [Requests -> ReqRec]
    /\ run \in [Devices -> RunRec]
    /\ agent \in [Devices -> [r : 0 .. MaxRows, tok : Nat]]
    /\ tunnel \in [Devices -> SUBSET (1 .. MaxAddr)]
    /\ missed \in [Devices -> SUBSET (1 .. MaxAddr)]
    /\ poll \in [Devices -> [r : 0 .. MaxRows, online : BOOLEAN]]
    /\ fresh \in SUBSET RowIds /\ overtaken \in SUBSET RowIds /\ task \in TaskRec
    /\ subs \in SUBSET RowIds /\ late \in SUBSET RowIds /\ lost \in SUBSET RowIds
    /\ issued \in Nat
    /\ crossed \in SUBSET {"deleted", "renamed", "created", "scripts"}

\* A row that is referred to has been created, and what is carried about it is in
\* range: ports, addresses, and tokens that have been issued.
RowRefs ==
    \A r \in RowIds : rows[r].tok <= issued /\ (rows[r].st = "live" => rows[r].port # 0)
ReqRefs ==
    \A h \in Requests :
       /\ req[h].pc \in Scripting \cup {"delete"} =>
             req[h].r \in RowIds /\ rows[req[h].r].st # "none"
       /\ req[h].pc \in Scripting \cup {"port", "create"} => req[h].d \in Devices
       /\ req[h].pc = "create" => req[h].val \in 1 .. MaxPort
       /\ req[h].pc \in Scripting => req[h].val \in 0 .. MaxAddr
       /\ req[h].tok <= issued
DeviceRefs ==
    \A d \in Devices :
       /\ run[d].step # "none" => run[d].r \in RowIds /\ rows[run[d].r].st # "none"
       /\ run[d].step \in {"vpn", "register"} => run[d].addr # 0
       /\ run[d].tok <= issued /\ agent[d].tok <= issued
       /\ agent[d].r # 0 => agent[d].r \in RowIds /\ rows[agent[d].r].st # "none"
References == RowRefs /\ ReqRefs /\ DeviceRefs

\* The port that is chosen, and the address, are in range.
LEMMA FreePortInRange ==
    ASSUME Types, FreePorts # {}
    PROVE  _assign_winbox_port \in FreePorts /\ \A n \in FreePorts : _assign_winbox_port <= n
<1>1. FreePorts \in SUBSET Nat
  BY DEF FreePorts
<1> QED
  BY <1>1, MinIsLeast DEF _assign_winbox_port

\* An address that the row has is kept.
LEMMA FreeAddressInRange ==
    ASSUME Types, NEW has \in 0 .. MaxAddr
    PROVE  allocate_ip(has) \in 0 .. MaxAddr /\ (has # 0 => allocate_ip(has) = has)
<1>1. FreeAddresses \in SUBSET Nat
  BY DEF FreeAddresses
<1>2. CASE has = 0 /\ FreeAddresses # {}
  <2>1. Min(FreeAddresses) \in FreeAddresses
    BY <1>1, <1>2, MinIsLeast
  <2> QED
    BY <1>2, <2>1 DEF allocate_ip, FreeAddresses
<1> QED
  BY <1>2 DEF allocate_ip

\* The first state is typed.
LEMMA InitTypes == Init => Types /\ References
  BY RegistryAssumption
  DEF Init, Types, References, RowRefs, ReqRefs, DeviceRefs, RowRec, ReqRec, RunRec, TaskRec,
      NoRow, Idle, NoRun, NoPoll, NoTask, Scripting, Live, RowIds

\* The records that new ones are made from.
LEMMA IdleTyped == Idle \in ReqRec /\ Idle.pc = "idle" /\ Idle.tok = 0 /\ Idle.val = 0
  BY RegistryAssumption DEF ReqRec, Idle, Scripting

\* A row before it is created.
LEMMA NoRowTyped ==
    /\ NoRow \in RowRec
    /\ NoRow.tok = 0 /\ NoRow.addr = 0 /\ NoRow.key = "none"
  BY RegistryAssumption DEF RowRec, NoRow

\* A step that replaces the record of one request, or of one row, leaves the others.
LEMMA ReqStep ==
    ASSUME Types, NEW h \in Requests, NEW q \in ReqRec, req' = [req EXCEPT ![h] = q]
    PROVE  /\ req' \in [Requests -> ReqRec] /\ req'[h] = q
           /\ \A g \in Requests : g # h => req'[g] = req[g]
  BY DEF Types

\* The same for one row.
LEMMA RowStep ==
    ASSUME Types, NEW r \in RowIds, NEW x \in RowRec, rows' = [rows EXCEPT ![r] = x]
    PROVE  /\ rows' \in [RowIds -> RowRec] /\ rows'[r] = x
           /\ \A o \in RowIds : o # r => rows'[o] = rows[o]
  BY DEF Types

\* The same for the script on one device.
LEMMA RunStep ==
    ASSUME Types, NEW d \in Devices, NEW x \in RunRec, run' = [run EXCEPT ![d] = x]
    PROVE  /\ run' \in [Devices -> RunRec] /\ run'[d] = x
           /\ \A e \in Devices : e # d => run'[e] = run[e]
  BY DEF Types

-----------------------------------------------------------------------------
(***************************************************************************)
(* What each action does, field by field.                                  *)
(***************************************************************************)

OtherReqs(h) == \A g \in Requests : g # h => req'[g] = req[g]
OtherRows(r) == \A o \in RowIds : o # r => rows'[o] = rows[o]
OtherRuns(d) == \A e \in Devices : e # d => run'[e] = run[e]

\* The groups of columns that an action leaves alone.
KeepsIdentity(r) ==
    /\ rows'[r].st = rows[r].st /\ rows'[r].name = rows[r].name
    /\ rows'[r].org = rows[r].org /\ rows'[r].port = rows[r].port
KeepsToken(r)  == rows'[r].tok = rows[r].tok
KeepsTunnel(r) == rows'[r].addr = rows[r].addr /\ rows'[r].key = rows[r].key
KeepsStatus(r) == rows'[r].polled = rows[r].polled /\ rows'[r].online = rows[r].online

\* The duplicate check of create_router.
CreateCheckEffect(h, d, ip) ==
    /\ Duplicate(d, ip) = {}
    /\ req'[h].pc = "port" /\ req'[h].d = d
    /\ req'[h].tok = 0 /\ OtherReqs(h)
    /\ UNCHANGED <<who, rows, run, agent, tunnel, missed, fresh, task, poll, overtaken, subs,
                   late, lost, issued, crossed>>

\* CreateCheck does this and keeps the types.
LEMMA CreateCheckDoes ==
    ASSUME Types, NEW h \in Requests, NEW d \in Devices, NEW ip \in IpOf(d), CreateCheck(h, d, ip)
    PROVE  Types' /\ CreateCheckEffect(h, d, ip)
<1> USE DEF CreateCheckEffect
<1> DEFINE q == [Idle EXCEPT !.pc = "port", !.d = d, !.ip = ip]
<1>1. q \in ReqRec /\ q.pc = "port" /\ q.d = d /\ q.tok = 0
  BY IdleTyped DEF ReqRec, IpOf
<1>2. req' = [req EXCEPT ![h] = q]
  BY DEF CreateCheck, Request
<1> HIDE DEF q
<1>3. req' \in [Requests -> ReqRec] /\ req'[h] = q /\ OtherReqs(h)
  BY <1>1, <1>2, ReqStep DEF OtherReqs
<1> QED
  BY <1>1, <1>3 DEF CreateCheck, deviceVars, statusVars, subVars, Types

\* A request that ends.
LEMMA EndDoes ==
    ASSUME Types, NEW h \in Requests, End(h)
    PROVE  req' \in [Requests -> ReqRec] /\ req'[h].pc = "idle" /\ req'[h].tok = 0 /\ OtherReqs(h)
<1>1. req' = [req EXCEPT ![h] = Idle]
  BY DEF End, Goto
<1>2. req' \in [Requests -> ReqRec] /\ req'[h] = Idle /\ OtherReqs(h)
  BY <1>1, IdleTyped, ReqStep DEF OtherReqs
<1> QED
  BY <1>2, IdleTyped

\* The choice of the port, or the end of the request.
PickPortEffect(h) ==
    /\ req[h].pc = "port" /\ OtherReqs(h)
    /\ \/ req'[h].pc = "idle" /\ req'[h].tok = 0
       \/ /\ FreePorts # {}
          /\ req'[h].pc = "create" /\ req'[h].d = req[h].d /\ req'[h].val = _assign_winbox_port
          /\ req'[h].tok = req[h].tok
    /\ UNCHANGED <<who, rows, run, agent, tunnel, missed, fresh, task, poll, overtaken, subs,
                   late, lost, issued, crossed>>

\* PickPort does this and keeps the types.
LEMMA PickPortDoes ==
    ASSUME Types, NEW h \in Requests, PickPort(h)
    PROVE  Types' /\ PickPortEffect(h)
<1> USE DEF PickPortEffect
<1>1. /\ req[h].pc = "port" /\ req[h] \in ReqRec
      /\ UNCHANGED <<who, rows, run, agent, tunnel, missed, fresh, task, poll, overtaken, subs,
                     late, lost, issued, crossed>>
  BY DEF PickPort, Types, deviceVars, statusVars, subVars
<1>2. CASE FreePorts = {}
  <2>1. End(h)
    BY <1>2 DEF PickPort
  <2> QED
    BY <1>1, <2>1, EndDoes DEF Types
<1>3. CASE FreePorts # {}
  <2> DEFINE q == [req[h] EXCEPT !.pc = "create", !.val = _assign_winbox_port]
  <2>1. _assign_winbox_port \in Nat
    BY <1>3, FreePortInRange DEF FreePorts
  <2>2. /\ q \in ReqRec /\ q.pc = "create" /\ q.d = req[h].d /\ q.val = _assign_winbox_port
        /\ q.tok = req[h].tok
    BY <1>1, <2>1 DEF ReqRec
  <2>3. req' = [req EXCEPT ![h] = q]
    BY <1>3 DEF PickPort, Goto
  <2> HIDE DEF q
  <2>4. req' \in [Requests -> ReqRec] /\ req'[h] = q /\ OtherReqs(h)
    BY <2>2, <2>3, ReqStep DEF OtherReqs
  <2> QED
    BY <1>1, <1>3, <2>2, <2>4 DEF Types
<1> QED
  BY <1>2, <1>3

\* The insert makes one row, or none.
create_routerEffect(h) ==
    /\ req[h].pc = "create" /\ req'[h].pc = "idle" /\ req'[h].tok = 0 /\ OtherReqs(h)
    /\ UNCHANGED <<who, run, agent, tunnel, missed, fresh, task, poll, overtaken, subs, late, lost,
                   issued>>
    /\ crossed \subseteq crossed'
    /\ \/ rows' = rows
       \/ \E r \in RowIds :
             /\ ~ PortTaken(h) /\ (Rivals(h) # {} => "created" \in crossed')
             /\ rows[r].st = "none" /\ OtherRows(r)
             /\ rows'[r].st = "live" /\ rows'[r].port = req[h].val
             /\ rows'[r].name = who[req[h].d].name /\ rows'[r].org = who[req[h].d].org
             /\ rows'[r].tok = 0 /\ rows'[r].addr = 0 /\ rows'[r].key = "none"

\* create_router does this and keeps the types.
LEMMA create_routerDoes ==
    ASSUME Types, References, NEW h \in Requests, create_router(h)
    PROVE  Types' /\ create_routerEffect(h)
<1> USE DEF create_routerEffect
<1>1. /\ req[h].pc = "create" /\ req[h].d \in Devices /\ req[h].val \in 1 .. MaxPort
      /\ req[h].ip \in Devices \cup {Default, "none"}
  BY DEF create_router, Types, References, ReqRefs, ReqRec
<1>2. req' \in [Requests -> ReqRec] /\ req'[h].pc = "idle" /\ req'[h].tok = 0 /\ OtherReqs(h)
  BY EndDoes DEF create_router
<1>3. UNCHANGED <<who, run, agent, tunnel, missed, fresh, task, poll, overtaken, subs, late, lost,
                  issued>>
  BY DEF create_router, deviceVars, statusVars, subVars
<1>a. /\ crossed' \in SUBSET {"deleted", "renamed", "created", "scripts"}
      /\ crossed \subseteq crossed'
  BY DEF create_router, Types
<1>4. CASE rows' = rows
  BY <1>1, <1>2, <1>3, <1>a, <1>4 DEF Types
<1>5. CASE rows' # rows
  <2>1. PICK r \in RowIds : /\ ~ PortTaken(h) /\ rows' = [rows EXCEPT ![r] = NewRow(h)]
                            /\ \A i \in RowIds : rows[i].st = "none" <=> i >= r
                            /\ Rivals(h) # {} => "created" \in crossed'
    BY <1>5 DEF create_router
  <2>2. rows[r].st = "none"
    BY <2>1, RegistryAssumption DEF RowIds
  <2>3. /\ NewRow(h) \in RowRec /\ NewRow(h).st = "live" /\ NewRow(h).port = req[h].val
        /\ NewRow(h).name = who[req[h].d].name /\ NewRow(h).org = who[req[h].d].org
        /\ NewRow(h).tok = 0 /\ NewRow(h).addr = 0 /\ NewRow(h).key = "none"
    <3>1. /\ who[req[h].d].name \in Names /\ who[req[h].d].org \in Orgs
          /\ req[h].val \in 0 .. MaxPort
      BY <1>1, RegistryAssumption DEF Types
    <3>2. NewRow(h) \in RowRec
      BY <1>1, <3>1, NoRowTyped DEF NewRow, RowRec
    <3>3. /\ NewRow(h).st = "live" /\ NewRow(h).port = req[h].val
          /\ NewRow(h).name = who[req[h].d].name /\ NewRow(h).org = who[req[h].d].org
      BY NoRowTyped DEF NewRow, RowRec
    <3>4. NewRow(h).tok = 0 /\ NewRow(h).addr = 0 /\ NewRow(h).key = "none"
      BY NoRowTyped DEF NewRow, RowRec
    <3> QED
      BY <3>2, <3>3, <3>4
  <2>4. rows' \in [RowIds -> RowRec] /\ rows'[r] = NewRow(h) /\ OtherRows(r)
    BY <2>1, <2>3, RowStep DEF OtherRows
  <2> QED
    BY <1>1, <1>2, <1>3, <1>a, <2>1, <2>2, <2>3, <2>4 DEF Types
<1> QED
  BY <1>4, <1>5

\* The upsert writes address and name of one live row.
upsert_routerEffect(d, ip) ==
    /\ UNCHANGED <<who, req, run, agent, tunnel, missed, fresh, task, poll, overtaken, subs, late, lost,
                   issued>>
    /\ crossed \subseteq crossed'
    /\ \E r \in Live :
          /\ OtherRows(r)
          /\ rows'[r].st = rows[r].st /\ rows'[r].org = rows[r].org
          /\ rows'[r].port = rows[r].port
          /\ rows'[r].name # rows[r].name => "renamed" \in crossed'
          /\ KeepsToken(r) /\ KeepsTunnel(r) /\ KeepsStatus(r)

\* upsert_router does this and keeps the types.
LEMMA upsert_routerDoes ==
    ASSUME Types, NEW d \in Devices, NEW ip \in IpOf(d), upsert_router(d, ip)
    PROVE  Types' /\ upsert_routerEffect(d, ip)
<1> USE DEF upsert_routerEffect
<1>1. PICK r \in Duplicate(d, ip) :
         /\ rows' = [rows EXCEPT ![r].ip = ip, ![r].name = who[d].name]
         /\ crossed' = IF rows[r].name # who[d].name THEN crossed \cup {"renamed"} ELSE crossed
  BY DEF upsert_router
<1>2. r \in Live /\ r \in RowIds /\ rows[r] \in RowRec
  BY <1>1 DEF Duplicate, Own, Live, Types
<1> DEFINE x == [rows[r] EXCEPT !.ip = ip, !.name = who[d].name]
<1>3. rows' = [rows EXCEPT ![r] = x]
  BY <1>1, <1>2 DEF Types
<1>4. /\ x \in RowRec /\ x.name = who[d].name
      /\ x.st = rows[r].st /\ x.org = rows[r].org /\ x.port = rows[r].port /\ x.tok = rows[r].tok
      /\ x.addr = rows[r].addr /\ x.key = rows[r].key
      /\ x.polled = rows[r].polled /\ x.online = rows[r].online
  BY <1>2, ZenonT(60) DEF Types, RowRec, IpOf
<1> HIDE DEF x
<1>5. rows' \in [RowIds -> RowRec] /\ rows'[r] = x /\ OtherRows(r)
  BY <1>2, <1>3, <1>4, RowStep DEF OtherRows
<1>6. UNCHANGED <<who, req, run, agent, tunnel, missed, fresh, task, poll, overtaken, subs, late, lost,
                  issued>>
  BY DEF upsert_router, deviceVars, statusVars, subVars
<1> QED
  BY <1>1, <1>2, <1>4, <1>5, <1>6, ZenonT(60) DEF Types, KeepsToken, KeepsTunnel, KeepsStatus

\* The check for subscriptions.
DeleteCheckEffect(h, r) ==
    /\ r \in Live /\ r \notin subs
    /\ req'[h].pc = "delete" /\ req'[h].r = r /\ req'[h].tok = 0 /\ OtherReqs(h)
    /\ UNCHANGED <<who, rows, run, agent, tunnel, missed, fresh, task, poll, overtaken, subs, late, lost,
                   issued, crossed>>

\* DeleteCheck does this and keeps the types.
LEMMA DeleteCheckDoes ==
    ASSUME Types, NEW h \in Requests, NEW r \in RowIds, DeleteCheck(h, r)
    PROVE  Types' /\ DeleteCheckEffect(h, r)
<1> USE DEF DeleteCheckEffect
<1> DEFINE q == [Idle EXCEPT !.pc = "delete", !.r = r]
<1>1. q \in ReqRec /\ q.pc = "delete" /\ q.r = r /\ q.tok = 0
  <2>1. r \in 0 .. MaxRows
    BY RegistryAssumption DEF RowIds
  <2> QED
    BY <2>1, IdleTyped DEF ReqRec
<1>2. req' = [req EXCEPT ![h] = q]
  BY DEF DeleteCheck, Request
<1> HIDE DEF q
<1>3. req' \in [Requests -> ReqRec] /\ req'[h] = q /\ OtherReqs(h)
  BY <1>1, <1>2, ReqStep DEF OtherReqs
<1> QED
  BY <1>1, <1>3 DEF DeleteCheck, Deletable, deviceVars, statusVars, subVars, Types

\* The row is marked gone together with what refers to it.
delete_routerEffect(h) ==
    /\ req[h].pc = "delete" /\ req'[h].pc = "idle" /\ req'[h].tok = 0 /\ OtherReqs(h)
    /\ UNCHANGED <<who, run, agent, tunnel, missed, task, poll, late, issued>>
    /\ \/ UNCHANGED <<rows, lost, subs, fresh, overtaken, crossed>>
       \/ /\ req[h].r \in Live /\ rows'[req[h].r].st = "gone" /\ OtherRows(req[h].r)
          /\ rows'[req[h].r].tok = 0
          /\ lost' = lost \cup ({req[h].r} \cap subs) /\ subs' = subs \ {req[h].r}
          /\ fresh' = fresh \ {req[h].r} /\ overtaken' = overtaken \ {req[h].r}
          /\ crossed \subseteq crossed'
          /\ Underway(Scripting \cup {"port", "create"}) \cup Running # {} => "deleted" \in crossed'

\* delete_router does this and keeps the types.
LEMMA delete_routerDoes ==
    ASSUME Types, References, NEW h \in Requests, delete_router(h)
    PROVE  Types' /\ delete_routerEffect(h)
<1> USE DEF delete_routerEffect
<1>1. req[h].pc = "delete" /\ req[h].r \in RowIds
  BY DEF delete_router, References, ReqRefs
<1>2. req' \in [Requests -> ReqRec] /\ req'[h].pc = "idle" /\ req'[h].tok = 0 /\ OtherReqs(h)
  BY EndDoes DEF delete_router
<1>3. UNCHANGED <<who, run, agent, tunnel, missed, task, poll, late, issued>>
  BY DEF delete_router, deviceVars
<1>4. CASE req[h].r \notin Live
  BY <1>1, <1>2, <1>3, <1>4 DEF delete_router, Types
<1>5. CASE req[h].r \in Live
  <2> DEFINE r == req[h].r
             x == [NoRow EXCEPT !.st = "gone"]
  <2>1. x \in RowRec /\ x.st = "gone" /\ x.tok = 0
    BY NoRowTyped DEF RowRec
  <2>2. /\ rows' = [rows EXCEPT ![r] = x]
        /\ lost' = lost \cup ({r} \cap subs) /\ subs' = subs \ {r}
        /\ fresh' = fresh \ {r} /\ overtaken' = overtaken \ {r}
        /\ crossed' = IF Underway(Scripting \cup {"port", "create"}) \cup Running # {}
                      THEN crossed \cup {"deleted"} ELSE crossed
    BY <1>5 DEF delete_router
  <2> HIDE DEF x
  <2>3. rows' \in [RowIds -> RowRec] /\ rows'[r] = x /\ OtherRows(r)
    BY <1>1, <2>1, <2>2, RowStep DEF OtherRows
  <2> QED
    BY <1>1, <1>2, <1>3, <1>5, <2>1, <2>2, <2>3 DEF Types
<1> QED
  BY <1>4, <1>5

\* A subscription on a live row.
SubscribeEffect(r) ==
    /\ r \in Live /\ subs' = subs \cup {r} /\ late \subseteq late'
    /\ (\E h \in Requests : req[h].pc = "delete" /\ req[h].r = r) => r \in late'
    /\ UNCHANGED <<who, rows, req, run, agent, tunnel, missed, fresh, task, poll, overtaken, lost, issued,
                   crossed>>

\* Subscribe does this and keeps the types.
LEMMA SubscribeDoes ==
    ASSUME Types, NEW r \in RowIds, Subscribe(r)
    PROVE  Types' /\ SubscribeEffect(r)
  BY DEF SubscribeEffect, Subscribe, Live, deviceVars, statusVars, Types

\* The bootstrap script reads token and address of the only row with the name.
ScriptLoadEffect(h, d) ==
    /\ UNCHANGED <<who, rows, run, agent, tunnel, missed, fresh, task, poll, overtaken, subs, late, lost,
                   issued>>
    /\ req[h].pc = "idle" /\ OtherReqs(h)
    /\ req'[h].pc = "token" /\ req'[h].d = d /\ req'[h].r \in Live
    /\ ByName(who[d].name) = {req'[h].r}
    /\ req'[h].tok = rows[req'[h].r].tok /\ req'[h].val = rows[req'[h].r].addr
    /\ crossed \subseteq crossed'
    /\ (\E o \in Underway(Scripting) : req[o].r = req'[h].r) => "scripts" \in crossed'

\* ScriptLoad does this and keeps the types.
LEMMA ScriptLoadDoes ==
    ASSUME Types, NEW h \in Requests, NEW d \in Devices, ScriptLoad(h, d)
    PROVE  Types' /\ ScriptLoadEffect(h, d)
<1> USE DEF ScriptLoadEffect
<1>1. PICK r \in ByName(who[d].name) :
         /\ ByName(who[d].name) = {r}
         /\ Request(h, [Idle EXCEPT !.pc = "token", !.d = d, !.r = r,
                                    !.tok = rows[r].tok, !.val = rows[r].addr])
         /\ crossed' = IF \E o \in Underway(Scripting) : req[o].r = r
                       THEN crossed \cup {"scripts"} ELSE crossed
  BY DEF ScriptLoad
<1> DEFINE q == [Idle EXCEPT !.pc = "token", !.d = d, !.r = r,
                             !.tok = rows[r].tok, !.val = rows[r].addr]
<1>2. r \in Live /\ r \in 0 .. MaxRows /\ rows[r].tok \in Nat /\ rows[r].addr \in Nat
  BY <1>1, RegistryAssumption DEF ByName, Live, RowIds, Types, RowRec
<1>3. q \in ReqRec
  BY <1>2, IdleTyped DEF ReqRec, Scripting
<1>4. q.pc = "token" /\ q.d = d /\ q.r = r /\ q.tok = rows[r].tok /\ q.val = rows[r].addr
  BY IdleTyped DEF ReqRec
<1>5. req' = [req EXCEPT ![h] = q] /\ req[h].pc = "idle"
  BY <1>1, IdleTyped DEF Request
<1> HIDE DEF q
<1>6. req' \in [Requests -> ReqRec] /\ req'[h] = q /\ OtherReqs(h)
  BY <1>3, <1>5, ReqStep DEF OtherReqs
<1>7. UNCHANGED <<who, rows, run, agent, tunnel, missed, fresh, task, poll, overtaken, subs, late, lost,
                  issued>>
  BY DEF ScriptLoad, deviceVars, statusVars, subVars
<1> QED
  BY <1>1, <1>2, <1>4, <1>5, <1>6, <1>7 DEF Types

\* The tunnel's configuration reads the address of the agent's row.
VpnScriptLoadEffect(h, d) ==
    /\ UNCHANGED <<who, rows, run, agent, tunnel, missed, fresh, task, poll, overtaken, subs, late, lost,
                   issued>>
    /\ req[h].pc = "idle" /\ OtherReqs(h)
    /\ req'[h].pc = "pick" /\ req'[h].d = d /\ req'[h].r = agent[d].r /\ req'[h].r \in Live
    /\ req'[h].tok = 0 /\ req'[h].val = rows[req'[h].r].addr
    /\ crossed \subseteq crossed'
    /\ (\E o \in Underway(Scripting) : req[o].r = req'[h].r) => "scripts" \in crossed'

\* VpnScriptLoad does this and keeps the types.
LEMMA VpnScriptLoadDoes ==
    ASSUME Types, NEW h \in Requests, NEW d \in Devices, VpnScriptLoad(h, d)
    PROVE  Types' /\ VpnScriptLoadEffect(h, d)
<1> USE DEF VpnScriptLoadEffect
<1> DEFINE r == agent[d].r
           q == [Idle EXCEPT !.pc = "pick", !.d = d, !.r = r, !.val = rows[r].addr]
<1>1. r \in Live /\ r \in 0 .. MaxRows /\ rows[r].addr \in Nat
  BY RegistryAssumption DEF VpnScriptLoad, Accepted, Live, RowIds, Types, RowRec
<1>2. q \in ReqRec
  BY <1>1, IdleTyped DEF ReqRec, Scripting
<1>3. q.pc = "pick" /\ q.d = d /\ q.r = r /\ q.tok = 0 /\ q.val = rows[r].addr
  BY IdleTyped DEF ReqRec
<1>4. /\ req' = [req EXCEPT ![h] = q] /\ req[h].pc = "idle"
      /\ crossed' = IF \E o \in Underway(Scripting) : req[o].r = r
                    THEN crossed \cup {"scripts"} ELSE crossed
      /\ UNCHANGED <<who, rows, run, agent, tunnel, missed, fresh, task, poll, overtaken, subs, late, lost, issued>>
  BY IdleTyped DEF VpnScriptLoad, Request, deviceVars, statusVars, subVars
<1> HIDE DEF q
<1>5. req' \in [Requests -> ReqRec] /\ req'[h] = q /\ OtherReqs(h)
  BY <1>2, <1>4, ReqStep DEF OtherReqs
<1> QED
  BY <1>1, <1>3, <1>4, <1>5 DEF Types

\* The token of the copy, or a new one that is stored.
generate_agent_tokenEffect(h) ==
    /\ UNCHANGED <<who, run, agent, tunnel, missed, fresh, task, poll, overtaken, subs, late, lost, crossed>>
    /\ req[h].pc = "token" /\ OtherReqs(h)
    /\ \/ /\ req[h].r \notin Live
          /\ req'[h].pc = "idle" /\ req'[h].tok = 0 /\ UNCHANGED <<rows, issued>>
       \/ /\ req[h].r \in Live
          /\ req'[h].pc = "pick" /\ req'[h].d = req[h].d
          /\ req'[h].r = req[h].r /\ req'[h].val = req[h].val
          /\ \/ req[h].tok # 0 /\ req'[h].tok = req[h].tok /\ UNCHANGED <<rows, issued>>
             \/ /\ req[h].tok = 0 /\ issued' = issued + 1 /\ req'[h].tok = issued + 1
                /\ OtherRows(req[h].r) /\ rows'[req[h].r].tok = issued + 1
                /\ KeepsIdentity(req[h].r) /\ KeepsTunnel(req[h].r) /\ KeepsStatus(req[h].r)

\* generate_agent_token does this and keeps the types.
LEMMA generate_agent_tokenDoes ==
    ASSUME Types, References, NEW h \in Requests, generate_agent_token(h)
    PROVE  Types' /\ generate_agent_tokenEffect(h)
<1> USE DEF generate_agent_tokenEffect
<1> DEFINE r == req[h].r
<1>1. req[h].pc = "token" /\ req[h] \in ReqRec /\ r \in RowIds /\ rows[r] \in RowRec
  BY DEF generate_agent_token, References, ReqRefs, Scripting, Types
<1>2. UNCHANGED <<who, run, agent, tunnel, missed, fresh, task, poll, overtaken, subs, late, lost, crossed>>
  BY DEF generate_agent_token, deviceVars, statusVars, subVars
<1>3. CASE r \notin Live
  <2>1. End(h) /\ UNCHANGED <<rows, issued>>
    BY <1>3 DEF generate_agent_token
  <2> QED
    BY <1>1, <1>2, <1>3, <2>1, EndDoes DEF Types
<1>4. CASE r \in Live /\ Reuse(h)
  <2> DEFINE q == [req[h] EXCEPT !.pc = "pick"]
  <2>1. /\ q \in ReqRec /\ q.pc = "pick" /\ q.d = req[h].d /\ q.r = r /\ q.val = req[h].val
        /\ q.tok = req[h].tok
    BY <1>1 DEF ReqRec, Scripting
  <2>2. req' = [req EXCEPT ![h] = q] /\ UNCHANGED <<rows, issued>>
    BY <1>4 DEF generate_agent_token, Goto
  <2> HIDE DEF q
  <2>3. req' \in [Requests -> ReqRec] /\ req'[h] = q /\ OtherReqs(h)
    BY <2>1, <2>2, ReqStep DEF OtherReqs
  <2> QED
    BY <1>1, <1>2, <1>4, <2>1, <2>2, <2>3 DEF Types, Reuse
<1>5. CASE r \in Live /\ ~ Reuse(h)
  <2> DEFINE q == [req[h] EXCEPT !.pc = "pick", !.tok = issued + 1]
             x == [rows[r] EXCEPT !.tok = issued + 1]
  <2>1. issued + 1 \in Nat
    BY DEF Types
  <2>2. /\ q \in ReqRec /\ q.pc = "pick" /\ q.d = req[h].d /\ q.r = r /\ q.val = req[h].val
        /\ q.tok = issued + 1
    BY <1>1, <2>1 DEF ReqRec, Scripting
  <2>3. x \in RowRec /\ x.tok = issued + 1
    BY <1>1, <2>1 DEF RowRec
  <2>4. /\ x.st = rows[r].st /\ x.name = rows[r].name /\ x.org = rows[r].org /\ x.port = rows[r].port
        /\ x.addr = rows[r].addr /\ x.key = rows[r].key
        /\ x.polled = rows[r].polled /\ x.online = rows[r].online
    BY <1>1 DEF RowRec
  <2>5. /\ req' = [req EXCEPT ![h] = q] /\ rows' = [rows EXCEPT ![r] = x]
        /\ issued' = issued + 1
    BY <1>1, <1>5 DEF generate_agent_token, Goto, Types
  <2> HIDE DEF q, x
  <2>6. req' \in [Requests -> ReqRec] /\ req'[h] = q /\ OtherReqs(h)
    BY <2>2, <2>5, ReqStep DEF OtherReqs
  <2>7. rows' \in [RowIds -> RowRec] /\ rows'[r] = x /\ OtherRows(r)
    BY <1>1, <2>3, <2>5, RowStep DEF OtherRows
  <2> QED
    BY <1>1, <1>2, <1>5, <2>1, <2>2, <2>3, <2>4, <2>5, <2>6, <2>7
    DEF Types, Reuse, KeepsIdentity, KeepsTunnel, KeepsStatus
<1> QED
  BY <1>3, <1>4, <1>5

\* The address of the copy, or a free one.
PickAddressEffect(h) ==
    /\ UNCHANGED <<who, rows, run, agent, tunnel, missed, fresh, task, poll, overtaken, subs, late, lost,
                   issued, crossed>>
    /\ req[h].pc = "pick" /\ OtherReqs(h)
    /\ req'[h].pc = "reserve" /\ req'[h].d = req[h].d /\ req'[h].r = req[h].r
    /\ req'[h].tok = req[h].tok /\ req'[h].val \in 0 .. MaxAddr
    /\ req[h].val # 0 => req'[h].val = req[h].val

\* PickAddress does this and keeps the types.
LEMMA PickAddressDoes ==
    ASSUME Types, References, NEW h \in Requests, PickAddress(h)
    PROVE  Types' /\ PickAddressEffect(h)
<1> USE DEF PickAddressEffect
<1> DEFINE q == [req[h] EXCEPT !.pc = "reserve", !.val = allocate_ip(req[h].val)]
<1>1. /\ req[h].pc = "pick" /\ req[h] \in ReqRec /\ req[h].val \in 0 .. MaxAddr
      /\ req' = [req EXCEPT ![h] = q]
      /\ UNCHANGED <<who, rows, run, agent, tunnel, missed, fresh, task, poll, overtaken, subs, late, lost,
                     issued, crossed>>
  BY DEF PickAddress, Goto, References, ReqRefs, Scripting, Types, deviceVars, statusVars,
     subVars
<1>2. /\ allocate_ip(req[h].val) \in 0 .. MaxAddr /\ allocate_ip(req[h].val) \in Nat
      /\ req[h].val # 0 => allocate_ip(req[h].val) = req[h].val
  BY <1>1, FreeAddressInRange, RegistryAssumption
<1>3. /\ q \in ReqRec /\ q.pc = "reserve" /\ q.d = req[h].d /\ q.r = req[h].r /\ q.tok = req[h].tok
      /\ q.val = allocate_ip(req[h].val)
  BY <1>1, <1>2 DEF ReqRec, Scripting
<1> HIDE DEF q
<1>4. req' \in [Requests -> ReqRec] /\ req'[h] = q /\ OtherReqs(h)
  BY <1>1, <1>3, ReqStep DEF OtherReqs
<1> QED
  BY <1>1, <1>2, <1>3, <1>4 DEF Types

\* The script that a device imports after request h has reserved address a; 0: none.
Imports(h, a) ==
    LET d == req[h].d IN
    /\ OtherRuns(d)
    /\ run'[d].step = "agent" /\ run'[d].r = req[h].r /\ run'[d].tok = req[h].tok
    /\ run'[d].addr = a
    /\ run'[d].name = IF req[h].tok = 0 THEN rows[req[h].r].name ELSE who[d].name

\* The address is stored and the device may import the script.
ReserveAddressEffect(h) ==
    /\ UNCHANGED <<who, agent, tunnel, missed, fresh, task, poll, overtaken, subs, late, lost, issued, crossed>>
    /\ req[h].pc = "reserve" /\ req'[h].pc = "idle" /\ req'[h].tok = 0 /\ OtherReqs(h)
    /\ \/ rows' = rows /\ (run' = run \/ Imports(h, 0))
       \/ /\ req[h].r \in Live /\ req[h].val # 0 /\ OtherRows(req[h].r)
          /\ rows'[req[h].r].addr = req[h].val /\ rows'[req[h].r].key = rows[req[h].r].key
          /\ KeepsIdentity(req[h].r) /\ KeepsToken(req[h].r) /\ KeepsStatus(req[h].r)
          /\ run' = run \/ Imports(h, req[h].val)

\* ReserveAddress does this and keeps the types.
LEMMA ReserveAddressDoes ==
    ASSUME Types, References, NEW h \in Requests, ReserveAddress(h)
    PROVE  Types' /\ ReserveAddressEffect(h)
<1> USE DEF ReserveAddressEffect
<1> DEFINE r == req[h].r
           d == req[h].d
           a == req[h].val
           ok == a # 0 /\ r \in Live /\ ~ AddressTaken(r, a)
           n == IF req[h].tok = 0 THEN rows[r].name ELSE who[d].name
           z == IF ok THEN a ELSE 0
           y == [step |-> "agent", r |-> r, tok |-> req[h].tok, addr |-> z, name |-> n]
<1>1. /\ req[h].pc = "reserve" /\ req[h] \in ReqRec /\ r \in RowIds /\ rows[r] \in RowRec
      /\ a \in 0 .. MaxAddr /\ d \in Devices
  BY DEF ReserveAddress, References, ReqRefs, Scripting, Types
<1>2. req' \in [Requests -> ReqRec] /\ req'[h].pc = "idle" /\ req'[h].tok = 0 /\ OtherReqs(h)
  BY EndDoes DEF ReserveAddress
<1>3. UNCHANGED <<who, agent, tunnel, missed, fresh, task, poll, overtaken, subs, late, lost, issued,
                  crossed>>
  BY DEF ReserveAddress, statusVars, subVars
<1>4. run' \in [Devices -> RunRec] /\ (run' = run \/ Imports(h, z))
  <2>1. CASE run' = run
    BY <2>1 DEF Types
  <2>2. CASE run' = [run EXCEPT ![d] = y]
    <3>1. /\ n \in Names \cup {"none"} /\ z \in 0 .. MaxAddr /\ req[h].tok \in Nat
          /\ r \in 0 .. MaxRows
      <4>1. rows[r].name \in Names \cup {"none"} /\ who[d].name \in Names
        BY <1>1 DEF Types, RowRec
      <4>2. req[h].tok \in Nat /\ r \in 0 .. MaxRows
        BY <1>1 DEF ReqRec
      <4>3. 0 \in 0 .. MaxAddr
        BY RegistryAssumption
      <4> QED
        BY <1>1, <4>1, <4>2, <4>3
    <3> HIDE DEF n, z, ok
    <3>2. y \in RunRec
      BY <3>1 DEF RunRec
    <3>3. y.step = "agent" /\ y.r = r /\ y.tok = req[h].tok /\ y.addr = z /\ y.name = n
      OBVIOUS
    <3> HIDE DEF y
    <3>4. run' \in [Devices -> RunRec] /\ run'[d] = y /\ OtherRuns(d)
      BY <1>1, <2>2, <3>2, RunStep DEF OtherRuns
    <3> QED
      BY <3>3, <3>4 DEF Imports, n
  <2> QED
    BY <2>1, <2>2 DEF ReserveAddress
<1>5. CASE ~ ok
  BY <1>1, <1>2, <1>3, <1>4, <1>5 DEF ReserveAddress, Types
<1>6. CASE ok
  <2> DEFINE x == [rows[r] EXCEPT !.addr = a]
  <2>1. rows' = [rows EXCEPT ![r] = x]
    BY <1>1, <1>6 DEF ReserveAddress, Types
  <2>2. x \in RowRec /\ x.addr = a /\ x.key = rows[r].key
    BY <1>1 DEF RowRec
  <2>3. /\ x.st = rows[r].st /\ x.name = rows[r].name /\ x.org = rows[r].org /\ x.port = rows[r].port
        /\ x.tok = rows[r].tok /\ x.polled = rows[r].polled /\ x.online = rows[r].online
    BY <1>1 DEF RowRec
  <2> HIDE DEF x
  <2>4. rows' \in [RowIds -> RowRec] /\ rows'[r] = x /\ OtherRows(r)
    BY <1>1, <2>1, <2>2, RowStep DEF OtherRows
  <2> QED
    BY <1>1, <1>2, <1>3, <1>4, <1>6, <2>2, <2>3, <2>4
    DEF Types, KeepsIdentity, KeepsToken, KeepsStatus
<1> QED
  BY <1>5, <1>6

\* The next step of the script on a device.
LEMMA StepDoes ==
    ASSUME Types, NEW d \in Devices, NEW to \in {"none", "vpn", "register"}, Step(d, to)
    PROVE  /\ run' \in [Devices -> RunRec] /\ OtherRuns(d)
           /\ run'[d].step = to /\ (to = "none" => run'[d].tok = 0)
           /\ to # "none" => /\ run'[d].r = run[d].r /\ run'[d].tok = run[d].tok
                             /\ run'[d].addr = run[d].addr /\ run'[d].name = run[d].name
<1>1. run[d] \in RunRec
  BY DEF Types
<1>2. CASE to = "none"
  <2>1. NoRun \in RunRec /\ NoRun.step = "none" /\ NoRun.tok = 0
    BY RegistryAssumption DEF NoRun, RunRec
  <2>2. run' = [run EXCEPT ![d] = NoRun]
    BY <1>2 DEF Step
  <2>3. run' \in [Devices -> RunRec] /\ run'[d] = NoRun /\ OtherRuns(d)
    BY <2>1, <2>2, RunStep DEF OtherRuns
  <2> QED
    BY <1>2, <2>1, <2>3
<1>3. CASE to # "none"
  <2> DEFINE y == [run[d] EXCEPT !.step = to]
  <2>1. /\ y \in RunRec /\ y.step = to /\ y.r = run[d].r /\ y.tok = run[d].tok
        /\ y.addr = run[d].addr /\ y.name = run[d].name
    BY <1>1 DEF RunRec
  <2>2. run' = [run EXCEPT ![d] = y]
    BY <1>3 DEF Step, Types
  <2> HIDE DEF y
  <2>3. run' \in [Devices -> RunRec] /\ run'[d] = y /\ OtherRuns(d)
    BY <2>1, <2>2, RunStep DEF OtherRuns
  <2> QED
    BY <1>3, <2>1, <2>3
<1> QED
  BY <1>2, <1>3

\* The agent is installed, or not.
get_agent_scriptEffect(d) ==
    /\ UNCHANGED <<who, rows, req, tunnel, missed, fresh, task, poll, overtaken, subs, late, lost, issued,
                   crossed>>
    /\ run[d].step = "agent" /\ OtherRuns(d)
    /\ \/ run'[d].step = "none" /\ run'[d].tok = 0
       \/ /\ run'[d].step = "vpn" /\ run[d].addr # 0
          /\ run'[d].r = run[d].r /\ run'[d].tok = run[d].tok
          /\ run'[d].addr = run[d].addr /\ run'[d].name = run[d].name
    /\ \A e \in Devices : e # d => agent'[e] = agent[e]
    /\ \/ agent' = agent
       \/ /\ run[d].r \in Live /\ run[d].tok # 0 /\ rows[run[d].r].tok = run[d].tok
          /\ agent'[d].r = run[d].r /\ agent'[d].tok = run[d].tok

\* get_agent_script does this and keeps the types.
LEMMA get_agent_scriptDoes ==
    ASSUME Types, References, NEW d \in Devices, get_agent_script(d)
    PROVE  Types' /\ get_agent_scriptEffect(d)
<1> USE DEF get_agent_scriptEffect
<1>1. run[d].step = "agent" /\ run[d] \in RunRec
  BY DEF get_agent_script, Types
<1>2. UNCHANGED <<who, rows, req, tunnel, missed, fresh, task, poll, overtaken, subs, late, lost, issued,
                  crossed>>
  BY DEF get_agent_script, statusVars, subVars
<1> DEFINE to == IF run[d].addr = 0 THEN "none" ELSE "vpn"
<1>3. to \in {"none", "vpn", "register"} /\ Step(d, to)
  BY DEF get_agent_script
<1>4. /\ run' \in [Devices -> RunRec] /\ OtherRuns(d)
      /\ run'[d].step = to /\ (to = "none" => run'[d].tok = 0)
      /\ to # "none" => /\ run'[d].r = run[d].r /\ run'[d].tok = run[d].tok
                        /\ run'[d].addr = run[d].addr /\ run'[d].name = run[d].name
  BY <1>3, StepDoes
<1>5. \/ agent' = agent
      \/ /\ run[d].r \in Live /\ run[d].tok # 0 /\ rows[run[d].r].tok = run[d].tok
         /\ agent' = [agent EXCEPT ![d] = [r |-> run[d].r, tok |-> run[d].tok]]
  BY DEF get_agent_script
<1>6. /\ agent' \in [Devices -> [r : 0 .. MaxRows, tok : Nat]]
      /\ \A e \in Devices : e # d => agent'[e] = agent[e]
      /\ agent' = agent \/ (agent'[d].r = run[d].r /\ agent'[d].tok = run[d].tok)
  <2>1. [r |-> run[d].r, tok |-> run[d].tok] \in [r : 0 .. MaxRows, tok : Nat]
    BY <1>1 DEF RunRec
  <2> QED
    BY <1>5, <2>1, SMTT(60) DEF Types
<1> QED
  BY <1>1, <1>2, <1>4, <1>5, <1>6 DEF Types

\* The addresses that scripts have told a device to add.
Told(d) == tunnel[d] \cup missed[d]

\* The address joins them.
build_bootstrap_linesEffect(d) ==
    /\ UNCHANGED <<who, rows, req, agent, fresh, task, poll, overtaken, subs, late, lost, issued,
                   crossed>>
    /\ run[d].step = "vpn" /\ OtherRuns(d)
    /\ run'[d].step = "register" /\ run'[d].r = run[d].r /\ run'[d].tok = run[d].tok
    /\ run'[d].addr = run[d].addr /\ run'[d].name = run[d].name
    /\ run[d].addr \in Told(d)' /\ \A e \in Devices : Told(e) \subseteq Told(e)'

\* build_bootstrap_lines does this and keeps the types.
LEMMA build_bootstrap_linesDoes ==
    ASSUME Types, References, NEW d \in Devices, build_bootstrap_lines(d)
    PROVE  Types' /\ build_bootstrap_linesEffect(d)
<1> USE DEF build_bootstrap_linesEffect
<1>1. run[d].step = "vpn" /\ run[d] \in RunRec /\ run[d].addr \in 1 .. MaxAddr
  BY RegistryAssumption DEF build_bootstrap_lines, Types, References, DeviceRefs, RunRec
<1>2. /\ run' \in [Devices -> RunRec] /\ OtherRuns(d)
      /\ run'[d].step = "register" /\ run'[d].r = run[d].r /\ run'[d].tok = run[d].tok
      /\ run'[d].addr = run[d].addr /\ run'[d].name = run[d].name
  BY StepDoes DEF build_bootstrap_lines
<1>3. /\ \/ /\ tunnel' = [tunnel EXCEPT ![d] = @ \cup {run[d].addr}]
            /\ missed' = [missed EXCEPT ![d] = @ \ {run[d].addr}]
         \/ missed' = [missed EXCEPT ![d] = @ \cup {run[d].addr}] /\ tunnel' = tunnel
      /\ UNCHANGED <<who, rows, req, agent, fresh, task, poll, overtaken, subs, late, lost, issued, crossed>>
  BY DEF build_bootstrap_lines, statusVars, subVars
<1>4. /\ tunnel' \in [Devices -> SUBSET (1 .. MaxAddr)]
      /\ missed' \in [Devices -> SUBSET (1 .. MaxAddr)]
      /\ run[d].addr \in tunnel'[d] \cup missed'[d]
      /\ \A e \in Devices : tunnel[e] \cup missed[e] \subseteq tunnel'[e] \cup missed'[e]
  <2> DEFINE a == run[d].addr
  <2>1. /\ tunnel \in [Devices -> SUBSET (1 .. MaxAddr)] /\ a \in 1 .. MaxAddr
        /\ missed \in [Devices -> SUBSET (1 .. MaxAddr)]
    BY <1>1 DEF Types
  <2> HIDE DEF a
  <2>2. CASE /\ tunnel' = [tunnel EXCEPT ![d] = tunnel[d] \cup {a}]
             /\ missed' = [missed EXCEPT ![d] = missed[d] \ {a}]
    <3>1. /\ tunnel'[d] = tunnel[d] \cup {a} /\ missed'[d] = missed[d] \ {a}
          /\ \A e \in Devices : e # d => tunnel'[e] = tunnel[e] /\ missed'[e] = missed[e]
      BY <2>1, <2>2
    <3>2. /\ tunnel' \in [Devices -> SUBSET (1 .. MaxAddr)]
          /\ missed' \in [Devices -> SUBSET (1 .. MaxAddr)]
      <4>1. tunnel[d] \cup {a} \in SUBSET (1 .. MaxAddr) /\ missed[d] \ {a} \in SUBSET (1 .. MaxAddr)
        BY <2>1
      <4> QED
        BY <2>1, <2>2, <4>1
    <3> QED
      BY <3>1, <3>2 DEF a
  <2>3. CASE missed' = [missed EXCEPT ![d] = missed[d] \cup {a}] /\ tunnel' = tunnel
    <3>1. /\ missed'[d] = missed[d] \cup {a}
          /\ \A e \in Devices : e # d => missed'[e] = missed[e]
      BY <2>1, <2>3
    <3>2. missed' \in [Devices -> SUBSET (1 .. MaxAddr)]
      <4>1. missed[d] \cup {a} \in SUBSET (1 .. MaxAddr)
        BY <2>1
      <4> QED
        BY <2>1, <2>3, <4>1
    <3> QED
      BY <2>1, <2>3, <3>1, <3>2 DEF a
  <2> QED
    BY <1>3, <2>2, <2>3 DEF a
<1>5. run[d].addr \in Told(d)' /\ \A e \in Devices : Told(e) \subseteq Told(e)'
  BY <1>4 DEF Told
<1> QED
  BY <1>1, <1>2, <1>3, <1>4, <1>5 DEF Types

\* The key is stored in the row that is found.
register_peerEffect(d) ==
    /\ UNCHANGED <<who, req, agent, tunnel, missed, fresh, task, poll, overtaken, subs, late, lost, issued,
                   crossed>>
    /\ run[d].step = "register" /\ run'[d].step = "none" /\ run'[d].tok = 0 /\ OtherRuns(d)
    /\ \/ rows' = rows
       \/ \E r \in Live :
             /\ PeerRow(d) = {r} /\ OtherRows(r)
             /\ rows'[r].key = d /\ rows'[r].addr # 0
             /\ rows[r].addr # 0 => rows'[r].addr = rows[r].addr
             /\ KeepsIdentity(r) /\ KeepsToken(r) /\ KeepsStatus(r)

\* register_peer does this and keeps the types.
LEMMA register_peerDoes ==
    ASSUME Types, References, NEW d \in Devices, register_peer(d)
    PROVE  Types' /\ register_peerEffect(d)
<1> USE DEF register_peerEffect
<1>1. run[d].step = "register" /\ Step(d, "none")
  BY DEF register_peer
<1>2. run' \in [Devices -> RunRec] /\ OtherRuns(d) /\ run'[d].step = "none" /\ run'[d].tok = 0
  BY <1>1, StepDoes
<1>3. UNCHANGED <<who, req, agent, tunnel, missed, fresh, task, poll, overtaken, subs, late, lost, issued,
                  crossed>>
  BY DEF register_peer, statusVars, subVars
<1>4. CASE rows' = rows
  BY <1>1, <1>2, <1>3, <1>4, SMTT(60) DEF Types
<1>5. CASE rows' # rows
  <2>1. PICK r \in PeerRow(d) :
           /\ PeerRow(d) = {r} /\ allocate_ip(rows[r].addr) # 0
           /\ rows' = [rows EXCEPT ![r].addr = allocate_ip(rows[r].addr), ![r].key = d]
    BY <1>5 DEF register_peer
  <2>2. r \in Live /\ r \in RowIds /\ rows[r] \in RowRec /\ rows[r].addr \in 0 .. MaxAddr
    BY <2>1 DEF PeerRow, ByName, ByIp, Live, Types, RowRec
  <2> DEFINE a == allocate_ip(rows[r].addr)
             x == [rows[r] EXCEPT !.addr = a, !.key = d]
  <2>3. a \in 0 .. MaxAddr /\ (rows[r].addr # 0 => a = rows[r].addr)
    BY <2>2, FreeAddressInRange
  <2>4. rows' = [rows EXCEPT ![r] = x]
    BY <2>1, <2>2 DEF Types
  <2> HIDE DEF a
  <2>5. x \in RowRec /\ x.addr = a /\ x.key = d
    BY <2>2, <2>3, ZenonT(60) DEF RowRec
  <2>6. /\ x.st = rows[r].st /\ x.name = rows[r].name /\ x.org = rows[r].org /\ x.port = rows[r].port
        /\ x.tok = rows[r].tok /\ x.polled = rows[r].polled /\ x.online = rows[r].online
    BY <2>2 DEF RowRec
  <2> HIDE DEF x
  <2>7. rows' \in [RowIds -> RowRec] /\ rows'[r] = x /\ OtherRows(r)
    BY <2>2, <2>4, <2>5, RowStep DEF OtherRows
  <2>8. a # 0
    BY <2>1 DEF a
  <2> QED
    BY <1>1, <1>2, <1>3, <2>1, <2>2, <2>3, <2>5, <2>6, <2>7, <2>8, ZenonT(60)
    DEF Types, KeepsIdentity, KeepsToken, KeepsStatus
<1> QED
  BY <1>4, <1>5

\* The poll reads the status of the agent's row.
PollLoadEffect(d) ==
    UNCHANGED <<who, rows, req, run, agent, tunnel, missed, fresh, task, overtaken, subs, late,
                lost, issued, crossed>>

\* PollLoad does this and keeps the types.
LEMMA PollLoadDoes ==
    ASSUME Types, NEW d \in Devices, PollLoad(d)
    PROVE  Types' /\ PollLoadEffect(d)
<1> USE DEF PollLoadEffect
<1> DEFINE x == [r |-> agent[d].r, online |-> rows[agent[d].r].online]
<1>1. agent[d].r \in 0 .. MaxRows /\ rows[agent[d].r] \in RowRec
  BY DEF PollLoad, Accepted, Live, Types
<1>2. x \in [r : 0 .. MaxRows, online : BOOLEAN]
  BY <1>1 DEF RowRec
<1>3. /\ poll' = [poll EXCEPT ![d] = x]
      /\ UNCHANGED <<who, rows, req, run, agent, tunnel, missed, fresh, task, overtaken, subs, late,
                     lost, issued, crossed>>
  BY DEF PollLoad, deviceVars, subVars
<1> HIDE DEF x
<1>4. poll' \in [Devices -> [r : 0 .. MaxRows, online : BOOLEAN]]
  BY <1>2, <1>3 DEF Types
<1> QED
  BY <1>3, <1>4 DEF Types

\* The poll is noted in the row and by a sync under way.
handle_pollEffect(d) ==
    /\ UNCHANGED <<who, req, run, agent, tunnel, missed, subs, late, lost, issued, crossed>>
    /\ \/ UNCHANGED <<rows, fresh, task, overtaken>>
       \/ /\ poll[d].r \in Live /\ OtherRows(poll[d].r)
          /\ KeepsIdentity(poll[d].r) /\ KeepsToken(poll[d].r) /\ KeepsTunnel(poll[d].r)
          /\ rows'[poll[d].r].polled = TRUE
          /\ fresh' = fresh \cup {poll[d].r} /\ overtaken \ {poll[d].r} \subseteq overtaken'
          /\ rows'[poll[d].r].online \/ poll[d].r \in overtaken'
          /\ task'.on = task.on /\ task'.of = task.of /\ task'.polled = task.polled
          /\ task'.online = task.online /\ task'.fresh = task.fresh
          /\ task.on => task'.again = task.again \cup {poll[d].r}

\* handle_poll does this and keeps the types.
LEMMA handle_pollDoes ==
    ASSUME Types, NEW d \in Devices, handle_poll(d)
    PROVE  Types' /\ handle_pollEffect(d)
<1> USE DEF handle_pollEffect
<1> DEFINE r == poll[d].r
           on == poll[d].online => rows[r].online
           x == [rows[r] EXCEPT !.polled = TRUE, !.online = on]
           t == [task EXCEPT !.again = IF task.on THEN @ \cup {r} ELSE @]
<1>1. poll' \in [Devices -> [r : 0 .. MaxRows, online : BOOLEAN]]
  <2>1. NoPoll \in [r : 0 .. MaxRows, online : BOOLEAN] /\ poll' = [poll EXCEPT ![d] = NoPoll]
    BY RegistryAssumption DEF handle_poll, NoPoll
  <2> QED
    BY <2>1 DEF Types
<1>2. UNCHANGED <<who, req, run, agent, tunnel, missed, subs, late, lost, issued, crossed>>
  BY DEF handle_poll, deviceVars, subVars
<1>3. CASE r \notin Live
  BY <1>1, <1>2, <1>3 DEF handle_poll, Types
<1>4. CASE r \in Live
  <2>1. /\ r \in RowIds /\ rows[r] \in RowRec /\ task \in TaskRec /\ poll[d].online \in BOOLEAN
        /\ rows[r].online \in BOOLEAN
    BY <1>4 DEF Live, Types, RowRec
  <2>2. on \in BOOLEAN
    BY <2>1
  <2>3. /\ rows' = [rows EXCEPT ![r].polled = TRUE, ![r].online = on] /\ task' = t
        /\ fresh' = fresh \cup {r}
        /\ overtaken' = IF on THEN overtaken \ {r} ELSE overtaken \cup {r}
    BY <1>4, Zenon DEF handle_poll
  <2> HIDE DEF on
  <2>4. rows' = [rows EXCEPT ![r] = x]
    BY <2>1, <2>3 DEF Types
  <2>5. x \in RowRec /\ x.polled = TRUE /\ x.online = on
    BY <2>1, <2>2, Zenon DEF RowRec
  <2>6. /\ x.st = rows[r].st /\ x.name = rows[r].name /\ x.org = rows[r].org /\ x.port = rows[r].port
        /\ x.tok = rows[r].tok /\ x.addr = rows[r].addr /\ x.key = rows[r].key
    BY <2>1 DEF RowRec
  <2>7. /\ t \in TaskRec /\ t.on = task.on /\ t.of = task.of /\ t.polled = task.polled
        /\ t.online = task.online /\ t.fresh = task.fresh
        /\ task.on => t.again = task.again \cup {r}
    <3> DEFINE again == IF task.on THEN task.again \cup {r} ELSE task.again
    <3>1. again \in SUBSET RowIds
      BY <2>1 DEF TaskRec
    <3>2. t = [task EXCEPT !.again = again]
      OBVIOUS
    <3> HIDE DEF again
    <3>3. /\ t \in TaskRec /\ t.on = task.on /\ t.of = task.of /\ t.polled = task.polled
          /\ t.online = task.online /\ t.fresh = task.fresh /\ t.again = again
      BY <2>1, <3>1, <3>2 DEF TaskRec
    <3> QED
      BY <3>3 DEF again
  <2> HIDE DEF x, t
  <2>8. rows' \in [RowIds -> RowRec] /\ rows'[r] = x /\ OtherRows(r)
    BY <2>1, <2>4, <2>5, RowStep DEF OtherRows
  <2>9. /\ overtaken' \in SUBSET RowIds /\ fresh' \in SUBSET RowIds
        /\ overtaken \ {r} \subseteq overtaken' /\ (on \/ r \in overtaken')
    BY <2>1, <2>2, <2>3, Zenon DEF Types
  <2>10. KeepsIdentity(r) /\ KeepsToken(r) /\ KeepsTunnel(r)
    BY <2>6, <2>8 DEF KeepsIdentity, KeepsToken, KeepsTunnel
  <2>11. rows'[r].polled = TRUE /\ (rows'[r].online \/ r \in overtaken')
    BY <2>5, <2>8, <2>9, Zenon
  <2> QED
    BY <1>1, <1>2, <1>4, <2>3, <2>7, <2>8, <2>9, <2>10, <2>11 DEF Types
<1> QED
  BY <1>3, <1>4

\* The last poll is older than the threshold.
LapseEffect(r) ==
    /\ fresh' = fresh \ {r} /\ overtaken' = overtaken \ {r}
    /\ UNCHANGED <<who, rows, req, run, agent, tunnel, missed, task, poll, subs, late, lost, issued, crossed>>

\* Lapse does this and keeps the types.
LEMMA LapseDoes ==
    ASSUME Types, NEW r \in RowIds, Lapse(r)
    PROVE  Types' /\ LapseEffect(r)
  BY DEF LapseEffect, Lapse, deviceVars, subVars, Types

\* What the sync reads.
SyncLoadEffect ==
    /\ task'.of = Live /\ task'.polled = {r \in Live : rows[r].polled}
    /\ task'.fresh = fresh /\ task'.again = {}
    /\ UNCHANGED <<who, rows, req, run, agent, tunnel, missed, fresh, poll, overtaken, subs, late, lost,
                   issued, crossed>>

\* SyncLoad does this and keeps the types.
LEMMA SyncLoadDoes ==
    ASSUME Types, SyncLoad
    PROVE  Types' /\ SyncLoadEffect
<1> USE DEF SyncLoadEffect
<1> DEFINE t == [on |-> TRUE, of |-> Live, fresh |-> fresh, again |-> {},
                 online |-> {r \in Live : rows[r].online},
                 polled |-> {r \in Live : rows[r].polled}]
<1>1. /\ task' = t
      /\ UNCHANGED <<who, rows, req, run, agent, tunnel, missed, fresh, poll, overtaken, subs, late, lost,
                     issued, crossed>>
  BY DEF SyncLoad, deviceVars, subVars
<1>2. t \in TaskRec
  <2>1. /\ Live \in SUBSET RowIds /\ {r \in Live : rows[r].online} \in SUBSET RowIds
        /\ {r \in Live : rows[r].polled} \in SUBSET RowIds /\ fresh \in SUBSET RowIds
    BY DEF Live, Types
  <2> QED
    BY <2>1 DEF TaskRec
<1>3. /\ t.of = Live /\ t.polled = {r \in Live : rows[r].polled}
      /\ t.fresh = fresh /\ t.again = {}
  OBVIOUS
<1> HIDE DEF t
<1> QED
  BY <1>1, <1>2, <1>3 DEF Types

\* Rows of the sync: which ones it writes, and what becomes of those it writes offline.
sync_router_statusEffect ==
    /\ task.on /\ ~ task'.on
    /\ UNCHANGED <<who, req, run, agent, tunnel, missed, fresh, poll, subs, late, lost, issued, crossed>>
    /\ \A r \in RowIds : /\ KeepsIdentity(r) /\ KeepsToken(r) /\ KeepsTunnel(r)
                         /\ rows'[r].polled = rows[r].polled
    /\ overtaken \subseteq overtaken'
    /\ \E s \in SUBSET task.of :
          /\ MayFindOnline(s)
          /\ \A r \in RowIds :
                \/ rows'[r].online = rows[r].online
                \/ rows'[r].online
                \/ /\ r \notin s
                   /\ r \in task.again \cap fresh => r \in overtaken'

\* sync_router_status does this and keeps the types.
LEMMA sync_router_statusDoes ==
    ASSUME Types, sync_router_status
    PROVE  Types' /\ sync_router_statusEffect
<1> USE DEF sync_router_statusEffect
<1>1. PICK s \in SUBSET task.of :
         LET written == (s \ task.online) \cup (task.online \ s) IN
         /\ MayFindOnline(s)
         /\ IF written \subseteq Live
            THEN /\ rows' = [r \in RowIds |-> IF r \in written THEN [rows[r] EXCEPT !.online = r \in s]
                                                              ELSE rows[r]]
                 /\ overtaken' = overtaken \cup ((written \ s) \cap task.again \cap fresh)
            ELSE UNCHANGED <<rows, overtaken>>
  BY DEF sync_router_status
<1>2. /\ task.on /\ task' = NoTask
      /\ UNCHANGED <<who, req, run, agent, tunnel, missed, fresh, poll, subs, late, lost, issued, crossed>>
  BY DEF sync_router_status, deviceVars, subVars
<1>3. NoTask \in TaskRec /\ ~ NoTask.on
  BY DEF NoTask, TaskRec
<1>4. CASE UNCHANGED <<rows, overtaken>>
  BY <1>1, <1>2, <1>3, <1>4 DEF Types, KeepsIdentity, KeepsToken, KeepsTunnel
<1>5. CASE ~ UNCHANGED <<rows, overtaken>>
  <2> DEFINE written == (s \ task.online) \cup (task.online \ s)
  <2>1. /\ rows' = [r \in RowIds |-> IF r \in written THEN [rows[r] EXCEPT !.online = r \in s]
                                                     ELSE rows[r]]
        /\ overtaken' = overtaken \cup ((written \ s) \cap task.again \cap fresh)
    BY <1>1, <1>5
  <2> HIDE DEF written
  <2>2. ASSUME NEW r \in RowIds
        PROVE  /\ rows'[r] \in RowRec
               /\ KeepsIdentity(r) /\ KeepsToken(r) /\ KeepsTunnel(r)
               /\ rows'[r].polled = rows[r].polled
               /\ \/ rows'[r].online = rows[r].online
                  \/ r \in written /\ (rows'[r].online <=> r \in s)
    <3> DEFINE x == [rows[r] EXCEPT !.online = r \in s]
    <3>1. rows[r] \in RowRec /\ (r \in s) \in BOOLEAN
      BY DEF Types
    <3>2. x \in RowRec /\ x.online = (r \in s)
      BY <3>1, ZenonT(60) DEF RowRec
    <3>3. /\ x.st = rows[r].st /\ x.name = rows[r].name /\ x.org = rows[r].org
          /\ x.port = rows[r].port /\ x.tok = rows[r].tok /\ x.addr = rows[r].addr
          /\ x.key = rows[r].key /\ x.polled = rows[r].polled
      BY <3>1 DEF RowRec
    <3>4. rows'[r] = IF r \in written THEN x ELSE rows[r]
      BY <2>1
    <3> HIDE DEF x
    <3> QED
      BY <3>1, <3>2, <3>3, <3>4 DEF KeepsIdentity, KeepsToken, KeepsTunnel
  <2>3. rows' \in [RowIds -> RowRec]
    <3>1. rows' = [r \in RowIds |-> rows'[r]]
      BY <2>1
    <3> QED
      BY <2>2, <3>1
  <2>4. overtaken' \in SUBSET RowIds /\ overtaken \subseteq overtaken'
    BY <2>1 DEF Types
  <2>5. ASSUME NEW r \in RowIds
        PROVE  \/ rows'[r].online = rows[r].online
               \/ rows'[r].online
               \/ /\ r \notin s
                  /\ r \in task.again \cap fresh => r \in overtaken'
    <3>1. CASE r \in written /\ r \notin s
      <4>1. r \in task.again \cap fresh => r \in overtaken'
        BY <2>1, <3>1
      <4> QED
        BY <3>1, <4>1
    <3> QED
      BY <2>2, <3>1
  <2> QED
    BY <1>1, <1>2, <1>3, <2>2, <2>3, <2>4, <2>5 DEF Types
<1> QED
  BY <1>4, <1>5

-----------------------------------------------------------------------------
(***************************************************************************)
(* The inductive invariants, one for each thing that is promised.          *)
(***************************************************************************)

\* A deletion under way whose router has a subscription now has been overtaken.
Deletions ==
    /\ KeptUnlessLate
    /\ \A h \in Requests : req[h].pc = "delete" /\ req[h].r \in subs => req[h].r \in late

\* A creation has chosen the least port nobody had, and ports are not given back
\* unseen: two creations that can both still succeed have chosen the same one.
Creations ==
    /\ "deleted" \notin crossed =>
          \A h \in Requests : req[h].pc = "create" =>
             \A n \in 1 .. MaxPort : n < req[h].val => n \in UsedPorts
    /\ crossed \cap {"deleted", "renamed", "created"} = {} =>
          \A h \in Requests : req[h].pc = "port" \/ (req[h].pc = "create" /\ ~ PortTaken(h)) =>
             \A r \in Live : ~ (/\ rows[r].org = who[req[h].d].org
                                /\ rows[r].name = who[req[h].d].name)
    /\ OneRowPerName

\* A script that is made alone carries the row's token.
Tokens ==
    "scripts" \notin crossed =>
       /\ \A g, h \in Requests :
             req[g].pc \in Scripting /\ req[h].pc \in Scripting /\ req[g].r = req[h].r => g = h
       /\ \A h \in Requests :
             req[h].pc = "token" /\ req[h].r \in Live => rows[req[h].r].tok = req[h].tok
       /\ \A d \in Devices :
             agent[d].r \in Live => agent[d].tok # 0 /\ rows[agent[d].r].tok = agent[d].tok

\* The row a script is made for is that of the device; it has one address, which the
\* device is told to add to its tunnel before it posts its key.
Tunnels ==
    crossed = {} =>
       /\ \A h \in Requests : req[h].pc \in Scripting =>
             /\ req[h].r \in Live /\ rows[req[h].r].name = who[req[h].d].name
             /\ req[h].pc # "reserve" \/ rows[req[h].r].addr # 0 => req[h].val = rows[req[h].r].addr
       /\ \A d \in Devices : run[d].step # "none" =>
             /\ run[d].r \in Live /\ rows[run[d].r].name = who[d].name /\ run[d].name = who[d].name
             /\ run[d].addr # 0 => rows[run[d].r].addr = run[d].addr
             /\ run[d].step = "register" => run[d].addr \in Told(d)
       /\ \A d \in Devices : agent[d].r \in Live => rows[agent[d].r].name = who[d].name
       /\ \A r \in Live : rows[r].key # "none" =>
             /\ rows[r].addr # 0 /\ rows[r].addr \in Told(rows[r].key)
             /\ rows[r].name = who[rows[r].key].name
       /\ \A r, o \in Live : rows[r].key # "none" /\ rows[r].key = rows[o].key => r = o

\* A poll that the sync has not read came after it read the row.
Polls ==
    /\ \A r \in fresh : r \in Live /\ rows[r].polled
    /\ task.on => task.fresh \subseteq task.polled /\ fresh \subseteq task.fresh \cup task.again
    /\ OfflineIsDeserved

\* The inductive invariant.
Inv ==
    /\ Types /\ References
    /\ Deletions /\ Creations /\ Tokens /\ Tunnels /\ Polls

\* The types of the fields that the invariants compare.
LEMMA Fields ==
    ASSUME Types
    PROVE  /\ issued \in Nat
           /\ \A r \in RowIds : rows[r].tok \in Nat /\ rows[r].addr \in 0 .. MaxAddr
           /\ \A h \in Requests : req[h].tok \in Nat /\ req[h].r \in 0 .. MaxRows
           /\ \A d \in Devices : /\ run[d].tok \in Nat /\ run[d].addr \in 0 .. MaxAddr
                                 /\ agent[d].r \in 0 .. MaxRows /\ agent[d].tok \in Nat
  BY DEF Types, RowRec, ReqRec, RunRec

\* No row changes its name, port or state, or none its address and key.
SameIdentities == \A r \in RowIds : KeepsIdentity(r)
SameTunnels    == \A r \in RowIds : KeepsTunnel(r)

\* Then the same rows are live and the same ports are taken.
LEMMA SameLive ==
    ASSUME SameIdentities
    PROVE  Live' = Live /\ UsedPorts' = UsedPorts
<1>1. Live' = Live
  BY DEF SameIdentities, KeepsIdentity, Live
<1> QED
  BY <1>1 DEF SameIdentities, KeepsIdentity, Live, UsedPorts

\* And what is promised of creations under way stays true of the same creations.
LEMMA SameCreations ==
    ASSUME Creations, SameIdentities, UNCHANGED <<who, crossed>>,
           \A h \in Requests : req'[h].pc \in {"port", "create"} => req'[h] = req[h]
    PROVE  Creations'
<1>1. /\ Live' = Live /\ UsedPorts' = UsedPorts
      /\ \A r \in Live : rows'[r].name = rows[r].name /\ rows'[r].org = rows[r].org
  BY SameLive DEF SameIdentities, KeepsIdentity, Live
<1>2. ASSUME "deleted" \notin crossed, NEW h \in Requests, req'[h].pc = "create",
             NEW n \in 1 .. MaxPort, n < req'[h].val
      PROVE  n \in UsedPorts
  BY <1>2 DEF Creations
<1>3. ASSUME crossed \cap {"deleted", "renamed", "created"} = {}, NEW h \in Requests,
             req'[h].pc = "port" \/ (req'[h].pc = "create" /\ req'[h].val \notin UsedPorts),
             NEW r \in Live
      PROVE  ~ (rows'[r].org = who[req'[h].d].org /\ rows'[r].name = who[req'[h].d].name)
  <2>1. req'[h] = req[h]
    BY <1>3
  <2> QED
    BY <1>1, <1>3, <2>1 DEF Creations, PortTaken
<1>4. OneRowPerName'
  BY <1>1 DEF Creations, OneRowPerName
<1> QED
  BY <1>1, <1>2, <1>3, <1>4 DEF Creations, PortTaken

\* And what is promised of tunnels stays true when scripts, runs and tunnels do too.
LEMMA SameTunnelsKept ==
    ASSUME Tunnels, SameIdentities, SameTunnels, UNCHANGED <<who, req, run, agent, tunnel, missed, crossed>>
    PROVE  Tunnels'
<1>1. /\ Live' = Live
      /\ \A r \in Live : /\ rows'[r].name = rows[r].name /\ rows'[r].addr = rows[r].addr
                         /\ rows'[r].key = rows[r].key
  BY SameLive DEF SameIdentities, SameTunnels, KeepsIdentity, KeepsTunnel, Live
<1> QED
  BY <1>1 DEF Tunnels, Told

\* The duplicate check: no row has the identity.
LEMMA CreateCheckKeeps ==
    ASSUME Inv, NEW h \in Requests, NEW d \in Devices, NEW ip \in IpOf(d), CreateCheck(h, d, ip)
    PROVE  Inv'
<1> USE RegistryAssumption, Fields
    DEF Inv, References, Told, CreateCheckEffect, Live, RowIds, Scripting, OtherReqs
<1>1. Types' /\ CreateCheckEffect(h, d, ip)
  BY CreateCheckDoes
<1>2. RowRefs'
  BY <1>1 DEF RowRefs, ReqRefs
<1>3. ReqRefs'
  BY <1>1, FreePortInRange DEF ReqRefs, RowRefs, DeviceRefs, FreePorts
<1>4. DeviceRefs'
  BY <1>1 DEF DeviceRefs, RowRefs, ReqRefs
<1>5. Deletions'
  BY <1>1 DEF Deletions, KeptUnlessLate, ReqRefs
<1>6. Creations'
  <2>1. UsedPorts' = UsedPorts /\ Live' = Live
    BY <1>1 DEF UsedPorts
  <2>2. \A r \in Live : ~ (rows[r].org = who[d].org /\ rows[r].name = who[d].name)
    BY <1>1 DEF Duplicate, Own
  <2>3. \A g \in Requests : g # h => req'[g] = req[g]
    BY <1>1
  <2>4. /\ req'[h].pc = "port" /\ req'[h].d = d
        /\ UNCHANGED <<who, rows, crossed>>
    BY <1>1
  <2>5. OneRowPerName'
    BY <2>1, <2>4 DEF Creations, OneRowPerName
  <2> HIDE DEF CreateCheckEffect, Live, OtherReqs
  <2> QED
    BY <2>1, <2>2, <2>3, <2>4, <2>5 DEF Creations, PortTaken
<1>7. Tokens'
  BY <1>1, SMTT(60) DEF Tokens, ReqRefs, DeviceRefs, Underway
<1>8. Tunnels'
  BY <1>1, SMTT(60) DEF Tunnels, Tokens, ReqRefs, DeviceRefs
<1>9. Polls'
  BY <1>1 DEF Polls, OfflineIsDeserved
<1> QED
  BY <1>1, <1>2, <1>3, <1>4, <1>5, <1>6, <1>7, <1>8, <1>9

\* The choice of the port: every port below the chosen one is taken.
LEMMA PickPortKeeps ==
    ASSUME Inv, NEW h \in Requests, PickPort(h)
    PROVE  Inv'
<1> USE RegistryAssumption, Fields
    DEF Inv, References, Told, PickPortEffect, Live, RowIds, Scripting, OtherReqs
<1>1. Types' /\ PickPortEffect(h)
  BY PickPortDoes
<1>2. RowRefs'
  BY <1>1 DEF RowRefs, ReqRefs
<1>3. ReqRefs'
  BY <1>1, FreePortInRange DEF ReqRefs, RowRefs, DeviceRefs, FreePorts
<1>4. DeviceRefs'
  BY <1>1 DEF DeviceRefs, RowRefs, ReqRefs
<1>5. Deletions'
  BY <1>1 DEF Deletions, KeptUnlessLate, ReqRefs
<1>6. Creations'
  <2>1. UsedPorts' = UsedPorts /\ Live' = Live
    BY <1>1 DEF UsedPorts
  <2>2. req'[h].pc = "create" =>
           \A n \in 1 .. MaxPort : n < req'[h].val => n \in UsedPorts
    BY <1>1, FreePortInRange DEF FreePorts
  <2>3. \A g \in Requests : g # h => req'[g] = req[g]
    BY <1>1
  <2>4. /\ req[h].pc = "port" /\ req'[h].pc \in {"idle", "create"}
        /\ req'[h].pc = "create" => req'[h].d = req[h].d
        /\ UNCHANGED <<who, rows, crossed>>
    BY <1>1
  <2>5. OneRowPerName'
    BY <2>1, <2>4 DEF Creations, OneRowPerName
  <2> HIDE DEF PickPortEffect, Live, OtherReqs
  <2> QED
    BY <2>1, <2>2, <2>3, <2>4, <2>5 DEF Creations, PortTaken
<1>7. Tokens'
  BY <1>1, SMTT(60) DEF Tokens, ReqRefs, DeviceRefs, Underway
<1>8. Tunnels'
  BY <1>1, SMTT(60) DEF Tunnels, Tokens, ReqRefs, DeviceRefs
<1>9. Polls'
  BY <1>1 DEF Polls, OfflineIsDeserved
<1> QED
  BY <1>1, <1>2, <1>3, <1>4, <1>5, <1>6, <1>7, <1>8, <1>9

\* The insert: it takes the one port that any other pending creation could have used.
LEMMA create_routerKeeps ==
    ASSUME Inv, NEW h \in Requests, create_router(h)
    PROVE  Inv'
<1> USE RegistryAssumption, Fields
    DEF Inv, References, Told, create_routerEffect, Live, RowIds, Scripting, OtherReqs, OtherRows,
        KeepsIdentity, KeepsToken, KeepsTunnel, KeepsStatus
<1>1. Types' /\ create_routerEffect(h)
  BY create_routerDoes
<1>2. RowRefs'
  BY <1>1 DEF RowRefs, ReqRefs
<1>3. ReqRefs'
  BY <1>1, FreePortInRange DEF ReqRefs, RowRefs, DeviceRefs, FreePorts
<1>4. DeviceRefs'
  BY <1>1 DEF DeviceRefs, RowRefs, ReqRefs
<1>5. Deletions'
  BY <1>1 DEF Deletions, KeptUnlessLate, ReqRefs
<1>6. Creations'
  <2>1. CASE rows' = rows
    <3>1. UsedPorts' = UsedPorts /\ Live' = Live
      BY <2>1 DEF UsedPorts
    <3>2. /\ \A g \in Requests : g # h => req'[g] = req[g]
          /\ req'[h].pc = "idle" /\ crossed \subseteq crossed' /\ who' = who
      BY <1>1
    <3>3. OneRowPerName'
      BY <2>1, <3>1, <3>2 DEF Creations, OneRowPerName
    <3> HIDE DEF create_routerEffect, Live, OtherReqs
    <3> QED
      BY <2>1, <3>1, <3>2, <3>3 DEF Creations, PortTaken
  <2>2. CASE rows' # rows
    <3>1. PICK r \in RowIds :
             /\ ~ PortTaken(h) /\ (Rivals(h) # {} => "created" \in crossed')
             /\ rows[r].st = "none" /\ OtherRows(r)
             /\ rows'[r].st = "live" /\ rows'[r].port = req[h].val
             /\ rows'[r].name = who[req[h].d].name /\ rows'[r].org = who[req[h].d].org
      BY <1>1, <2>2
    <3>2. Live' = Live \cup {r} /\ r \notin Live
      BY <3>1
    <3>3. UsedPorts' = UsedPorts \cup {req[h].val}
      BY <3>1, <3>2 DEF UsedPorts
    \* every port below the one that was free is taken: no other creation can succeed
    <3>4. ASSUME "deleted" \notin crossed, NEW g \in Requests, g # h, req[g].pc = "create"
          PROVE  PortTaken(g)'
      <4>1. req'[g] = req[g] /\ req[h].pc = "create"
        BY <1>1, <3>4
      <4>2. req[g].val \in 1 .. MaxPort /\ req[h].val \in 1 .. MaxPort
        BY <3>4, <4>1 DEF ReqRefs
      <4>3. req[h].val \notin UsedPorts
        BY <3>1 DEF PortTaken
      <4>4. ~ (req[h].val < req[g].val)
        BY <3>4, <4>2, <4>3 DEF Creations
      <4>5. req[g].val < req[h].val => req[g].val \in UsedPorts
        BY <3>4, <4>1, <4>2 DEF Creations
      <4> QED
        BY <3>3, <4>1, <4>2, <4>4, <4>5 DEF PortTaken
    <3>5. OneRowPerName'
      BY <1>1, <3>1, <3>2, SMTT(60) DEF Creations, OneRowPerName
    <3>6. /\ \A g \in Requests : g # h => req'[g] = req[g]
          /\ req'[h].pc = "idle" /\ crossed \subseteq crossed' /\ who' = who
      BY <1>1
    \* a creation of the same identity before its choice is a rival
    <3>7. ASSUME crossed' \cap {"deleted", "renamed", "created"} = {},
                 NEW g \in Requests, req'[g].pc = "port", NEW o \in Live'
          PROVE  ~ (rows'[o].org = who[req'[g].d].org /\ rows'[o].name = who[req'[g].d].name)
      <4>1. g # h /\ req'[g] = req[g] /\ req[g].d \in Devices /\ req[h].d \in Devices
        BY <1>1, <3>6, <3>7 DEF ReqRefs
      <4>2. CASE o # r
        BY <3>1, <3>2, <3>6, <3>7, <4>1, <4>2 DEF Creations
      <4>3. CASE o = r
        <5>1. who[req[g].d] # who[req[h].d]
          BY <3>1, <3>7, <4>1 DEF Rivals
        <5>2. who[req[g].d] \in [name : Names, org : Orgs] /\ who[req[h].d] \in [name : Names, org : Orgs]
          BY <4>1 DEF Types
        <5>3. ~ (who[req[h].d].org = who[req[g].d].org /\ who[req[h].d].name = who[req[g].d].name)
          BY <5>1, <5>2
        <5> QED
          BY <3>1, <4>1, <4>3, <5>3
      <4> QED
        BY <4>2, <4>3
    <3>8. ASSUME "deleted" \notin crossed', NEW g \in Requests, req'[g].pc = "create",
                 NEW n \in 1 .. MaxPort, n < req'[g].val
          PROVE  n \in UsedPorts'
      BY <3>3, <3>6, <3>8 DEF Creations
    <3>9. ASSUME "deleted" \notin crossed', NEW g \in Requests, req'[g].pc = "create"
          PROVE  PortTaken(g)'
      BY <3>4, <3>6, <3>9
    <3>10. ASSUME crossed' \cap {"deleted", "renamed", "created"} = {}, NEW g \in Requests,
                  req'[g].pc = "port" \/ (req'[g].pc = "create" /\ ~ PortTaken(g)'), NEW o \in Live'
           PROVE  ~ (rows'[o].org = who[req'[g].d].org /\ rows'[o].name = who[req'[g].d].name)
      <4>1. req'[g].pc = "port"
        BY <3>9, <3>10
      <4> QED
        BY <3>7, <3>10, <4>1
    <3> HIDE DEF create_routerEffect, Live, OtherReqs, OtherRows
    <3> QED
      BY <3>5, <3>6, <3>8, <3>10 DEF Creations
  <2> QED
    BY <2>1, <2>2
<1>7. Tokens'
  BY <1>1, SMTT(60) DEF Tokens, ReqRefs, DeviceRefs, Underway
<1>8. Tunnels'
  <2>1. /\ UNCHANGED <<who, run, agent, tunnel, missed>> /\ (crossed' = {} => crossed = {})
        /\ \A g \in Requests : req'[g].pc \in Scripting => req'[g] = req[g]
    BY <1>1
  <2>2. CASE rows' = rows
    <3>1. Live' = Live
      BY <2>2, SMTT(60)
    <3> HIDE DEF Live
    <3> QED
      BY <2>1, <2>2, <3>1 DEF Tunnels
  <2>3. CASE rows' # rows
    BY <1>1, <2>1, <2>3, SMTT(30) DEF Tunnels, DeviceRefs
  <2> QED
    BY <2>2, <2>3
<1>9. Polls'
  BY <1>1 DEF Polls, OfflineIsDeserved
<1> QED
  BY <1>1, <1>2, <1>3, <1>4, <1>5, <1>6, <1>7, <1>8, <1>9

\* The wizard's upsert changes an address or a name, and a change of name is recorded.
LEMMA upsert_routerKeeps ==
    ASSUME Inv, NEW d \in Devices, NEW ip \in IpOf(d), upsert_router(d, ip)
    PROVE  Inv'
<1> USE RegistryAssumption, Fields
    DEF Inv, References, Told, upsert_routerEffect, Live, RowIds, Scripting, OtherRows, KeepsIdentity,
        KeepsToken, KeepsTunnel, KeepsStatus
<1>1. Types' /\ upsert_routerEffect(d, ip)
  BY upsert_routerDoes
<1>2. RowRefs'
  BY <1>1 DEF RowRefs, ReqRefs
<1>3. ReqRefs'
  BY <1>1, FreePortInRange DEF ReqRefs, RowRefs, DeviceRefs, FreePorts
<1>4. DeviceRefs'
  BY <1>1 DEF DeviceRefs, RowRefs, ReqRefs
<1>5. Deletions'
  BY <1>1 DEF Deletions, KeptUnlessLate, ReqRefs
<1>6. Creations'
  BY <1>1, SMTT(60) DEF Creations, OneRowPerName, PortTaken, UsedPorts, ReqRefs, RowRefs
<1>7. Tokens'
  BY <1>1, SMTT(60) DEF Tokens, ReqRefs, DeviceRefs, Underway
<1>8. Tunnels'
  BY <1>1, SMTT(60) DEF Tunnels, Tokens, ReqRefs, DeviceRefs
<1>9. Polls'
  BY <1>1 DEF Polls, OfflineIsDeserved
<1> QED
  BY <1>1, <1>2, <1>3, <1>4, <1>5, <1>6, <1>7, <1>8, <1>9

\* A deletion starts only without subscriptions.
LEMMA DeleteCheckKeeps ==
    ASSUME Inv, NEW h \in Requests, NEW r \in RowIds, DeleteCheck(h, r)
    PROVE  Inv'
<1> USE RegistryAssumption, Fields
    DEF Inv, References, Told, DeleteCheckEffect, Live, RowIds, Scripting, OtherReqs
<1>1. Types' /\ DeleteCheckEffect(h, r)
  BY DeleteCheckDoes
<1>2. RowRefs'
  BY <1>1 DEF RowRefs, ReqRefs
<1>3. ReqRefs'
  BY <1>1, FreePortInRange DEF ReqRefs, RowRefs, DeviceRefs, FreePorts
<1>4. DeviceRefs'
  BY <1>1 DEF DeviceRefs, RowRefs, ReqRefs
<1>5. Deletions'
  BY <1>1 DEF Deletions, KeptUnlessLate, ReqRefs
<1>6. Creations'
  BY <1>1, SMTT(60) DEF Creations, OneRowPerName, PortTaken, UsedPorts, ReqRefs, RowRefs
<1>7. Tokens'
  BY <1>1 DEF Tokens, ReqRefs, DeviceRefs, Underway
<1>8. Tunnels'
  BY <1>1 DEF Tunnels, Tokens, ReqRefs, DeviceRefs
<1>9. Polls'
  BY <1>1 DEF Polls, OfflineIsDeserved
<1> QED
  BY <1>1, <1>2, <1>3, <1>4, <1>5, <1>6, <1>7, <1>8, <1>9

\* The row goes; a script, a creation or an import that it goes under is recorded.
LEMMA delete_routerKeeps ==
    ASSUME Inv, NEW h \in Requests, delete_router(h)
    PROVE  Inv'
<1> USE RegistryAssumption, Fields
    DEF Inv, References, Told, delete_routerEffect, Live, RowIds, Scripting, OtherReqs, OtherRows,
        KeepsIdentity, KeepsToken, KeepsTunnel, KeepsStatus
<1>1. Types' /\ delete_routerEffect(h)
  BY delete_routerDoes
<1>2. RowRefs'
  BY <1>1 DEF RowRefs, ReqRefs
<1>3. ReqRefs'
  BY <1>1, FreePortInRange DEF ReqRefs, RowRefs, DeviceRefs, FreePorts
<1>4. DeviceRefs'
  BY <1>1 DEF DeviceRefs, RowRefs, ReqRefs
<1>5. Deletions'
  BY <1>1 DEF Deletions, KeptUnlessLate, ReqRefs
<1>6. Creations'
  <2>1. CASE UNCHANGED <<rows, crossed>>
    <3>1. UsedPorts' = UsedPorts /\ Live' = Live
      BY <2>1 DEF UsedPorts
    <3> QED
      BY <1>1, <2>1, <3>1 DEF Creations, OneRowPerName, PortTaken
  <2>2. CASE ~ UNCHANGED <<rows, crossed>>
    <3>1. /\ OtherRows(req[h].r) /\ rows'[req[h].r].st = "gone" /\ crossed \subseteq crossed'
          /\ Underway(Scripting \cup {"port", "create"}) # {} => "deleted" \in crossed'
      BY <1>1, <2>2
    <3>2. "deleted" \notin crossed' => \A g \in Requests : req'[g].pc \notin {"port", "create"}
      BY <1>1, <3>1 DEF Underway
    <3>3. OneRowPerName'
      BY <1>1, <3>1, SMTT(60) DEF Creations, OneRowPerName
    <3> QED
      BY <3>2, <3>3 DEF Creations
  <2> QED
    BY <2>1, <2>2, SMTT(60)
<1>7. Tokens'
  BY <1>1, SMTT(60) DEF Tokens, ReqRefs, DeviceRefs, Underway
<1>8. Tunnels'
  <2>1. CASE UNCHANGED <<rows, crossed>>
    <3>1. Live' = Live
      BY <2>1
    <3> QED
      BY <1>1, <2>1, <3>1 DEF Tunnels
  <2>2. CASE ~ UNCHANGED <<rows, crossed>>
    <3>1. /\ OtherRows(req[h].r) /\ rows'[req[h].r].st = "gone" /\ crossed \subseteq crossed'
          /\ Underway(Scripting \cup {"port", "create"}) \cup Running # {} => "deleted" \in crossed'
          /\ UNCHANGED <<who, run, agent, tunnel, missed>>
      BY <1>1, <2>2
    <3>2. crossed' = {} => \A g \in Requests : req'[g].pc \notin Scripting
      BY <1>1, <3>1 DEF Underway
    <3>3. crossed' = {} => \A d \in Devices : run'[d].step = "none"
      BY <3>1 DEF Running, NoRun
    <3>4. \A r \in Live' : r \in Live /\ rows'[r] = rows[r]
      BY <3>1
    <3> HIDE DEF Live
    <3>5. crossed' = {} => crossed = {}
      BY <3>1
    <3> QED
      BY <3>1, <3>2, <3>3, <3>4, <3>5 DEF Tunnels
  <2> QED
    BY <2>1, <2>2
<1>9. Polls'
  BY <1>1 DEF Polls, OfflineIsDeserved
<1> QED
  BY <1>1, <1>2, <1>3, <1>4, <1>5, <1>6, <1>7, <1>8, <1>9

\* A subscription made while the deletion waits is recorded as late.
LEMMA SubscribeKeeps ==
    ASSUME Inv, NEW r \in RowIds, Subscribe(r)
    PROVE  Inv'
<1> USE RegistryAssumption, Fields DEF Inv, References, Told, SubscribeEffect, Live, RowIds, Scripting
<1>1. Types' /\ SubscribeEffect(r)
  BY SubscribeDoes
<1>2. RowRefs'
  BY <1>1 DEF RowRefs, ReqRefs
<1>3. ReqRefs'
  BY <1>1, FreePortInRange DEF ReqRefs, RowRefs, DeviceRefs, FreePorts
<1>4. DeviceRefs'
  BY <1>1 DEF DeviceRefs, RowRefs, ReqRefs
<1>5. Deletions'
  BY <1>1 DEF Deletions, KeptUnlessLate, ReqRefs
<1>6. Creations'
  BY <1>1 DEF Creations, OneRowPerName, PortTaken, UsedPorts, ReqRefs, RowRefs
<1>7. Tokens'
  BY <1>1, SMTT(60) DEF Tokens, ReqRefs, DeviceRefs, Underway
<1>8. Tunnels'
  BY <1>1 DEF Tunnels, Tokens, ReqRefs, DeviceRefs
<1>9. Polls'
  BY <1>1 DEF Polls, OfflineIsDeserved
<1> QED
  BY <1>1, <1>2, <1>3, <1>4, <1>5, <1>6, <1>7, <1>8, <1>9

\* The script is made for the only row with the device's name; a second one under way for
\* it is recorded.
LEMMA ScriptLoadKeeps ==
    ASSUME Inv, NEW h \in Requests, NEW d \in Devices, ScriptLoad(h, d)
    PROVE  Inv'
<1> USE RegistryAssumption, Fields
    DEF Inv, References, Told, ScriptLoadEffect, Live, RowIds, Scripting, OtherReqs
<1>1. Types' /\ ScriptLoadEffect(h, d)
  BY ScriptLoadDoes
<1>2. RowRefs'
  BY <1>1 DEF RowRefs, ReqRefs
<1>3. ReqRefs'
  BY <1>1, FreePortInRange DEF ReqRefs, RowRefs, DeviceRefs, FreePorts
<1>4. DeviceRefs'
  BY <1>1 DEF DeviceRefs, RowRefs, ReqRefs
<1>5. Deletions'
  BY <1>1, SMTT(60) DEF Deletions, KeptUnlessLate, ReqRefs
<1>6. Creations'
  BY <1>1, SMTT(60) DEF Creations, OneRowPerName, PortTaken, UsedPorts, ReqRefs, RowRefs
<1>7. Tokens'
  BY <1>1, SMTT(60) DEF Tokens, ReqRefs, DeviceRefs, Underway
<1>8. Tunnels'
  <2>1. Live' = Live /\ (crossed' = {} => crossed = {})
    BY <1>1
  <2>2. req'[h].r \in Live /\ rows[req'[h].r].name = who[d].name
    BY <1>1 DEF ByName
  <2> QED
    BY <1>1, <2>1, <2>2, SMTT(60) DEF Tunnels
<1>9. Polls'
  BY <1>1 DEF Polls, OfflineIsDeserved
<1> QED
  BY <1>1, <1>2, <1>3, <1>4, <1>5, <1>6, <1>7, <1>8, <1>9

\* The same for the tunnel's configuration, which the agent asks for.
LEMMA VpnScriptLoadKeeps ==
    ASSUME Inv, NEW h \in Requests, NEW d \in Devices, VpnScriptLoad(h, d)
    PROVE  Inv'
<1> USE RegistryAssumption, Fields
    DEF Inv, References, Told, VpnScriptLoadEffect, Live, RowIds, Scripting, OtherReqs
<1>1. Types' /\ VpnScriptLoadEffect(h, d)
  BY VpnScriptLoadDoes
<1>2. RowRefs'
  BY <1>1 DEF RowRefs, ReqRefs
<1>3. ReqRefs'
  BY <1>1, FreePortInRange DEF ReqRefs, RowRefs, DeviceRefs, FreePorts
<1>4. DeviceRefs'
  BY <1>1 DEF DeviceRefs, RowRefs, ReqRefs
<1>5. Deletions'
  BY <1>1 DEF Deletions, KeptUnlessLate, ReqRefs
<1>6. Creations'
  BY <1>1, SMTT(60) DEF Creations, OneRowPerName, PortTaken, UsedPorts, ReqRefs, RowRefs
<1>7. Tokens'
  BY <1>1, SMTT(60) DEF Tokens, ReqRefs, DeviceRefs, Underway
<1>8. Tunnels'
  BY <1>1, SMTT(60) DEF Tunnels, Tokens, ReqRefs, DeviceRefs
<1>9. Polls'
  BY <1>1 DEF Polls, OfflineIsDeserved
<1> QED
  BY <1>1, <1>2, <1>3, <1>4, <1>5, <1>6, <1>7, <1>8, <1>9

\* A token is replaced only if the row had none, so no agent is shut out.
LEMMA generate_agent_tokenKeeps ==
    ASSUME Inv, NEW h \in Requests, generate_agent_token(h)
    PROVE  Inv'
<1> USE RegistryAssumption, Fields
    DEF Inv, References, Told, generate_agent_tokenEffect, Live, RowIds, Scripting, OtherReqs,
        OtherRows, KeepsIdentity, KeepsToken, KeepsTunnel, KeepsStatus
<1>1. Types' /\ generate_agent_tokenEffect(h)
  BY generate_agent_tokenDoes, SMTT(60)
<1>2. RowRefs'
  BY <1>1, SMTT(60) DEF RowRefs, ReqRefs
<1>3. ReqRefs'
  BY <1>1, FreePortInRange, SMTT(60) DEF ReqRefs, RowRefs, DeviceRefs, FreePorts
<1>4. DeviceRefs'
  BY <1>1, SMTT(60) DEF DeviceRefs, RowRefs, ReqRefs
<1>5. Deletions'
  BY <1>1 DEF Deletions, KeptUnlessLate, ReqRefs
<1>6. Creations'
  <2>a. Creations
    OBVIOUS
  <2> HIDE RegistryAssumption, Fields DEF Inv, References, Live
  <2>1. SameIdentities
    BY <1>1 DEF SameIdentities
  <2>2. UNCHANGED <<who, crossed>>
    BY <1>1
  <2>3. \A g \in Requests : req'[g].pc \in {"port", "create"} => req'[g] = req[g]
    <3> HIDE DEF OtherReqs, OtherRows, KeepsIdentity, KeepsToken, KeepsTunnel, KeepsStatus
    <3>1. req'[h].pc \in {"idle", "pick"} /\ OtherReqs(h)
      BY <1>1, ZenonT(60)
    <3> QED
      BY ONLY <3>1 DEF OtherReqs
  <2> QED
    BY <2>a, <2>1, <2>2, <2>3, SameCreations
<1>7. Tokens'
  BY <1>1, SMTT(60) DEF Tokens, ReqRefs, DeviceRefs, Underway
<1>8. Tunnels'
  <2>a. Tunnels /\ Tokens /\ ReqRefs /\ \A r \in Live : r \in RowIds
    OBVIOUS
  <2> HIDE RegistryAssumption, Fields DEF Inv, References, Live
  <2>1. \A r \in RowIds : KeepsIdentity(r) /\ KeepsTunnel(r)
    BY <1>1, SMTT(60)
  <2>2. Live' = Live
    BY <2>1, SameLive, SMTT(30) DEF SameIdentities
  <2>3. ASSUME crossed' = {}
        PROVE  crossed = {} /\ req[h].r \in Live
    BY <1>1, <2>a, <2>3, SMTT(30) DEF Tunnels
  <2>4. ASSUME crossed' = {}, NEW g \in Requests, req'[g].pc \in Scripting
        PROVE  /\ req'[g].r \in Live /\ rows'[req'[g].r].name = who[req'[g].d].name
               /\ req'[g].pc # "reserve" \/ rows'[req'[g].r].addr # 0
                    => req'[g].val = rows'[req'[g].r].addr
    BY <1>1, <2>a, <2>1, <2>3, <2>4, SMTT(30) DEF Tunnels
  <2>5. UNCHANGED <<who, run, agent, tunnel, missed>> 
    BY <1>1
  <2> HIDE DEF generate_agent_tokenEffect
  <2>6. ASSUME crossed' = {}
        PROVE  /\ \A e \in Devices : run[e].step # "none" =>
                     /\ run[e].r \in Live /\ rows'[run[e].r].name = who[e].name
                     /\ run[e].name = who[e].name
                     /\ run[e].addr # 0 => rows'[run[e].r].addr = run[e].addr
                     /\ run[e].step = "register" => run[e].addr \in Told(e)
               /\ \A e \in Devices : agent[e].r \in Live => rows'[agent[e].r].name = who[e].name
               /\ \A r \in Live : rows'[r].key # "none" =>
                     /\ rows'[r].addr # 0 /\ rows'[r].addr \in Told(rows'[r].key)
                     /\ rows'[r].name = who[rows'[r].key].name
               /\ \A r, o \in Live : rows'[r].key # "none" /\ rows'[r].key = rows'[o].key => r = o
    BY <2>a, <2>1, <2>3, <2>5, <2>6 DEF Tunnels
  <2> QED
    BY <2>2, <2>4, <2>5, <2>6 DEF Tunnels
<1>9. Polls'
  BY <1>1 DEF Polls, OfflineIsDeserved
<1> QED
  BY <1>1, <1>2, <1>3, <1>4, <1>5, <1>6, <1>7, <1>8, <1>9

\* The address that the row has is used again.
LEMMA PickAddressKeeps ==
    ASSUME Inv, NEW h \in Requests, PickAddress(h)
    PROVE  Inv'
<1> USE RegistryAssumption, Fields
    DEF Inv, References, Told, PickAddressEffect, Live, RowIds, Scripting, OtherReqs
<1>1. Types' /\ PickAddressEffect(h)
  BY PickAddressDoes
<1>2. RowRefs'
  BY <1>1 DEF RowRefs, ReqRefs
<1>3. ReqRefs'
  BY <1>1, FreePortInRange DEF ReqRefs, RowRefs, DeviceRefs, FreePorts
<1>4. DeviceRefs'
  BY <1>1 DEF DeviceRefs, RowRefs, ReqRefs
<1>5. Deletions'
  BY <1>1 DEF Deletions, KeptUnlessLate, ReqRefs
<1>6. Creations'
  BY <1>1, SMTT(60) DEF Creations, OneRowPerName, PortTaken, UsedPorts, ReqRefs, RowRefs
<1>7. Tokens'
  BY <1>1 DEF Tokens, ReqRefs, DeviceRefs, Underway
<1>8. Tunnels'
  BY <1>1, SMTT(60) DEF Tunnels, Tokens, ReqRefs, DeviceRefs
<1>9. Polls'
  BY <1>1 DEF Polls, OfflineIsDeserved
<1> QED
  BY <1>1, <1>2, <1>3, <1>4, <1>5, <1>6, <1>7, <1>8, <1>9

\* A row that has an address keeps it, and the script carries it.
LEMMA ReserveAddressKeeps ==
    ASSUME Inv, NEW h \in Requests, ReserveAddress(h)
    PROVE  Inv'
<1> USE RegistryAssumption, Fields
    DEF Inv, References, Told, ReserveAddressEffect, Live, RowIds, Scripting, OtherReqs, OtherRows,
        KeepsIdentity, KeepsToken, KeepsTunnel, KeepsStatus, OtherRuns, Imports
<1>1. Types' /\ ReserveAddressEffect(h)
  BY ReserveAddressDoes, SMTT(60)
<1>2. RowRefs'
  BY <1>1, SMTT(60) DEF RowRefs, ReqRefs
<1>3. ReqRefs'
  BY <1>1, FreePortInRange, SMTT(60) DEF ReqRefs, RowRefs, DeviceRefs, FreePorts
<1>4. DeviceRefs'
  BY <1>1, SMTT(60) DEF DeviceRefs, RowRefs, ReqRefs
<1>5. Deletions'
  BY <1>1 DEF Deletions, KeptUnlessLate, ReqRefs
<1>6. Creations'
  <2>a. Creations
    OBVIOUS
  <2> HIDE RegistryAssumption, Fields DEF Inv, References, Live
  <2>1. SameIdentities
    BY <1>1 DEF SameIdentities
  <2>2. UNCHANGED <<who, crossed>>
    BY <1>1
  <2>3. \A g \in Requests : req'[g].pc \in {"port", "create"} => req'[g] = req[g]
    <3> HIDE DEF OtherReqs, OtherRows, KeepsIdentity, KeepsToken, KeepsTunnel, KeepsStatus
    <3>1. req'[h].pc = "idle" /\ OtherReqs(h)
      BY <1>1, ZenonT(60)
    <3> QED
      BY ONLY <3>1 DEF OtherReqs
  <2> QED
    BY <2>a, <2>1, <2>2, <2>3, SameCreations
<1>7. Tokens'
  BY <1>1, SMTT(60) DEF Tokens, ReqRefs, DeviceRefs, Underway
<1>8. Tunnels'
  <2>a. Tunnels /\ Tokens /\ ReqRefs /\ \A r \in Live : r \in RowIds
    OBVIOUS
  <2> HIDE RegistryAssumption, Fields DEF Inv, References, Live
  <2>1. \A o \in RowIds : KeepsIdentity(o) /\ rows'[o].key = rows[o].key
    BY <1>1, SMTT(60)
  <2>b. SameIdentities /\ UNCHANGED crossed
    BY <1>1, <2>1 DEF SameIdentities
  <2>2. Live' = Live
    BY ONLY <2>b, SameLive
  <2>c. CASE crossed' # {}
    BY <2>c DEF Tunnels
  <2>3. SUFFICES ASSUME crossed = {}
                 PROVE  Tunnels'
    BY <2>b, <2>c, ZenonT(60)
  <2>4. /\ req[h].r \in Live /\ rows[req[h].r].name = who[req[h].d].name /\ req[h].d \in Devices
        /\ rows[req[h].r].addr # 0 => req[h].val = rows[req[h].r].addr
    BY <1>1, <2>a, <2>3, ZenonT(60) DEF Tunnels, ReqRefs
  \* a row that has an address keeps it
  <2>5. \A o \in RowIds : rows[o].addr # 0 => rows'[o].addr = rows[o].addr
    BY <1>1, <2>4, SMTT(60)
  <2>6. \A o \in RowIds : o # req[h].r => rows'[o].addr = rows[o].addr
    BY <1>1, SMTT(60)
  \* no other script of this row is under way
  <2>7. ASSUME NEW g \in Requests, req'[g].pc \in Scripting
        PROVE  g # h /\ req'[g] = req[g] /\ req[g].r # req[h].r
    BY <1>1, <2>a, <2>3, <2>7 DEF Tokens
  <2>8. ASSUME NEW g \in Requests, req'[g].pc \in Scripting
        PROVE  /\ req'[g].r \in Live /\ rows'[req'[g].r].name = who[req'[g].d].name
               /\ req'[g].pc # "reserve" \/ rows'[req'[g].r].addr # 0
                    => req'[g].val = rows'[req'[g].r].addr
    BY <2>a, <2>1, <2>3, <2>6, <2>7, <2>8, SMTT(60) DEF Tunnels
  <2>9. ASSUME NEW e \in Devices, run'[e].step # "none"
        PROVE  /\ run'[e].r \in Live /\ rows'[run'[e].r].name = who[e].name /\ run'[e].name = who[e].name
               /\ run'[e].addr # 0 => rows'[run'[e].r].addr = run'[e].addr
               /\ run'[e].step = "register" => run'[e].addr \in Told(e)
    <3>1. CASE run'[e] = run[e]
      BY <2>a, <2>1, <2>3, <2>5, <2>9, <3>1 DEF Tunnels
    <3>2. CASE run'[e] # run[e]
      <4>1. e = req[h].d /\ run'[e].step = "agent" /\ run'[e].r = req[h].r
        BY <1>1, <3>2
      <4>2. run'[e].name = who[e].name
        BY <1>1, <2>4, <3>2, <4>1
      <4>3. run'[e].addr # 0 => rows'[run'[e].r].addr = run'[e].addr
        BY <1>1, <3>2, <4>1, SMTT(60)
      <4> QED
        BY <2>a, <2>1, <2>4, <4>1, <4>2, <4>3, SMTT(60)
    <3> QED
      BY <3>1, <3>2
  <2>10. UNCHANGED <<who, agent, tunnel, missed>>
    BY <1>1
  <2>11. \A e \in Devices : agent[e].r \in Live => rows'[agent[e].r].name = who[e].name
    BY <2>a, <2>1, <2>3 DEF Tunnels
  <2>12. \A r \in Live : rows'[r].key # "none" =>
            /\ rows'[r].addr # 0 /\ rows'[r].addr \in Told(rows'[r].key)
            /\ rows'[r].name = who[rows'[r].key].name
    BY <2>a, <2>1, <2>3, <2>5 DEF Tunnels
  <2>13. \A r, o \in Live : rows'[r].key # "none" /\ rows'[r].key = rows'[o].key => r = o
    BY <2>a, <2>1, <2>3, SMTT(60) DEF Tunnels
  <2> QED
    BY <2>2, <2>8, <2>9, <2>10, <2>11, <2>12, <2>13 DEF Tunnels
<1>9. Polls'
  BY <1>1 DEF Polls, OfflineIsDeserved
<1> QED
  BY <1>1, <1>2, <1>3, <1>4, <1>5, <1>6, <1>7, <1>8, <1>9

\* The agent gets the token that the row has.
LEMMA get_agent_scriptKeeps ==
    ASSUME Inv, NEW d \in Devices, get_agent_script(d)
    PROVE  Inv'
<1> USE RegistryAssumption, Fields
    DEF Inv, References, Told, get_agent_scriptEffect, Live, RowIds, Scripting, OtherRuns
<1>1. Types' /\ get_agent_scriptEffect(d)
  BY get_agent_scriptDoes
<1>2. RowRefs'
  BY <1>1 DEF RowRefs, ReqRefs
<1>3. ReqRefs'
  BY <1>1, FreePortInRange DEF ReqRefs, RowRefs, DeviceRefs, FreePorts
<1>4. DeviceRefs'
  BY <1>1, SMTT(60) DEF DeviceRefs, RowRefs, ReqRefs
<1>5. Deletions'
  BY <1>1 DEF Deletions, KeptUnlessLate, ReqRefs
<1>6. Creations'
  BY <1>1, SMTT(60) DEF Creations, OneRowPerName, PortTaken, UsedPorts, ReqRefs, RowRefs
<1>7. Tokens'
  BY <1>1, SMTT(60) DEF Tokens, ReqRefs, DeviceRefs, Underway
<1>8. Tunnels'
  BY <1>1, SMTT(60) DEF Tunnels, Tokens, ReqRefs, DeviceRefs
<1>9. Polls'
  BY <1>1 DEF Polls, OfflineIsDeserved
<1> QED
  BY <1>1, <1>2, <1>3, <1>4, <1>5, <1>6, <1>7, <1>8, <1>9

\* The device adds the address of its script to its tunnel.
LEMMA build_bootstrap_linesKeeps ==
    ASSUME Inv, NEW d \in Devices, build_bootstrap_lines(d)
    PROVE  Inv'
<1> USE RegistryAssumption, Fields
    DEF Inv, References, build_bootstrap_linesEffect, Live, RowIds, Scripting, OtherRuns
<1>1. Types' /\ build_bootstrap_linesEffect(d)
  BY build_bootstrap_linesDoes
<1>2. RowRefs'
  BY <1>1 DEF RowRefs, ReqRefs
<1>3. ReqRefs'
  BY <1>1, FreePortInRange DEF ReqRefs, RowRefs, DeviceRefs, FreePorts
<1>4. DeviceRefs'
  BY <1>1 DEF DeviceRefs, RowRefs, ReqRefs
<1>5. Deletions'
  BY <1>1 DEF Deletions, KeptUnlessLate, ReqRefs
<1>6. Creations'
  BY <1>1 DEF Creations, OneRowPerName, PortTaken, UsedPorts, ReqRefs, RowRefs
<1>7. Tokens'
  BY <1>1, SMTT(60) DEF Tokens, ReqRefs, DeviceRefs, Underway
<1>8. Tunnels'
  <2>1. Live' = Live /\ \A e \in Devices : Told(e) \subseteq Told(e)'
    BY <1>1
  <2>2. \A r \in Live : rows[r].key # "none" => rows[r].key \in Devices
    BY DEF Types, RowRec
  <2>3. ASSUME crossed = {}, NEW e \in Devices, run'[e].step # "none"
        PROVE  /\ run'[e].r \in Live /\ rows[run'[e].r].name = who[e].name /\ run'[e].name = who[e].name
               /\ run'[e].addr # 0 => rows[run'[e].r].addr = run'[e].addr
               /\ run'[e].step = "register" => run'[e].addr \in Told(e)'
    BY <1>1, <2>3, SMTT(60) DEF Tunnels
  <2>4. ASSUME crossed = {}, NEW r \in Live, rows[r].key # "none"
        PROVE  rows[r].addr # 0 /\ rows[r].addr \in Told(rows[r].key)'
    <3>1. rows[r].addr \in Told(rows[r].key) /\ rows[r].addr # 0 /\ rows[r].key \in Devices
      BY <2>2, <2>4 DEF Tunnels
    <3>2. rows[r].addr \in Told(rows[r].key)'
      BY <1>1, <2>1, <3>1 DEF Told
    <3> QED
      BY <3>1, <3>2
  <2> HIDE DEF Live
  <2> QED
    BY <1>1, <2>1, <2>3, <2>4 DEF Tunnels
<1>9. Polls'
  BY <1>1 DEF Polls, OfflineIsDeserved
<1> QED
  BY <1>1, <1>2, <1>3, <1>4, <1>5, <1>6, <1>7, <1>8, <1>9

\* The row that is found by name is the one the script was made for.
LEMMA register_peerKeeps ==
    ASSUME Inv, NEW d \in Devices, register_peer(d)
    PROVE  Inv'
<1> USE RegistryAssumption, Fields
    DEF Inv, References, Told, register_peerEffect, Live, RowIds, Scripting, OtherRows, KeepsIdentity,
        KeepsToken, KeepsTunnel, KeepsStatus, OtherRuns
<1>1. Types' /\ register_peerEffect(d)
  BY register_peerDoes
<1>2. RowRefs'
  BY <1>1 DEF RowRefs, ReqRefs
<1>3. ReqRefs'
  BY <1>1, FreePortInRange DEF ReqRefs, RowRefs, DeviceRefs, FreePorts
<1>4. DeviceRefs'
  BY <1>1, SMTT(60) DEF DeviceRefs, RowRefs, ReqRefs
<1>5. Deletions'
  BY <1>1 DEF Deletions, KeptUnlessLate, ReqRefs
<1>6. Creations'
  BY <1>1, SMTT(60) DEF Creations, OneRowPerName, PortTaken, UsedPorts, ReqRefs, RowRefs
<1>7. Tokens'
  BY <1>1 DEF Tokens, ReqRefs, DeviceRefs, Underway
<1>8. Tunnels'
  <2>1. CASE rows' = rows
    <3>1. Live' = Live
      BY <2>1
    <3> QED
      BY <1>1, <2>1, <3>1, SMTT(60) DEF Tunnels
  <2>2. CASE rows' # rows
    <3>1. PICK r \in Live :
             /\ PeerRow(d) = {r} /\ OtherRows(r)
             /\ rows'[r].key = d /\ rows'[r].addr # 0
             /\ rows[r].addr # 0 => rows'[r].addr = rows[r].addr
             /\ KeepsIdentity(r)
      BY <1>1, <2>2
    <3>2. /\ \A o \in RowIds : rows'[o].st = rows[o].st /\ rows'[o].name = rows[o].name
          /\ Live' = Live
      BY <3>1, SMTT(60)
    <3>3. SUFFICES ASSUME crossed = {}
                   PROVE  Tunnels'
      BY <1>1 DEF Tunnels
    \* the row that is found by its name is the one the script was made for
    <3>4. /\ r = run[d].r /\ rows[r].name = who[d].name
          /\ rows[r].addr = run[d].addr /\ run[d].addr # 0 /\ run[d].addr \in Told(d)
      <4>1. /\ run[d].r \in Live /\ rows[run[d].r].name = who[d].name /\ run[d].name = who[d].name
            /\ run[d].addr # 0 /\ rows[run[d].r].addr = run[d].addr /\ run[d].addr \in Told(d)
        BY <1>1, <3>3 DEF Tunnels, DeviceRefs
      <4>2. run[d].r \in ByName(run[d].name)
        BY <4>1 DEF ByName
      <4>3. run[d].r = r
        BY <3>1, <4>2, SMTT(60) DEF PeerRow
      <4> QED
        BY <4>1, <4>3, SMTT(60)
    \* and no other live row has that name
    <3>5. \A o \in Live : rows[o].name = who[d].name => o = r
      BY <1>1, <3>1, <3>3, <3>4 DEF PeerRow, ByName, Tunnels
    <3>6. \A o \in RowIds : rows'[o].addr = rows[o].addr /\ (o # r => rows'[o].key = rows[o].key)
      BY <3>1, <3>4
    <3>7. \A g \in Requests : req'[g] = req[g]
      BY <1>1
    <3>8. UNCHANGED <<who, agent, tunnel, missed>> /\ \A o \in Live : o \in RowIds
      BY <1>1
    <3> HIDE DEF Live
    <3>9. ASSUME NEW g \in Requests, req'[g].pc \in Scripting
          PROVE  /\ req'[g].r \in Live /\ rows'[req'[g].r].name = who[req'[g].d].name
                 /\ req'[g].pc # "reserve" \/ rows'[req'[g].r].addr # 0
                      => req'[g].val = rows'[req'[g].r].addr
      BY <3>2, <3>3, <3>6, <3>7, <3>8, <3>9, SMTT(60) DEF Tunnels
    <3>10. ASSUME NEW e \in Devices, run'[e].step # "none"
           PROVE  /\ run'[e].r \in Live /\ rows'[run'[e].r].name = who[e].name
                  /\ run'[e].name = who[e].name
                  /\ run'[e].addr # 0 => rows'[run'[e].r].addr = run'[e].addr
                  /\ run'[e].step = "register" => run'[e].addr \in Told(e)
      <4>1. run'[e] = run[e]
        BY <1>1, <3>10
      <4> QED
        BY <3>2, <3>3, <3>6, <3>8, <3>10, <4>1 DEF Tunnels
    <3>11. \A e \in Devices : agent[e].r \in Live => rows'[agent[e].r].name = who[e].name
      BY <3>2, <3>3, <3>8, SMTT(60) DEF Tunnels
    <3>12. ASSUME NEW o \in Live, rows'[o].key # "none"
           PROVE  /\ rows'[o].addr # 0 /\ rows'[o].addr \in Told(rows'[o].key)
                  /\ rows'[o].name = who[rows'[o].key].name
      BY <3>1, <3>2, <3>3, <3>4, <3>6, <3>8, <3>12 DEF Tunnels
    <3>13. ASSUME NEW o \in Live, NEW i \in Live, rows'[o].key # "none", rows'[o].key = rows'[i].key
           PROVE  o = i
      <4>1. CASE o # r /\ i # r
        BY <3>3, <3>6, <3>8, <3>13, <4>1 DEF Tunnels
      <4>2. CASE o = r \/ i = r
        <5>1. rows'[o].key = d /\ rows'[i].key = d
          BY <3>1, <3>13, <4>2
        <5>2. rows[o].name = who[d].name /\ rows[i].name = who[d].name
          BY <3>2, <3>8, <3>12, <3>13, <5>1
        <5> QED
          BY <3>5, <5>2
      <4> QED
        BY <4>1, <4>2
    <3> QED
      BY <3>2, <3>8, <3>9, <3>10, <3>11, <3>12, <3>13 DEF Tunnels
  <2> QED
    BY <2>1, <2>2, SMTT(60)
<1>9. Polls'
  BY <1>1 DEF Polls, OfflineIsDeserved
<1> QED
  BY <1>1, <1>2, <1>3, <1>4, <1>5, <1>6, <1>7, <1>8, <1>9

\* A poll reads its row.
LEMMA PollLoadKeeps ==
    ASSUME Inv, NEW d \in Devices, PollLoad(d)
    PROVE  Inv'
<1> USE RegistryAssumption, Fields
    DEF Inv, References, Told, PollLoadEffect, Live, RowIds, Scripting, OtherRows, KeepsIdentity,
        KeepsToken, KeepsTunnel, KeepsStatus
<1>1. Types' /\ PollLoadEffect(d)
  BY PollLoadDoes
<1>2. RowRefs'
  BY <1>1, SMTT(60) DEF RowRefs, ReqRefs
<1>3. ReqRefs'
  BY <1>1, FreePortInRange, SMTT(60) DEF ReqRefs, RowRefs, DeviceRefs, FreePorts
<1>4. DeviceRefs'
  BY <1>1, SMTT(60) DEF DeviceRefs, RowRefs, ReqRefs
<1>5. Deletions'
  BY <1>1 DEF Deletions, KeptUnlessLate, ReqRefs
<1>6. Creations'
  BY <1>1 DEF Creations, OneRowPerName, PortTaken, UsedPorts, ReqRefs, RowRefs
<1>7. Tokens'
  BY <1>1, SMTT(60) DEF Tokens, ReqRefs, DeviceRefs, Underway
<1>8. Tunnels'
  BY <1>1 DEF Tunnels, Tokens, ReqRefs, DeviceRefs
<1>9. Polls'
  BY <1>1 DEF Polls, OfflineIsDeserved
<1> QED
  BY <1>1, <1>2, <1>3, <1>4, <1>5, <1>6, <1>7, <1>8, <1>9, SMTT(60)

\* A poll makes the row online, or was overtaken by a sync.
LEMMA handle_pollKeeps ==
    ASSUME Inv, NEW d \in Devices, handle_poll(d)
    PROVE  Inv'
<1> USE RegistryAssumption, Fields
    DEF Inv, References, Told, handle_pollEffect, Live, RowIds, Scripting, OtherRows, KeepsIdentity,
        KeepsToken, KeepsTunnel, KeepsStatus
<1>1. Types' /\ handle_pollEffect(d)
  BY handle_pollDoes
<1>2. RowRefs'
  BY <1>1, SMTT(60) DEF RowRefs, ReqRefs
<1>3. ReqRefs'
  BY <1>1, FreePortInRange, SMTT(60) DEF ReqRefs, RowRefs, DeviceRefs, FreePorts
<1>4. DeviceRefs'
  BY <1>1, SMTT(60) DEF DeviceRefs, RowRefs, ReqRefs
<1>5. Deletions'
  BY <1>1 DEF Deletions, KeptUnlessLate, ReqRefs
<1>6. Creations'
  <2>1. SameIdentities
    BY <1>1, SMTT(60) DEF SameIdentities
  <2> QED
    BY <1>1, <2>1, SameCreations
<1>7. Tokens'
  BY <1>1, SMTT(60) DEF Tokens, ReqRefs, DeviceRefs, Underway
<1>8. Tunnels'
  <2>1. SameIdentities /\ SameTunnels
    BY <1>1, SMTT(60) DEF SameIdentities, SameTunnels
  <2> QED
    BY <1>1, <2>1, SameTunnelsKept
<1>9. Polls'
  <2>1. CASE UNCHANGED <<rows, fresh, task, overtaken>>
    BY <2>1 DEF Polls, OfflineIsDeserved
  <2>2. CASE ~ UNCHANGED <<rows, fresh, task, overtaken>>
    BY <1>1, <2>2 DEF Polls, OfflineIsDeserved
  <2> QED
    BY <2>1, <2>2
<1> QED
  BY <1>1, <1>2, <1>3, <1>4, <1>5, <1>6, <1>7, <1>8, <1>9, SMTT(60)

\* Time passes without a poll.
LEMMA LapseKeeps ==
    ASSUME Inv, NEW r \in RowIds, Lapse(r)
    PROVE  Inv'
<1> USE RegistryAssumption, Fields DEF Inv, References, Told, LapseEffect, Live, RowIds, Scripting
<1>1. Types' /\ LapseEffect(r)
  BY LapseDoes
<1>2. RowRefs'
  BY <1>1 DEF RowRefs, ReqRefs
<1>3. ReqRefs'
  BY <1>1, FreePortInRange DEF ReqRefs, RowRefs, DeviceRefs, FreePorts
<1>4. DeviceRefs'
  BY <1>1 DEF DeviceRefs, RowRefs, ReqRefs
<1>5. Deletions'
  BY <1>1 DEF Deletions, KeptUnlessLate, ReqRefs
<1>6. Creations'
  BY <1>1 DEF Creations, OneRowPerName, PortTaken, UsedPorts, ReqRefs, RowRefs
<1>7. Tokens'
  BY <1>1, SMTT(60) DEF Tokens, ReqRefs, DeviceRefs, Underway
<1>8. Tunnels'
  BY <1>1 DEF Tunnels, Tokens, ReqRefs, DeviceRefs
<1>9. Polls'
  BY <1>1 DEF Polls, OfflineIsDeserved
<1> QED
  BY <1>1, <1>2, <1>3, <1>4, <1>5, <1>6, <1>7, <1>8, <1>9

\* The sync reads all rows.
LEMMA SyncLoadKeeps ==
    ASSUME Inv, SyncLoad
    PROVE  Inv'
<1> USE RegistryAssumption, Fields DEF Inv, References, Told, SyncLoadEffect, Live, RowIds, Scripting
<1>1. Types' /\ SyncLoadEffect
  BY SyncLoadDoes
<1>2. RowRefs'
  BY <1>1 DEF RowRefs, ReqRefs
<1>3. ReqRefs'
  BY <1>1, FreePortInRange DEF ReqRefs, RowRefs, DeviceRefs, FreePorts
<1>4. DeviceRefs'
  BY <1>1 DEF DeviceRefs, RowRefs, ReqRefs
<1>5. Deletions'
  BY <1>1 DEF Deletions, KeptUnlessLate, ReqRefs
<1>6. Creations'
  BY <1>1 DEF Creations, OneRowPerName, PortTaken, UsedPorts, ReqRefs, RowRefs
<1>7. Tokens'
  BY <1>1, SMTT(60) DEF Tokens, ReqRefs, DeviceRefs, Underway
<1>8. Tunnels'
  BY <1>1 DEF Tunnels, Tokens, ReqRefs, DeviceRefs
<1>9. Polls'
  BY <1>1 DEF Polls, OfflineIsDeserved
<1> QED
  BY <1>1, <1>2, <1>3, <1>4, <1>5, <1>6, <1>7, <1>8, <1>9

\* A row that polled before the sync read it, and has not lapsed, is found online.
LEMMA sync_router_statusKeeps ==
    ASSUME Inv, sync_router_status
    PROVE  Inv'
<1> USE RegistryAssumption, Fields
    DEF Inv, References, Told, sync_router_statusEffect, Live, RowIds, Scripting, OtherRows,
        KeepsIdentity, KeepsToken, KeepsTunnel, KeepsStatus
<1>1. Types' /\ sync_router_statusEffect
  BY sync_router_statusDoes
<1>2. RowRefs'
  BY <1>1 DEF RowRefs, ReqRefs
<1>3. ReqRefs'
  BY <1>1, FreePortInRange DEF ReqRefs, RowRefs, DeviceRefs, FreePorts
<1>4. DeviceRefs'
  BY <1>1, SMTT(60) DEF DeviceRefs, RowRefs, ReqRefs
<1>5. Deletions'
  BY <1>1 DEF Deletions, KeptUnlessLate, ReqRefs
<1>6. Creations'
  BY <1>1, SMTT(60) DEF Creations, OneRowPerName, PortTaken, UsedPorts, ReqRefs, RowRefs
<1>7. Tokens'
  BY <1>1, SMTT(60) DEF Tokens, ReqRefs, DeviceRefs, Underway
<1>8. Tunnels'
  BY <1>1, SMTT(60) DEF Tunnels, Tokens, ReqRefs, DeviceRefs
<1>9. Polls'
  <2>1. \A r \in RowIds : KeepsIdentity(r) /\ rows'[r].polled = rows[r].polled
    BY <1>1
  <2>2. Live' = Live
    BY <2>1, SameLive DEF SameIdentities
  <2>3. PICK s \in SUBSET task.of :
           /\ MayFindOnline(s)
           /\ \A r \in RowIds :
                 \/ rows'[r].online = rows[r].online
                 \/ rows'[r].online
                 \/ /\ r \notin s
                    /\ r \in task.again \cap fresh => r \in overtaken'
    BY <1>1
  <2>4. ASSUME NEW r \in Live, r \in fresh
        PROVE  rows'[r].online \/ r \in overtaken'
    <3>1. r \notin task.again => r \in s
      BY <1>1, <2>3, <2>4 DEF Polls, MayFindOnline
    <3>2. rows[r].online \/ r \in overtaken
      BY <2>4 DEF Polls, OfflineIsDeserved
    <3> QED
      BY <1>1, <2>3, <2>4, <3>1, <3>2
  <2> QED
    BY <1>1, <2>1, <2>2, <2>4 DEF Polls, OfflineIsDeserved
<1> QED
  BY <1>1, <1>2, <1>3, <1>4, <1>5, <1>6, <1>7, <1>8, <1>9

\* Init establishes the invariant.
LEMMA InitInv == Init => Inv
<1> SUFFICES ASSUME Init PROVE Inv
  OBVIOUS
<1>1. Types /\ References
  BY InitTypes
<1>2. /\ Live = {} /\ fresh = {} /\ lost = {} /\ ~ task.on
      /\ \A h \in Requests : req[h].pc = "idle"
      /\ \A d \in Devices : run[d].step = "none"
  BY DEF Init, Live, NoRow, Idle, NoRun, NoTask
<1>3. Deletions /\ Polls
  BY <1>2 DEF Deletions, KeptUnlessLate, Polls, OfflineIsDeserved
<1>4. Creations /\ Tokens /\ Tunnels
  BY <1>2 DEF Creations, OneRowPerName, Tokens, Tunnels, Scripting
<1> QED
  BY <1>1, <1>3, <1>4 DEF Inv

\* Every step keeps it.
LEMMA NextInv == Inv /\ [Next]_vars => Inv'
<1> SUFFICES ASSUME Inv, [Next]_vars
             PROVE  Inv'
  OBVIOUS
<1>1. CASE Rows
  BY <1>1, CreateCheckKeeps, PickPortKeeps, create_routerKeeps, upsert_routerKeeps, DeleteCheckKeeps,
     delete_routerKeeps, SubscribeKeeps DEF Rows
<1>2. CASE Bootstrap
  BY <1>2, ScriptLoadKeeps, VpnScriptLoadKeeps, generate_agent_tokenKeeps, PickAddressKeeps,
     ReserveAddressKeeps, get_agent_scriptKeeps, build_bootstrap_linesKeeps, register_peerKeeps
  DEF Bootstrap
<1>3. CASE Status
  BY <1>3, PollLoadKeeps, handle_pollKeeps, LapseKeeps, SyncLoadKeeps, sync_router_statusKeeps DEF Status
<1>4. CASE UNCHANGED vars
  <2> USE <1>4 DEF vars, deviceVars, statusVars, subVars, Inv, Live
  <2>1. Types' /\ References'
    BY DEF Types, References, RowRefs, ReqRefs, DeviceRefs
  <2>2. Deletions' /\ Polls'
    BY SMTT(60) DEF Deletions, KeptUnlessLate, Polls, OfflineIsDeserved
  <2>3. Creations' /\ Tokens' /\ Tunnels'
    BY DEF Creations, OneRowPerName, PortTaken, UsedPorts, Tokens, Tunnels, Told
  <2> QED
    BY <2>1, <2>2, <2>3
<1> QED
  BY <1>1, <1>2, <1>3, <1>4 DEF Next

-----------------------------------------------------------------------------
(***************************************************************************)
(* Theorems.                                                               *)
(***************************************************************************)

\* Every reachable state satisfies the invariant.
THEOREM RegistryInvariant == Spec => []Inv
  BY InitInv, NextInv, PTL DEF Spec

\* create_router and delete_router: ports and addresses are in range, a router with a
\* subscription is deleted only if that came while the deletion waited, and an
\* organization has one row for an identity although the table does not say so.
THEOREM RegistryCorrect == Spec => []RegistryInv
<1>1. Inv => RegistryInv
  <2> SUFFICES ASSUME Inv PROVE RegistryInv
    OBVIOUS
  <2> USE DEF Inv
  <2>1. \A r \in Live : rows[r].port \in 1 .. MaxPort /\ rows[r].addr \in 0 .. MaxAddr
    BY RegistryAssumption DEF Types, RowRec, References, RowRefs, Live
  <2>2. \A h \in Requests : req[h].pc \in Scripting => rows[req[h].r].st # "none"
    BY DEF References, ReqRefs
  <2>3. \A d \in Devices : Told(d) \subseteq 1 .. MaxAddr /\ agent[d].tok <= issued
    BY DEF Types, References, DeviceRefs, Told
  <2>4. RegistryTypeOK
    BY <2>1, <2>2, <2>3 DEF RegistryTypeOK, Types, Told
  <2> QED
    BY <2>4 DEF RegistryInv, Deletions, Creations
<1> QED
  BY <1>1, RegistryInvariant, PTL

\* get_bootstrap_script: an agent that has joined stays accepted however often the
\* script is fetched, unless two fetches overlap.
THEOREM AgentsAuthenticate == Spec => []AgentAuthenticates
<1>1. Inv => AgentAuthenticates
  BY DEF Inv, Tokens, AgentAuthenticates, Accepted
<1> QED
  BY <1>1, RegistryInvariant, PTL

\* register_peer: the WireGuard server is told of each device once, with the
\* address that its script has added, or has failed to add.
THEOREM TunnelsAgree == Spec => []TunnelAgrees
<1>1. Inv => TunnelAgrees
  <2> SUFFICES ASSUME Inv, crossed = {}, NEW p \in list_peers, NEW q \in list_peers
               PROVE  p.addr \in Told(p.key) /\ (p.key = q.key => p = q)
    BY DEF TunnelAgrees, Told
  <2>1. PICK r \in Live : /\ rows[r].key # "none"
                          /\ p = [key |-> rows[r].key, addr |-> rows[r].addr, port |-> rows[r].port]
    BY DEF list_peers
  <2>2. PICK o \in Live : /\ rows[o].key # "none"
                          /\ q = [key |-> rows[o].key, addr |-> rows[o].addr, port |-> rows[o].port]
    BY DEF list_peers
  <2>3. rows[r].addr \in Told(rows[r].key) /\ (rows[r].key = rows[o].key => r = o)
    BY <2>1, <2>2 DEF Inv, Tunnels
  <2> QED
    BY <2>1, <2>2, <2>3
<1> QED
  BY <1>1, RegistryInvariant, PTL

\* sync_router_status: a router that polled within the threshold is shown offline only
\* if its poll was saved after the task had read the row.
THEOREM OfflineDeserved == Spec => []OfflineIsDeserved
<1>1. Inv => OfflineIsDeserved
  BY DEF Inv, Polls
<1> QED
  BY <1>1, RegistryInvariant, PTL
=============================================================================
