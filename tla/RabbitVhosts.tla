---------------------------- MODULE RabbitVhosts ----------------------------
(***************************************************************************)
(* Rabbit virtual hosts: their registrations against the vhosts, users and *)
(* passwords on the brokers; the entities that configurations declare in   *)
(* them, with bindings that wait for their exchange; and the exported      *)
(* vhost of a BG domain, which stays the same for clients outside while    *)
(* the vhosts of the origin and the peer namespace come and go.            *)
(*                                                                         *)
(* One base vhost in each namespace of a domain is enough to meet all of   *)
(* this.  A request is a program, a sequence of steps, each a statement of *)
(* the database or a call of the broker.  Database writes stay with the    *)
(* request until its commit; the broker is changed at once.                *)
(***************************************************************************)
EXTENDS Naturals, Sequences, FiniteSets

CONSTANTS
    Requests,     \* threads that serve requests
    Instances,    \* Rabbit instances
    Default,      \* the default instance
    MaxUsers,     \* bound on users on the brokers, with those left by failed requests
    Loads         \* what the clients ask for, by name, see LoadType

Namespaces == {"origin", "peer"}
Classifiers == Namespaces \cup {"exported"}
NamespaceOf(c) == IF c = "peer" THEN "peer" ELSE "origin"
OtherOf(ns) == IF ns = "origin" THEN "peer" ELSE "origin"

\* A configuration: for an exchange x, a queue q and the binding b between
\* them: what it declares, which of that is exported, what it
\* deletes, and whether the exchange has other arguments than before.
NoConfig == [declare |-> {}, exported |-> {}, delete |-> {}, changed |-> FALSE]

Calls == [op : {"get", "rotate", "remove", "apply", "recover", "warmup", "promote", "rollback", "commit"},
          cls : Classifiers, inst : Instances \cup {"any"}, config : {NoConfig}]

\* A load: whether the vhost of the active namespace is registered before the
\* domain is, the calls, whether each request serves one of them only, how many
\* may run at a time, production mode, instance designators, how many calls
\* fail or replicas die, and whether the brokers may lose their data.
LoadType == [ready : BOOLEAN, calls : SUBSET Calls, once : BOOLEAN, maxActive : Nat, prodMode : BOOLEAN,
             designator : [Namespaces -> Instances \cup {"none"}],
             maxFailures : Nat, lossy : BOOLEAN]

ASSUME RabbitVhostsAssumption ==
    /\ IsFiniteSet(Requests) /\ IsFiniteSet(Instances)
    /\ Default \in Instances /\ MaxUsers \in Nat
    /\ \A n \in DOMAIN Loads : /\ \A c \in Loads[n].calls : [c EXCEPT !.config = NoConfig] \in Calls
                               /\ [Loads[n] EXCEPT !.calls = {}] \in LoadType

\* A registration: its id stands for its user as well, whose name is made up
\* for each registration.  The rows of its entities go with it.
NoRow == [id |-> 0, inst |-> Default, pass |-> 0, declared |-> {}, exported |-> {}, bound |-> FALSE]

NoJob == [op |-> "none", todo |-> <<>>, base |-> "origin", cls |-> "origin", inst |-> "any", config |-> NoConfig,
          found |-> NoRow, writes |-> <<>>, locks |-> {}, roles |-> <<>>,
          want |-> {}, listed |-> {}, kept |-> {}]

VARIABLES
    load,
    regs,       \* committed rows of rabbit_vhosts with their rabbit_entities
    roles,      \* the BG state: which namespace is active, and what the other one is
    vhosts,     \* vhosts on the brokers, by instance and classifier
    content,    \* what is in them
    users,      \* users on the brokers
    job,
    served,     \* requests that have been served
    lost,       \* brokers have lost their data
    failures

vars == <<load, regs, roles, vhosts, content, users, job, served, lost, failures>>
database == <<regs, roles>>
broker == <<vhosts, content, users>>

Places == Instances \X Classifiers

Load == Loads[load]
User(row) == [inst |-> row.inst, id |-> row.id, pass |-> row.pass]

Init ==
    /\ load \in DOMAIN Loads
    /\ regs = [c \in Classifiers |-> IF Load.ready /\ c = "origin" THEN [NoRow EXCEPT !.id = 1, !.pass = 1]
                                     ELSE NoRow]
    /\ roles = [active |-> "origin", other |-> "idle"]
    /\ vhosts = {<<Default, c>> : c \in {d \in Classifiers : regs[d] # NoRow}}
    /\ users = {User(regs[c]) : c \in {d \in Classifiers : regs[d] # NoRow}}
    /\ content = [p \in Places |-> {}]
    /\ job = [r \in Requests |-> NoJob]
    /\ served = {} /\ lost = FALSE /\ failures = 0

-----------------------------------------------------------------------------
(* Steps                                                                   *)

Active == {r \in Requests : job[r].op # "none"}
At(r, step) == job[r].todo # <<>> /\ Head(job[r].todo) = step

\* The row of classifier c as request r sees it, in its own transaction.
Read(r, c) == IF c \in DOMAIN job[r].writes THEN job[r].writes[c] ELSE regs[c]
Row(r) == Read(r, job[r].cls)
Place(r) == <<Row(r).inst, job[r].cls>>
Roles(r) == IF job[r].roles = <<>> THEN roles ELSE job[r].roles[1]

\* Mutant: the update and the call of the broker are not in one transaction.
NoRowLock(r, c) == r \in Requests /\ c \in Classifiers

\* No other transaction has written the row of c and not ended.
Free(r, c) == \A s \in Requests \ {r} : c \notin DOMAIN job[s].writes

Written(writes, c, row) == [d \in DOMAIN writes \cup {c} |-> IF d = c THEN row ELSE writes[d]]
Writing(r, row) == [job[r] EXCEPT !.writes = Written(@, job[r].cls, row)]

Then(j, steps) == [j EXCEPT !.todo = steps \o Tail(@)]

\* Request r goes on as j, with more steps to take first.
Go(r, j, steps) == job' = [job EXCEPT ![r] = Then(j, steps)]
Advance(r) == Go(r, job[r], <<>>)
Skip(r, n) == job' = [job EXCEPT ![r].todo = SubSeq(@, n + 1, Len(@))]

Done(r) == IF Load.once THEN served \cup {r} ELSE served

\* The request ends with an error: its transaction is rolled back.
Abort(r) == /\ job' = [job EXCEPT ![r] = NoJob]
            /\ served' = Done(r)
            /\ UNCHANGED <<load, database, broker, lost, failures>>

Shovels(p) == {t \in content[p] : t[1] = "shovel"}

\* A number that is not in use: users and passwords are random.
Unused(s) == CHOOSE n \in 1..(Cardinality(s) + 1) : n \notin s
Ids == {regs[c].id : c \in Classifiers} \cup {u.id : u \in users}
         \cup (UNION {{job[r].found.id} \cup {job[r].writes[c].id : c \in DOMAIN job[r].writes} : r \in Requests})
         \cup UNION {{t[4] : t \in Shovels(p)} : p \in Places}
Passwords == {regs[c].pass : c \in Classifiers} \cup {u.pass : u \in users}
               \cup UNION {{job[r].writes[c].pass : c \in DOMAIN job[r].writes} : r \in Requests}

-----------------------------------------------------------------------------
(* Requests                                                                *)

\* The statements and calls of the operations, in their order.
CreateAndRegisterVHost == <<"insert", "vhost", "user">>
CreateOrUpdateEntitiesV1 == <<"exchanges", "lazy", "queues", "bindings">>
DeleteVHost == <<"dropShovels", "dropUser", "dropVhost", "unregister">>
ProcessExportedVhost == <<"collect", "exported", "exportQueues", "exportExchanges", "prune", "pruneShovels">>
ChangeActiveVersion == <<"bind", "unbind">>

GetOrCreateVhost == <<"lock", "find", "commit">>
RotatePasswords == <<"search", "save", "user", "commit">>
RemoveVHosts == <<"search", "lock">> \o DeleteVHost \o <<"commit">>
ApplyRabbitConfiguration ==
    GetOrCreateVhost \o <<"delete">> \o CreateOrUpdateEntitiesV1 \o ProcessExportedVhost \o <<"commit">>
RecoverVhosts == <<"vhost", "user">> \o CreateOrUpdateEntitiesV1 \o <<"commit">>

\* A warm-up clones the vhost of the active namespace with its entities, a
\* commit deletes that of the idle one.
CloneVhost == <<"lock", "find">> \o CreateOrUpdateEntitiesV1
Warmup(source) == (IF source = NoRow THEN <<>> ELSE CloneVhost) \o ProcessExportedVhost
CommitBg(idle) == (IF idle = NoRow THEN <<>> ELSE DeleteVHost) \o ProcessExportedVhost

\* A BG operation and the state that it is sent with.
BgRoles(op) ==
    CASE op = "warmup" -> [roles EXCEPT !.other = "candidate"]
      [] op = "promote" -> [active |-> OtherOf(roles.active), other |-> "legacy"]
      [] op = "rollback" -> [active |-> OtherOf(roles.active), other |-> "candidate"]
      [] op = "commit" -> [roles EXCEPT !.other = "idle"]

BgAllowed(op) ==
    CASE op = "warmup" -> roles.other = "idle"
      [] op = "promote" -> roles.other = "candidate"
      [] op = "rollback" -> roles.other = "legacy"
      [] op = "commit" -> roles.other \in {"candidate", "legacy"}

Program(op) ==
    CASE op = "get" -> GetOrCreateVhost
      [] op = "rotate" -> RotatePasswords
      [] op = "remove" -> RemoveVHosts
      [] op = "apply" -> ApplyRabbitConfiguration
      [] op = "recover" -> RecoverVhosts

\* An idle namespace has no services that would send something.
Live(c) == NamespaceOf(c) = roles.active \/ roles.other # "idle"

Submit(r, call) ==
    /\ job[r] = NoJob /\ Cardinality(Active) < Load.maxActive /\ Cardinality(users) <= MaxUsers
    /\ call \in Load.calls /\ (Load.once => r \notin served)
    /\ call.op \notin {"warmup", "promote", "rollback", "commit"}
    /\ call.cls = "exported" \/ Live(call.cls)
    /\ call.op = "recover" => regs[call.cls] # NoRow
    /\ ~(call.op = "remove" /\ Load.prodMode)
    /\ job' = [job EXCEPT ![r] =
                 [NoJob EXCEPT !.op = call.op, !.base = call.cls, !.cls = call.cls, !.inst = call.inst,
                    !.todo = Program(call.op),
                    !.config = IF call.op # "recover" THEN call.config
                               ELSE [NoConfig EXCEPT !.declare = regs[call.cls].declared,
                                                     !.exported = regs[call.cls].exported]]]
    /\ UNCHANGED <<load, database, broker, served, lost, failures>>

\* All of a BG operation is one transaction.
SubmitBg(r, call) ==
    LET to == BgRoles(call.op)
        source == regs[to.active]
        target == OtherOf(to.active)
        steps == CASE call.op = "warmup" -> Warmup(source)
                   [] call.op = "commit" -> CommitBg(regs[target])
                   [] OTHER -> ChangeActiveVersion
    IN
    /\ job[r] = NoJob /\ Cardinality(Active) < Load.maxActive /\ Cardinality(users) <= MaxUsers
    /\ call \in Load.calls
    /\ call.op \in {"warmup", "promote", "rollback", "commit"} /\ BgAllowed(call.op)
    /\ job' = [job EXCEPT ![r] =
                 [NoJob EXCEPT !.op = call.op, !.base = target, !.inst = source.inst,
                    !.cls = IF call.op \in {"promote", "rollback"} THEN "exported" ELSE target,
                    !.found = IF call.op = "commit" THEN regs[target] ELSE NoRow,
                    !.roles = <<to>>, !.todo = steps \o <<"commit">>,
                    !.config = IF call.op # "warmup" THEN NoConfig
                               ELSE [NoConfig EXCEPT !.declare = source.declared,
                                                     !.exported = source.exported]]]
    /\ UNCHANGED <<load, database, broker, served, lost, failures>>

Lock(r) ==
    /\ At(r, "lock")
    /\ \A s \in Requests \ {r} : job[r].cls \notin job[s].locks
    /\ Go(r, [job[r] EXCEPT !.locks = @ \cup {job[r].cls}], <<>>)
    /\ UNCHANGED <<load, database, broker, served, lost, failures>>

\* The end of a transaction, and of the request if nothing is left to do.
Commit(r) ==
    LET rest == Tail(job[r].todo) IN
    /\ At(r, "commit")
    /\ regs' = [c \in Classifiers |-> Read(r, c)]
    /\ roles' = Roles(r)
    /\ job' = [job EXCEPT ![r] = IF rest = <<>> THEN NoJob
                                 ELSE [@ EXCEPT !.todo = rest, !.writes = <<>>, !.locks = {}]]
    /\ served' = IF rest = <<>> THEN Done(r) ELSE served
    /\ UNCHANGED <<load, broker, lost, failures>>

-----------------------------------------------------------------------------
(* Registrations                                                           *)

Rest == <<load, served, lost, failures>>

\* RotatePasswords and RemoveVHosts read the row outside of their transaction.
Search(r) ==
    /\ At(r, "search")
    /\ \/ regs[job[r].cls] = NoRow /\ Abort(r)
       \/ /\ regs[job[r].cls] # NoRow
          /\ Go(r, [job[r] EXCEPT !.found = regs[job[r].cls]], <<>>)
          /\ UNCHANGED <<database, broker, Rest>>

\* A registration on another instance than the asked one is dropped, its vhost
\* stays on the broker.
Find(r) ==
    LET row == Row(r) IN
    /\ At(r, "find")
    /\ IF row # NoRow /\ job[r].inst \in {"any", row.inst} THEN Advance(r)
       ELSE /\ row # NoRow => Free(r, job[r].cls)
            /\ Go(r, IF row = NoRow THEN job[r] ELSE Writing(r, NoRow), CreateAndRegisterVHost)
    /\ UNCHANGED <<database, broker, Rest>>

\* resolveRabbitInstance: a designator of the namespace excludes an instance in
\* the request.
Refused(r) == job[r].inst # "any" /\ Load.designator[NamespaceOf(job[r].cls)] # "none"
Resolved(r) == IF Load.designator[NamespaceOf(job[r].cls)] # "none" THEN Load.designator[NamespaceOf(job[r].cls)]
               ELSE IF job[r].inst # "any" THEN job[r].inst ELSE Default

\* The classifier is unique: an INSERT waits for whoever writes its row.
Insert(r) ==
    /\ At(r, "insert")
    /\ \/ Refused(r) /\ Abort(r)
       \/ ~Refused(r) /\ Free(r, job[r].cls) /\ Row(r) # NoRow /\ Abort(r)
       \/ /\ ~Refused(r) /\ Free(r, job[r].cls) /\ Row(r) = NoRow
          /\ LET row == [NoRow EXCEPT !.id = Unused(Ids), !.inst = Resolved(r), !.pass = Unused(Passwords)] IN
             Go(r, Writing(r, row), <<>>)
          /\ UNCHANGED <<database, broker, Rest>>

PutVhost(r) ==
    /\ At(r, "vhost")
    /\ vhosts' = vhosts \cup {Place(r)}
    /\ Advance(r)
    /\ UNCHANGED <<database, content, users, Rest>>

\* A user is created, or gets another password.
PutUser(r) ==
    /\ At(r, "user")
    /\ users' = {u \in users : u.inst # Row(r).inst \/ u.id # Row(r).id} \cup {User(Row(r))}
    /\ Advance(r)
    /\ UNCHANGED <<database, vhosts, content, Rest>>

\* The row that is saved may have been deleted since it was read, and is then
\* inserted again under its old id.
SavedRow(r) ==
    LET found == job[r].found
        row == regs[job[r].cls]
    IN IF row = NoRow THEN [NoRow EXCEPT !.id = found.id, !.inst = found.inst, !.pass = Unused(Passwords)]
       ELSE [row EXCEPT !.inst = found.inst, !.pass = Unused(Passwords)]

SaveConflicts(r) == regs[job[r].cls].id \notin {NoRow.id, job[r].found.id}

Save(r) ==
    /\ At(r, "save") /\ Free(r, job[r].cls)
    /\ \/ SaveConflicts(r) /\ Abort(r)
       \/ /\ ~SaveConflicts(r)
          /\ Go(r, Writing(r, SavedRow(r)), <<>>)
          /\ UNCHANGED <<database, broker, Rest>>

ExportedPlace(r) == <<Read(r, "exported").inst, "exported">>

\* DeleteVHost first stops the shovels of the paired exported vhost, all of them.
DropShovels(r) ==
    /\ At(r, "dropShovels")
    /\ content' = IF job[r].cls = "origin" /\ Read(r, "exported") # NoRow
                  THEN [content EXCEPT ![ExportedPlace(r)] = @ \ Shovels(ExportedPlace(r))] ELSE content
    /\ Advance(r)
    /\ UNCHANGED <<database, vhosts, users, Rest>>

DropUser(r) ==
    /\ At(r, "dropUser")
    /\ users' = {u \in users : u.inst # job[r].found.inst \/ u.id # job[r].found.id}
    /\ Advance(r)
    /\ UNCHANGED <<database, vhosts, content, Rest>>

DropVhost(r) ==
    LET p == <<job[r].found.inst, job[r].cls>> IN
    /\ At(r, "dropVhost")
    /\ vhosts' = vhosts \ {p} /\ content' = [content EXCEPT ![p] = {}]
    /\ Advance(r)
    /\ UNCHANGED <<database, users, Rest>>

Unregister(r) ==
    /\ At(r, "unregister") /\ Free(r, job[r].cls)
    /\ Go(r, IF Row(r).id # job[r].found.id THEN job[r] ELSE Writing(r, NoRow), <<>>)
    /\ UNCHANGED <<database, broker, Rest>>

-----------------------------------------------------------------------------
(* Entities of a configuration                                             *)

\* Calls for entities are made as the user of the vhost.
CanUse(r) == Place(r) \in vhosts /\ User(Row(r)) \in users

EntityCalls == {"delete", "exchanges", "lazy", "queues", "bindings", "exportQueues", "exportExchanges", "prune",
                "bind", "unbind"}

\* The vhost or its user is not on the broker, or has another password.
Denied(r) ==
    /\ \E step \in EntityCalls : At(r, step)
    /\ Row(r) # NoRow /\ ~CanUse(r)
    /\ Abort(r)

\* The rows of entities are committed at once, but in a BG operation.
StoreEntities(r, things, row) ==
    LET inTx == job[r].roles # <<>> IN
    /\ CanUse(r)
    /\ content' = [content EXCEPT ![Place(r)] = things]
    /\ regs' = IF inTx THEN regs ELSE [regs EXCEPT ![job[r].cls] = row]
    /\ Go(r, IF inTx THEN Writing(r, row) ELSE job[r], <<>>)
    /\ UNCHANGED <<roles, vhosts, users, Rest>>

Here(r) == content[Place(r)]
Declares(r, e) == e \in job[r].config.declare

\* The row of an entity that is declared, with its exported flag as in the
\* configuration.
Declared(r, es) ==
    [Row(r) EXCEPT !.declared = @ \cup es, !.exported = (@ \ es) \cup (es \cap job[r].config.exported)]

\* An exchange or a queue takes its bindings with it, on the broker and in the
\* database.
WithBinding(es) == es \cup IF es \cap {"x", "q"} # {} THEN {"b"} ELSE {}

DeleteEntities(r) ==
    LET gone == WithBinding(job[r].config.delete) IN
    /\ At(r, "delete")
    /\ StoreEntities(r, Here(r) \ {<<e>> : e \in gone},
                   [Row(r) EXCEPT !.declared = @ \ gone, !.exported = @ \ gone,
                            !.bound = IF "b" \in gone THEN FALSE ELSE @])

\* An exchange with other arguments is deleted and created again, and its
\* bindings are gone.
Exchanges(r) ==
    LET es == job[r].config.declare \cap {"x"} IN
    /\ At(r, "exchanges")
    /\ StoreEntities(r, (Here(r) \ IF es # {} /\ job[r].config.changed THEN {<<"b">>} ELSE {}) \cup {<<e>> : e \in es},
             Declared(r, es))

Ends(r) == {<<"x">>, <<"q">>} \subseteq Here(r)

\* Mutant: only the bindings of the configuration itself.
LazyBindingsOfConfig(r) ==
    LET create == Declares(r, "b") /\ "b" \in Row(r).declared /\ ~Row(r).bound /\ Ends(r) IN
    /\ At(r, "lazy")
    /\ StoreEntities(r, Here(r) \cup IF create THEN {<<"b">>} ELSE {},
             [Row(r) EXCEPT !.bound = @ \/ create])

\* Bindings that have waited for their exchange.
LazyBindings(r) ==
    LET create == "b" \in Row(r).declared /\ ~Row(r).bound /\ Ends(r) IN
    /\ At(r, "lazy")
    /\ StoreEntities(r, Here(r) \cup IF create THEN {<<"b">>} ELSE {},
             [Row(r) EXCEPT !.bound = @ \/ create])

Queues(r) ==
    LET es == job[r].config.declare \cap {"q"} IN
    /\ At(r, "queues")
    /\ StoreEntities(r, Here(r) \cup {<<e>> : e \in es}, Declared(r, es))

\* The row of a binding is inserted, never updated.
Bindings(r) ==
    LET es == job[r].config.declare \cap {"b"} IN
    /\ At(r, "bindings")
    /\ StoreEntities(r, Here(r) \cup IF es # {} /\ Ends(r) THEN {<<"b">>} ELSE {},
             [Declared(r, es) EXCEPT !.bound = IF "b" \in Row(r).declared THEN @ ELSE es # {} /\ Ends(r)])

-----------------------------------------------------------------------------
(* The exported vhost                                                      *)

\* ProcessExportedVhost goes over the base vhosts of one namespace, and asks
\* both for what they export.
Collect(r) ==
    LET ns == IF job[r].op = "apply" THEN job[r].base ELSE "origin"
        base == Read(r, ns)
        want == {w \in {"q", "x"} \X Namespaces : w[1] \in Read(r, w[2]).exported}
    IN
    /\ At(r, "collect")
    /\ IF base = NoRow THEN Skip(r, Len(ProcessExportedVhost))
       ELSE Go(r, [job[r] EXCEPT !.want = want, !.cls = "exported", !.inst = base.inst], <<>>)
    /\ UNCHANGED <<database, broker, Rest>>

\* The exported vhost is created when something is exported, and is not
\* deleted when nothing is.  Shovels are listed before all else.
Exported(r) ==
    LET row == Read(r, "exported")
        steps == IF row = NoRow THEN CreateAndRegisterVHost ELSE <<>>
    IN
    /\ At(r, "exported")
    /\ \A s \in Requests \ {r} : "exported" \notin job[s].locks
    /\ IF row = NoRow /\ job[r].want = {} THEN Skip(r, Len(ProcessExportedVhost) - 1)
       ELSE Go(r, [job[r] EXCEPT !.locks = @ \cup {"exported"}, !.kept = {},
                                 !.listed = IF row = NoRow THEN {} ELSE Shovels(ExportedPlace(r))], steps)
    /\ UNCHANGED <<database, broker, Rest>>

\* Shovels go by name, that of the thing and of the namespace.  One that is
\* listed is kept as it is.
NewShovels(r, ws) ==
    {<<"shovel", w[1], w[2], Read(r, w[2]).id>> :
       w \in {v \in ws : \A t \in job[r].listed : t[2] # v[1] \/ t[3] # v[2]}}

Export(r, ws, things) ==
    /\ CanUse(r)
    /\ content' = [content EXCEPT ![Place(r)] = things \cup NewShovels(r, ws)]
    /\ Go(r, [job[r] EXCEPT !.kept = @ \cup ws], <<>>)
    /\ UNCHANGED <<database, vhosts, users, Rest>>

Wanted(r, what) == {w \in job[r].want : w[1] = what}

\* A queue that is not exported any more is deleted.
ExportQueues(r) ==
    /\ At(r, "exportQueues")
    /\ Export(r, Wanted(r, "q"), (Here(r) \ {<<"q">>}) \cup IF Wanted(r, "q") # {} THEN {<<"q">>} ELSE {})

\* An exported exchange is a version router: one queue for each namespace that
\* has it, and an alternate exchange with a route to the queue of the active
\* namespace, if that has one.
ExportExchanges(r) ==
    LET ws == Wanted(r, "x")
        queues == Here(r) \cup {<<"sq", w[2]>> : w \in ws}
        route == IF <<"sq", Roles(r).active>> \in queues THEN {<<"route", Roles(r).active>>} ELSE {}
    IN
    /\ At(r, "exportExchanges")
    /\ Export(r, ws, IF ws = {} THEN Here(r) ELSE queues \cup {<<"x">>} \cup route)

\* A queue takes the routes to it with it, an exchange those from it.
WithRoutes(things) == things \cup {<<"route", t[2]>> : t \in {u \in things : u[1] = "sq"}}

Prune(r) ==
    LET namespaces == {w[2] : w \in Wanted(r, "x")}
        gone == IF <<"x">> \notin Here(r) THEN {}
                ELSE IF namespaces = {} THEN {<<"x">>} \cup {<<"sq", ns>> : ns \in Namespaces}
                ELSE {<<"sq", ns>> : ns \in Namespaces \ namespaces}
    IN
    /\ At(r, "prune")
    /\ Export(r, {}, Here(r) \ WithRoutes(gone))

\* Mutant: shovels of what is not exported any more stay.
PruneNoShovels(r) ==
    /\ At(r, "pruneShovels")
    /\ Advance(r)
    /\ UNCHANGED <<database, broker, Rest>>

\* Listed shovels that are not wanted any more.
PruneShovels(r) ==
    /\ At(r, "pruneShovels")
    /\ content' = [content EXCEPT ![Place(r)] = @ \ {t \in job[r].listed : <<t[2], t[3]>> \notin job[r].kept}]
    /\ Advance(r)
    /\ UNCHANGED <<database, vhosts, users, Rest>>

\* ChangeExportedExchangesActiveVersionBg2: the new route is created, then the
\* others are deleted.  An active namespace without the exchange is passed over.
Switch(r, things) ==
    /\ Row(r) = NoRow \/ CanUse(r)
    /\ content' = IF Row(r) = NoRow THEN content ELSE [content EXCEPT ![Place(r)] = things]
    /\ Advance(r)
    /\ UNCHANGED <<database, vhosts, users, Rest>>

ActiveRoute(r) == IF {<<"x">>, <<"sq", Roles(r).active>>} \subseteq Here(r) THEN {<<"route", Roles(r).active>>} ELSE {}
\* Mutant: the new route is not spared.
AllRoutes(r) == {t \in Here(r) : t[1] = "route"}
OtherRoutes(r) == {t \in Here(r) : t[1] = "route"} \ {<<"route", Roles(r).active>>}

Bind(r) == At(r, "bind") /\ Switch(r, Here(r) \cup ActiveRoute(r))
Unbind(r) == At(r, "unbind") /\ Switch(r, Here(r) \ OtherRoutes(r))

-----------------------------------------------------------------------------
(* Failures                                                                *)

\* A call fails or the replica dies: the transaction is rolled back, the broker
\* keeps what was done.
Fail(r) ==
    /\ r \in Active /\ failures < Load.maxFailures
    /\ job' = [job EXCEPT ![r] = NoJob]
    /\ served' = Done(r) /\ failures' = failures + 1
    /\ UNCHANGED <<load, database, broker, lost>>

\* The brokers are set up anew, which RecoverVhostsByNamespace is for.
Lose ==
    /\ Load.lossy /\ ~lost /\ Active = {}
    /\ vhosts' = {} /\ content' = [p \in Places |-> {}] /\ users' = {} /\ lost' = TRUE
    /\ UNCHANGED <<load, database, job, served, failures>>

Step(r) ==
    \/ Lock(r) \/ Commit(r) \/ Search(r) \/ Find(r) \/ Insert(r) \/ PutVhost(r) \/ PutUser(r)
    \/ Save(r) \/ DropShovels(r) \/ DropUser(r) \/ DropVhost(r) \/ Unregister(r)
    \/ Denied(r) \/ DeleteEntities(r) \/ Exchanges(r) \/ LazyBindings(r) \/ Queues(r) \/ Bindings(r)
    \/ Collect(r) \/ Exported(r) \/ ExportQueues(r) \/ ExportExchanges(r) \/ Prune(r) \/ PruneShovels(r)
    \/ Bind(r) \/ Unbind(r)

Next ==
    \/ \E r \in Requests : Step(r) \/ Fail(r) \/ \E c \in Load.calls : Submit(r, c) \/ SubmitBg(r, c)
    \/ Lose

Spec == Init /\ [][Next]_vars

-----------------------------------------------------------------------------
(* Properties                                                              *)

Untouched == failures = 0 /\ ~lost

\* No request is changing the password of c, or deleting it.
Settled(c) == \A r \in Active : job[r].base # c \/ job[r].op \notin {"rotate", "remove", "commit"}

\* In production mode, where vhosts are not deleted by request, a client that
\* gets a registration can open its vhost, if nobody deletes all vhosts of the
\* namespace, which that mode does not prevent: the vhost is on the instance of the
\* row, and the user has the password of the row.  Searches without a lock,
\* moves to another instance and password rotations meet here.
ProdRegistrationOpens ==
    Load.prodMode /\ Untouched =>
        \A c \in Classifiers :
            regs[c] # NoRow /\ Settled(c) => <<regs[c].inst, c>> \in vhosts /\ User(regs[c]) \in users

ExportedContent == content[<<regs["exported"].inst, "exported">>]
ExportedBy(what) == {ns \in Namespaces : what \in regs[ns].exported}

\* While the origin namespace has its base vhost, the exported vhost has,
\* between requests, what the registered base vhosts of the two namespaces
\* export and nothing else, and a shovel for each of them with the user of its
\* present registration: what warm-ups, configurations and commits have added
\* and taken away adds up.  Not so after a commit with the origin idle, which
\* deletes that vhost: DeleteVHost then drops all shovels of the exported vhost,
\* those of the active namespace too, and ProcessExportedVhost, which looks for
\* vhosts of the origin, puts none back.
ExportsComplete ==
    Untouched /\ Active = {} /\ regs["origin"] # NoRow /\ regs["exported"] # NoRow =>
        {t \in ExportedContent : t[1] # "route"} =
            (IF ExportedBy("q") # {} THEN {<<"q">>} ELSE {})
              \cup (IF ExportedBy("x") # {} THEN {<<"x">>} ELSE {})
              \cup {<<"sq", ns>> : ns \in ExportedBy("x")}
              \cup {<<"shovel", "q", ns, regs[ns].id>> : ns \in ExportedBy("q")}
              \cup {<<"shovel", "x", ns, regs[ns].id>> : ns \in ExportedBy("x")}

Switching == \E r \in Active : job[r].op \in {"promote", "rollback"}
Routes == {t \in ExportedContent : t[1] = "route"}

\* A message without version goes to the active namespace: between requests the
\* alternate exchange has one route, to the queue of the active namespace if
\* that exports the exchange, and no other.  While the active version changes
\* there is a route at every moment, as both namespaces have a queue.
DefaultRoute ==
    regs["exported"] # NoRow /\ Untouched =>
        /\ Active = {} => Routes = IF <<"sq", roles.active>> \in ExportedContent
                                   THEN {<<"route", roles.active>>} ELSE {}
        /\ Switching /\ {<<"sq", ns>> : ns \in Namespaces} \subseteq ExportedContent => Routes # {}

\* What a request leaves behind in its vhost: all that its configuration
\* declares, a binding if it has an exchange to bind to, and no binding that
\* still waits for an exchange that is there.
VhostComplete(r) ==
    LET c == job[r].base
        row == Read(r, c)
        things == content[<<row.inst, c>>]
        config == job[r].config
    IN /\ {<<e>> : e \in config.declare \cap {"x", "q"}} \subseteq things
       /\ "b" \in config.declare /\ {<<"x">>, <<"q">>} \subseteq things => <<"b">> \in things
       /\ "b" \in row.declared /\ ~row.bound /\ {<<"x">>, <<"q">>} \subseteq things => <<"b">> \in things

\* A configuration, a warm-up or a recovery that succeeds has left the vhost
\* complete, whatever failures and losses were before it.
ServedVhostComplete ==
    [][\A r \in Requests :
         Commit(r) /\ job'[r] = NoJob /\ job[r].op \in {"apply", "warmup", "recover"}
           => VhostComplete(r)]_vars
=============================================================================
