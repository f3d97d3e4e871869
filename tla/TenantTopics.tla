---------------------------- MODULE TenantTopics ----------------------------
(***************************************************************************)
(* Tenants, tenant topics and topic templates of one namespace. A tenant   *)
(* topic is a definition: every tenant gets a topic of it, when the tenant *)
(* or the definition is added, whichever comes last. A lazy topic is a     *)
(* definition too, and gets a topic when a service asks for it. A topic    *)
(* may follow a template, and a change of the template reaches all of its  *)
(* topics.                                                                 *)
(*                                                                         *)
(* The requests interleave at their database operations. Synchronisation   *)
(* of tenants and clean-up run in one transaction each, the others commit  *)
(* as they go. What GetOrCreateTopic does under its lock is one step here, *)
(* and is taken apart in KafkaTopics; but Kafka takes part in no           *)
(* transaction, and each step that writes a row and its topic may leave    *)
(* the topic changed and the row as it was.                                *)
(***************************************************************************)
EXTENDS BrokerInstances

CONSTANTS Tenants, Definitions, Configs, Unknown, Requests, Loads

Pairs == Definitions \X Tenants

\* A definition names the template, or gives its own configs; if there is no
\* template its topics have its own configs all the same.
DefinitionType == [template : BOOLEAN, configs : Configs]

\* A row of kafka_topics: template 0 is none, dirty marks a topic whose settings
\* the template's change has yet to bring to Kafka.
Row == [instance : Instances, template : Nat, configs : Configs, dirty : BOOLEAN]
NoTemplate == [id |-> 0, configs |-> None]

VARIABLES
    tenants, definitions, template, lastId,
    lazy,          \* the definitions of lazy topics, fixed
    rows,          \* kafka_topics, a row or None
    kafka,         \* the configs of each topic in each instance, or None
    request,
    settled,       \* history: definitions whose last request was alone and succeeded
    owed,          \* history: None, the configs of a template change that failed, or Unknown
                   \* when no change since could know what is missing where
    requestsLeft, faultsLeft

tables == <<tenants, definitions, template, lastId, rows>>
history == <<settled, owed>>
topicVars == <<tables, lazy, kafka, request, settled, owed, requestsLeft, faultsLeft>>
vars == <<instanceVars, topicVars>>

\* Configs are sets of settings. The loads say which definitions are of lazy
\* topics. None is told from a row, a definition, configs and a topic that is
\* resolved.
ASSUME TopicsAssumption ==
    /\ Tenants # {} /\ Definitions # {} /\ Configs # {}
    /\ \A l \in DOMAIN Loads : Loads[l].lazy \subseteq Definitions
    /\ None \notin Row \cup DefinitionType \cup [pair : Pairs, row : Row]
    /\ None # Unknown /\ {None, Unknown} \cap Configs = {}

\* One request: what it is about, where it is, the definitions and rows it has
\* read, what is left to do, the rows that its transaction holds, and the
\* tenants it has read that were not deleted since.
NoRequest ==
    [op |-> "idle", at |-> "idle", name |-> None, configs |-> None, found |-> NoTemplate,
     defs |-> <<>>, toCreate |-> {}, inserted |-> {}, todo |-> {}, topic |-> None, snap |-> <<>>,
     mine |-> <<>>, known |-> {}, ok |-> TRUE, alone |-> TRUE]

\* Nothing is registered; the topics of these pairs were created past MaaS.
Fresh(unregistered, c) ==
    /\ tenants = {} /\ definitions = [d \in Definitions |-> None]
    /\ template = NoTemplate /\ lastId = 0
    /\ rows = [p \in Pairs |-> None]
    /\ kafka = [i \in Instances |-> [p \in Pairs |-> IF p \in unregistered THEN c ELSE None]]

\* One definition that names the template, and one tenant that has its topic.
Deployed(i, d, t, c) ==
    /\ tenants = {t}
    /\ definitions = [e \in Definitions |-> IF e = d THEN [template |-> TRUE, configs |-> c] ELSE None]
    /\ template = [id |-> 1, configs |-> c] /\ lastId = 1
    /\ rows = [p \in Pairs |-> IF p = <<d, t>> THEN [instance |-> i, template |-> 1, configs |-> c, dirty |-> FALSE]
                               ELSE None]
    /\ kafka = [j \in Instances |-> [p \in Pairs |-> IF j = i /\ p = <<d, t>> THEN c ELSE None]]

Init ==
    /\ \E l \in DOMAIN Loads :
          LET first == CHOOSE i \in Instances : TRUE
              c == CHOOSE x \in Configs : TRUE IN
          /\ lazy = Loads[l].lazy
          /\ requestsLeft = Loads[l].requests /\ faultsLeft = Loads[l].faults /\ changesLeft = Loads[l].changes
          /\ \/ l = "instances" /\ Fresh({}, c) /\ InitInstances({}, None)
             \/ /\ InitInstances({first}, first)
                /\ \/ l = "fresh" /\ Fresh({}, c)
                   \/ l = "lazy" /\ \E unregistered \in {{}, Pairs} : Fresh(unregistered, c)
                   \/ l \in {"deployed", "moving"} /\ Deployed(first, CHOOSE d \in Definitions : TRUE,
                                                               CHOOSE t \in Tenants : TRUE, c)
    /\ request = [r \in Requests |-> NoRequest]
    /\ settled = Definitions \ lazy /\ owed = None

-----------------------------------------------------------------------------
(* Start and end of a request                                              *)

Running(r) == request[r].op # "idle"

\* The request that starts, and the ones that it overlaps, are not alone.
Start(r, q) ==
    /\ ~Running(r) /\ requestsLeft > 0 /\ requestsLeft' = requestsLeft - 1
    /\ request' = [s \in Requests |->
                     IF s = r THEN [q EXCEPT !.alone = \A n \in Requests : ~Running(n)]
                     ELSE [request[s] EXCEPT !.alone = @ /\ ~Running(s)]]
    /\ UNCHANGED <<lazy, faultsLeft, instanceVars>>

Goto(r, q) ==
    /\ request' = [request EXCEPT ![r] = q]
    /\ UNCHANGED <<lazy, history, requestsLeft, instanceVars>>

\* What the end of a request with this outcome settles.
Settles(q, ok) ==
    /\ settled' = IF ~(ok /\ q.ok /\ q.alone) THEN settled
                  ELSE CASE q.op \in {"define", "undefine"} -> settled \cup {q.name}
                         [] q.op = "cleanup" -> Definitions
                         [] OTHER -> settled
    /\ owed' = CASE q.op = "template" ->
                      IF ~q.alone THEN Unknown
                      ELSE IF ok THEN IF q.at = "template" \/ owed = q.configs THEN None ELSE owed
                      ELSE IF q.at \in {"update", "template"} THEN q.configs ELSE owed
                 [] q.op = "cleanup" -> IF ok /\ q.alone THEN None ELSE Unknown
                 [] OTHER -> owed

Succeed(r, q) ==
    /\ Settles(q, TRUE)
    /\ request' = [request EXCEPT ![r] = NoRequest] /\ UNCHANGED <<lazy, requestsLeft>>

Finish(r) == Succeed(r, request[r]) /\ UNCHANGED instanceVars

\* The tenants stay when the creation of their topics fails.
RollbackOfTopics(r) ==
    /\ Settles(request[r], FALSE)
    /\ tenants' = tenants \cup request[r].inserted
    /\ request' = [request EXCEPT ![r] = NoRequest]
    /\ UNCHANGED <<lazy, requestsLeft, definitions, template, lastId, rows, kafka, instanceVars>>

\* What the request had not committed is gone.
Abort(r) ==
    /\ request' = [request EXCEPT ![r] = NoRequest]
    /\ UNCHANGED <<lazy, requestsLeft, tables, instanceVars>>

Rollback(r) == Settles(request[r], FALSE) /\ Abort(r) /\ UNCHANGED kafka

\* An error of Kafka or of the database, or the end of the process.
Fault == faultsLeft > 0 /\ faultsLeft' = faultsLeft - 1

Fail(r) == Running(r) /\ Fault /\ Rollback(r)

\* A row that another transaction has written, or is about to delete, is locked.
Free(r, p) == \A s \in Requests \ {r} : p \notin DOMAIN request[s].mine

-----------------------------------------------------------------------------
(* Topics of pairs of a definition and a tenant                            *)

\* updateTopicConfigs: a topic that has all the settings asked for is left as it
\* is, with those that are asked for no longer; else they replace what it has.
Meets(actual, asked) == actual # None /\ asked \subseteq actual
Applied(actual, asked) == IF Meets(actual, asked) THEN actual ELSE asked

\* CreateTopicByTenantTopic and resolveKafkaInstance, without any lock: the
\* template that the definition names, if there is one, and the instance.
Resolved(def, i) ==
    IF def.template /\ template.id # 0
    THEN [instance |-> i, template |-> template.id, configs |-> template.configs, dirty |-> FALSE]
    ELSE [instance |-> i, template |-> 0, configs |-> def.configs, dirty |-> FALSE]

Candidates == IF designator # None THEN {designator} ELSE defaults

\* A lazy topic must have the template that its definition names.
TemplateMissing(q, d) == q.op = "lazy" /\ q.defs[d].template /\ template.id = 0

Resolve(r, p) ==
    LET q == request[r] IN
    /\ q.at = "topics" /\ q.topic = None /\ p \in q.todo
    /\ \/ \E i \in Candidates :
             /\ ~TemplateMissing(q, p[1])
             /\ Goto(r, [q EXCEPT !.topic = [pair |-> p, row |-> Resolved(q.defs[p[1]], i)]])
             /\ UNCHANGED <<tables, kafka>>
       \/ (Candidates = {} \/ TemplateMissing(q, p[1])) /\ Rollback(r)
    /\ UNCHANGED faultsLeft

\* The rows that a transaction holds, and this one.
Holds(mine, p, row) == [e \in DOMAIN mine \cup {p} |-> IF e = p THEN row ELSE mine[e]]

Visible(r, p) == IF p \in DOMAIN request[r].mine THEN request[r].mine[p] ELSE rows[p]

\* Foreign keys of a topic's row. That of a tenant topic refers to the tenant
\* by its id, which a tenant that is deleted and comes back does not keep.
Referable(row) == row.instance \in instances /\ (row.template # 0 => template.id = row.template)
HasTenant(q, p) == p[1] \in lazy \/ p[2] \in q.known \cup q.inserted

AfterTopics(q) == IF q.toCreate # {} THEN "insert" ELSE "finish"

\* The transaction of the tenants keeps the row for its end, other requests
\* commit it.
Keep(r, p, row) ==
    LET q == request[r]
        left == q.todo \ {p}
        next == [q EXCEPT !.todo = left, !.topic = None, !.at = IF left = {} THEN AfterTopics(q) ELSE "topics"] IN
    IF q.op = "tenants"
    THEN Goto(r, [next EXCEPT !.mine = Holds(@, p, row)]) /\ UNCHANGED tables
    ELSE Goto(r, next) /\ rows' = [rows EXCEPT ![p] = row] /\ UNCHANGED <<tenants, definitions, template, lastId>>

Linked(id) == {p \in Pairs : rows[p] # None /\ rows[p].template = id}

\* A topic was changed past its row. If it follows the template, only a change
\* that reaches all topics can make up for it.
Doubt(p) == settled' = settled /\ owed' = IF p \in Linked(template.id) THEN Unknown ELSE owed

\* GetOrCreateTopic, with Merge unless a lazy topic is asked for without. A
\* topic that is registered must be on the same instance, and is updated if its
\* settings differ; one that is not is taken over from Kafka or created there.
\* That is done before the row is committed: an error of a later call to Kafka,
\* or of the commit, takes back the row alone.
CreateTopic(r) ==
    LET q == request[r]
        p == q.topic.pair
        row == q.topic.row
        old == Visible(r, p)
        new == IF old = None THEN row
               ELSE [old EXCEPT !.template = row.template, !.configs = row.configs]
        write == old # new
        possible == /\ old # None => old.instance = row.instance /\ kafka[old.instance][p] # None
                    /\ write => Referable(new) /\ (old = None => HasTenant(q, p))
        altered == IF write THEN [kafka EXCEPT ![new.instance][p] = Applied(@, new.configs)] ELSE kafka IN
    /\ q.topic # None /\ Free(r, p)
    /\ \/ possible /\ Keep(r, p, new) /\ kafka' = altered /\ UNCHANGED faultsLeft
       \/ possible /\ write /\ Fault /\ Doubt(p) /\ Abort(r) /\ kafka' = altered
       \/ ~possible /\ Rollback(r) /\ UNCHANGED faultsLeft

\* The topic is in Kafka and not registered, and Merge was not asked for.
RefuseTopic(r) ==
    LET q == request[r] IN
    /\ q.op = "lazy" /\ q.topic # None
    /\ Visible(r, q.topic.pair) = None /\ kafka[q.topic.row.instance][q.topic.pair] # None
    /\ Rollback(r) /\ UNCHANGED faultsLeft

-----------------------------------------------------------------------------
(* ApplyTenants                                                            *)

\* The tenants of the request that are not there yet.
SubstractTenants(ts) == ts \ tenants

SyncTenants(r, ts) ==
    /\ Start(r, [NoRequest EXCEPT !.op = "tenants", !.at = "definitions", !.toCreate = SubstractTenants(ts)])
    /\ UNCHANGED <<tables, kafka, history>>

FindDefinitions(D) == [d \in {e \in D : definitions[e] # None} |-> definitions[d]]

ReadDefinitions(r) ==
    LET q == request[r] IN
    /\ q.op = "tenants" /\ q.at = "definitions"
    /\ Goto(r, [q EXCEPT !.defs = FindDefinitions(Definitions \ lazy), !.at = AfterTopics(q)])
    /\ UNCHANGED <<tables, kafka, faultsLeft>>

Waits(r, t) == \E s \in Requests \ {r} : t \in request[s].inserted

\* A tenant that another transaction has inserted meanwhile aborts this one.
InsertTenant(r, t) ==
    LET q == request[r]
        pairs == (DOMAIN q.defs) \X {t}
        next == [q EXCEPT !.toCreate = @ \ {t}, !.inserted = @ \cup {t}, !.todo = pairs] IN
    /\ q.at = "insert" /\ t \in q.toCreate /\ ~Waits(r, t)
    /\ IF t \in tenants THEN Rollback(r)
       ELSE /\ Goto(r, [next EXCEPT !.at = IF pairs = {} THEN AfterTopics(next) ELSE "topics"])
            /\ UNCHANGED <<tables, kafka>>
    /\ UNCHANGED faultsLeft

WaitsFor(r, s) ==
    \/ request[r].at = "insert" /\ request[r].toCreate \cap request[s].inserted # {}
    \/ request[r].op = "cleanup" /\ request[r].todo \cap DOMAIN request[s].mine # {}

\* Two transactions that wait for each other's tenants, or for the rows that
\* the other one deletes: PostgreSQL ends one.
BreakDeadlock(r, s) ==
    /\ r # s /\ WaitsFor(r, s) /\ WaitsFor(s, r)
    /\ Rollback(r) /\ UNCHANGED faultsLeft

CommitTenants(r) ==
    LET q == request[r] IN
    /\ q.op = "tenants" /\ q.at = "finish"
    /\ tenants' = tenants \cup q.inserted
    /\ rows' = [p \in Pairs |-> Visible(r, p)]
    /\ Finish(r) /\ UNCHANGED <<definitions, template, lastId, kafka, faultsLeft>>

-----------------------------------------------------------------------------
(* Definitions of tenant topics and lazy topics                            *)

Unsettle(D) == settled' = settled \ D /\ UNCHANGED owed

\* applyKafkaTopicDefinition, GetOrCreateTopicDefinition: the look.
ApplyTopicDefinition(r, d, def) ==
    /\ Start(r, [NoRequest EXCEPT !.op = "define", !.name = d, !.defs = [e \in {d} |-> def],
                                  !.at = IF definitions[d] = None THEN "insert" ELSE "update"])
    /\ Unsettle({d}) /\ UNCHANGED <<tables, kafka>>

\* The definition is stored; a tenant topic goes on to its tenants.
Defined(r) ==
    LET q == request[r] IN
    /\ definitions' = [definitions EXCEPT ![q.name] = q.defs[q.name]]
    /\ Goto(r, [q EXCEPT !.at = IF q.name \in lazy THEN "finish" ELSE "tenants"])
    /\ UNCHANGED <<tenants, template, lastId, rows, kafka>>

\* A definition that is there by now is not inserted.
InsertDefinition(r) ==
    LET q == request[r] IN
    /\ q.op = "define" /\ q.at = "insert"
    /\ IF definitions[q.name] = None THEN Defined(r) ELSE Rollback(r)
    /\ UNCHANGED faultsLeft

\* The update brings back a definition that was deleted.
UpdateDefinition(r) ==
    /\ request[r].op = "define" /\ request[r].at = "update"
    /\ Defined(r) /\ UNCHANGED faultsLeft

DeleteDefinition(d) ==
    /\ definitions' = [definitions EXCEPT ![d] = None]
    /\ Unsettle({d}) /\ UNCHANGED <<tenants, template, lastId, rows, kafka>>

\* With its topics, as part of a configuration.
DeleteTenantTopic(r, d) ==
    /\ d \notin lazy /\ DeleteDefinition(d)
    /\ Start(r, [NoRequest EXCEPT !.op = "undefine", !.at = "tenants", !.name = d])

\* Without its topics, as a request of its own.
ForgetDefinition(r, d) ==
    /\ DeleteDefinition(d)
    /\ Start(r, [NoRequest EXCEPT !.op = "forget", !.at = "finish", !.name = d])

ReadTenants(r) ==
    LET q == request[r] IN
    /\ q.at = "tenants"
    /\ Goto(r, [q EXCEPT !.todo = {q.name} \X tenants, !.known = tenants,
                         !.at = IF tenants = {} THEN "finish" ELSE IF q.op = "define" THEN "topics" ELSE "delete"])
    /\ UNCHANGED <<tables, kafka, faultsLeft>>

\* DeleteTopics for one tenant. A topic that cannot be deleted is reported in
\* the answer, and the loop goes on; it may be gone from Kafka, as the deletion
\* is waited for, and the row is committed, after it was asked for.
DeletePair(r, p) ==
    LET q == request[r]
        left == q.todo \ {p}
        next == [q EXCEPT !.todo = left, !.at = IF left = {} THEN "finish" ELSE "delete"]
        deleted == IF rows[p] = None THEN kafka ELSE [kafka EXCEPT ![rows[p].instance][p] = None] IN
    /\ q.at = "delete" /\ p \in q.todo /\ Free(r, p)
    /\ \/ /\ Goto(r, next)
          /\ rows' = [rows EXCEPT ![p] = None] /\ kafka' = deleted
          /\ UNCHANGED <<tenants, definitions, template, lastId, faultsLeft>>
       \/ /\ rows[p] # None /\ Fault
          /\ \/ Goto(r, [next EXCEPT !.ok = FALSE]) /\ UNCHANGED <<tables, kafka>>
             \/ /\ request' = [request EXCEPT ![r] = [next EXCEPT !.ok = FALSE]]
                /\ Doubt(p) /\ kafka' = deleted
                /\ UNCHANGED <<tables, lazy, requestsLeft, instanceVars>>

Answer(r) ==
    /\ request[r].op \in {"define", "undefine", "forget", "lazy"} /\ request[r].at = "finish"
    /\ Finish(r) /\ UNCHANGED <<tables, kafka, faultsLeft>>

\* GetOrCreateLazyTopic: a service asks for the topic of a tenant, which the
\* definition of that name must describe.
GetOrCreateLazyTopic(r, d, t) ==
    /\ d \in lazy
    /\ Start(r, [NoRequest EXCEPT !.op = "lazy", !.at = "lazy", !.name = d, !.todo = {<<d, t>>}])
    /\ UNCHANGED <<tables, kafka, history>>

CompatibleLazyTopic(r) ==
    LET q == request[r] IN
    /\ q.at = "lazy"
    /\ IF definitions[q.name] = None THEN Rollback(r)
       ELSE /\ Goto(r, [q EXCEPT !.defs = FindDefinitions({q.name}), !.at = "topics"])
            /\ UNCHANGED <<tables, kafka>>
    /\ UNCHANGED faultsLeft

-----------------------------------------------------------------------------
(* ApplyKafkaTopicTemplate and DeleteTopicTemplate                         *)

ApplyTopicTemplate(r, c) ==
    /\ Start(r, [NoRequest EXCEPT !.op = "template", !.configs = c, !.found = template,
                                  !.at = IF template.id = 0 THEN "create"
                                         ELSE IF template.configs = c THEN "same" ELSE "search"])
    /\ UNCHANGED <<tables, kafka, history>>

\* The configs are the ones that the template has.
SameTemplate(r) ==
    /\ request[r].op = "template" /\ request[r].at = "same"
    /\ Finish(r) /\ UNCHANGED <<tables, kafka, faultsLeft>>

InsertTemplate(r) ==
    LET q == request[r] IN
    /\ q.op = "template" /\ q.at = "create"
    /\ IF template.id # 0 THEN Rollback(r)
       ELSE /\ lastId' = lastId + 1 /\ template' = [id |-> lastId + 1, configs |-> q.configs]
            /\ Succeed(r, [q EXCEPT !.at = "template"])
            /\ UNCHANGED <<instanceVars, tenants, definitions, rows, kafka>>
    /\ UNCHANGED faultsLeft

SearchTopics(r) ==
    LET q == request[r] IN
    /\ q.op = "template" /\ q.at = "search"
    /\ Goto(r, [q EXCEPT !.snap = [p \in Linked(q.found.id) |-> rows[p]], !.todo = Linked(q.found.id),
                         !.known = tenants, !.at = "dirty"])
    /\ UNCHANGED <<tables, kafka, faultsLeft>>

\* Where the change goes on when this is left of the topics.
AfterUpdates(left) == IF left = {} THEN "template" ELSE "update"

\* The template is saved before its topics are updated.
MakeTopicsDirtySaveTemplate(r) ==
    LET q == request[r] IN
    /\ q.op = "template" /\ q.at = "dirty" /\ \A p \in Linked(q.found.id) : Free(r, p)
    /\ rows' = [p \in Pairs |-> IF p \in Linked(q.found.id) THEN [rows[p] EXCEPT !.dirty = TRUE] ELSE rows[p]]
    /\ template' = [id |-> q.found.id, configs |-> q.configs]
    /\ Goto(r, [q EXCEPT !.at = AfterUpdates(q.todo)])
    /\ UNCHANGED <<tenants, definitions, lastId, kafka, faultsLeft>>

MakeTopicsDirty(r) ==
    LET q == request[r] IN
    /\ q.op = "template" /\ q.at = "dirty" /\ \A p \in Linked(q.found.id) : Free(r, p)
    /\ rows' = [p \in Pairs |-> IF p \in Linked(q.found.id) THEN [rows[p] EXCEPT !.dirty = TRUE] ELSE rows[p]]
    /\ Goto(r, [q EXCEPT !.at = AfterUpdates(q.todo)])
    /\ UNCHANGED <<tenants, definitions, template, lastId, kafka, faultsLeft>>

\* UpdateTopicSettingsByTemplate saves the row that the search has read, with
\* the new configs and without the mark, and the topic with it or without it.
UpdateTopicSettings(r, p) ==
    LET q == request[r]
        row == [q.snap[p] EXCEPT !.configs = q.configs, !.dirty = FALSE]
        possible == Referable(row) /\ HasTenant(q, p) /\ kafka[row.instance][p] # None
        altered == [kafka EXCEPT ![row.instance][p] = Applied(@, q.configs)] IN
    /\ q.op = "template" /\ q.at = "update" /\ p \in q.todo /\ Free(r, p)
    /\ \/ /\ possible /\ rows' = [rows EXCEPT ![p] = row] /\ kafka' = altered
          /\ Goto(r, [q EXCEPT !.todo = @ \ {p}, !.at = AfterUpdates(q.todo \ {p})])
          /\ UNCHANGED <<tenants, definitions, template, lastId, faultsLeft>>
       \/ possible /\ Fault /\ Settles(q, FALSE) /\ Abort(r) /\ kafka' = altered
       \/ ~possible /\ Rollback(r) /\ UNCHANGED faultsLeft

\* UpdateTopicTemplate, after the last topic.
UpdateTemplate(r) ==
    LET q == request[r] IN
    /\ q.op = "template" /\ q.at = "template"
    /\ IF template.id \in {0, q.found.id}
       THEN /\ template' = [id |-> q.found.id, configs |-> q.configs]
            /\ Finish(r) /\ UNCHANGED <<tenants, definitions, lastId, rows, kafka>>
       ELSE Rollback(r)
    /\ UNCHANGED faultsLeft

DropTemplate(r) ==
    /\ Start(r, [NoRequest EXCEPT !.op = "drop", !.at = "drop", !.found = template])
    /\ UNCHANGED <<tables, kafka, history>>

\* Rows of other transactions that refer to the template lock it.
Referred(id) == id # 0 /\ \E s \in Requests : \E p \in DOMAIN request[s].mine :
                   request[s].mine[p] # None /\ request[s].mine[p].template = id

DeleteTemplate(r) ==
    LET q == request[r] IN
    /\ q.op = "drop" /\ ~Referred(q.found.id)
    /\ \/ q.found.id # 0 /\ Linked(q.found.id) # {} /\ Rollback(r)
       \/ /\ q.found.id = 0 \/ Linked(q.found.id) = {}
          /\ template' = IF template.id = q.found.id THEN NoTemplate ELSE template
          /\ Finish(r) /\ UNCHANGED <<tenants, definitions, lastId, rows, kafka>>
    /\ UNCHANGED faultsLeft

-----------------------------------------------------------------------------
(* DeleteNamespace, as far as it goes for Kafka and tenants                *)

Registered == {p \in Pairs : rows[p] # None}

CleanupNamespace(r) ==
    /\ Start(r, [NoRequest EXCEPT !.op = "cleanup", !.at = "clean", !.todo = Registered])
    /\ settled' = {} /\ owed' = Unknown /\ UNCHANGED <<tables, kafka>>

\* The row goes with the transaction, the topic goes now.
CleanTopic(r, p) ==
    LET q == request[r] IN
    /\ q.op = "cleanup" /\ p \in q.todo /\ Free(r, p)
    /\ kafka' = IF rows[p] = None THEN kafka ELSE [kafka EXCEPT ![rows[p].instance][p] = None]
    /\ Goto(r, [q EXCEPT !.todo = @ \ {p}, !.mine = Holds(@, p, None)])
    /\ UNCHANGED <<tables, faultsLeft>>

\* Templates, definitions, designators and tenants follow; a topic that came
\* meanwhile and refers to the template or to a tenant makes all of it fail.
CommitCleanup(r) ==
    LET q == request[r]
        left == {p \in Registered \ DOMAIN q.mine : p[1] \notin lazy \/ rows[p].template # 0} IN
    /\ q.op = "cleanup" /\ q.todo = {} /\ ~Referred(template.id)
    /\ IF left # {}
       THEN Rollback(r)
       ELSE /\ rows' = [p \in Pairs |-> Visible(r, p)] /\ template' = NoTemplate /\ designator' = None
            /\ definitions' = [d \in Definitions |-> None] /\ tenants' = {}
            /\ request' = [s \in Requests |-> IF s = r THEN NoRequest ELSE [request[s] EXCEPT !.known = {}]]
            /\ Settles(q, TRUE)
            /\ UNCHANGED <<lazy, requestsLeft, lastId, kafka, instances, defaults, change, monitors, raced, deaf, changesLeft>>
    /\ UNCHANGED faultsLeft

-----------------------------------------------------------------------------

InUse == {rows[p].instance : p \in Registered} \cup {designator}
         \cup UNION {{m.instance : m \in {request[r].mine[p] : p \in DOMAIN request[r].mine} \ {None}} : r \in Requests}

\* Nothing is under way, and the bounds allow no more.
Rest ==
    /\ \A r \in Requests : ~Running(r)
    /\ \A m \in Managers : ~Active(m)
    /\ requestsLeft = 0 /\ changesLeft = 0 /\ \A r \in Replicas : refresh[r] = 0
    /\ UNCHANGED vars

Next ==
    \/ \E r \in Requests :
          \/ \E ts \in SUBSET Tenants \ {{}} : SyncTenants(r, ts)
          \/ ReadDefinitions(r)
          \/ \E t \in Tenants : InsertTenant(r, t)
          \/ \E s \in Requests : BreakDeadlock(r, s)
          \/ CommitTenants(r)
          \/ \E p \in Pairs : Resolve(r, p)
          \/ CreateTopic(r)
          \/ RefuseTopic(r)
          \/ \E d \in Definitions, def \in DefinitionType : ApplyTopicDefinition(r, d, def)
          \/ InsertDefinition(r)
          \/ UpdateDefinition(r)
          \/ \E d \in Definitions : ForgetDefinition(r, d)
          \/ \E d \in Definitions : DeleteTenantTopic(r, d)
          \/ ReadTenants(r)
          \/ \E p \in Pairs : DeletePair(r, p)
          \/ Answer(r)
          \/ \E d \in Definitions, t \in Tenants : GetOrCreateLazyTopic(r, d, t)
          \/ CompatibleLazyTopic(r)
          \/ \E c \in Configs : ApplyTopicTemplate(r, c)
          \/ SameTemplate(r)
          \/ InsertTemplate(r)
          \/ SearchTopics(r)
          \/ MakeTopicsDirty(r)
          \/ \E p \in Pairs : UpdateTopicSettings(r, p)
          \/ UpdateTemplate(r)
          \/ DropTemplate(r)
          \/ DeleteTemplate(r)
          \/ CleanupNamespace(r)
          \/ \E p \in Pairs : CleanTopic(r, p)
          \/ CommitCleanup(r)
          \/ Fail(r)
    \/ \E m \in Managers :
          \/ \E r \in Replicas, i \in Instances, default \in BOOLEAN : Register(m, r, i, default) /\ UNCHANGED topicVars
          \/ \E r \in Replicas, i \in Instances, default \in BOOLEAN : Update(m, r, i, default) /\ UNCHANGED topicVars
          \/ \E r \in Replicas, i \in Instances : SetDefault(m, r, i) /\ UNCHANGED topicVars
          \/ \E r \in Replicas, i \in Instances : Remove(m, r, i) /\ UNCHANGED topicVars
          \/ \E r \in Replicas, i \in Instances, default \in BOOLEAN : Deploy(m, r, i, default) /\ UNCHANGED topicVars
          \/ DeployInstance(m) /\ UNCHANGED topicVars
          \/ ClearDefaults(m) /\ UNCHANGED topicVars
          \/ CommitSave(m) /\ UNCHANGED topicVars
          \/ CommitDefault(m) /\ UNCHANGED topicVars
          \/ CommitRemove(m, InUse) /\ UNCHANGED topicVars
          \/ RefuseChange(m, InUse) /\ UNCHANGED topicVars
          \/ Tell(m) /\ UNCHANGED topicVars
    \/ \E i \in Instances \cup {None} : PutDesignator(i) /\ UNCHANGED topicVars
    \/ \E r \in Replicas : ReadBrokerList(r) /\ UNCHANGED topicVars
    \/ \E r \in Replicas : StoreBrokerList(r) /\ UNCHANGED topicVars
    \/ Rest

Spec == Init /\ [][Next]_vars

-----------------------------------------------------------------------------
(* Properties                                                              *)

\* After a request about a tenant topic that ran alone and succeeded, every
\* tenant has the topic in the database and in Kafka, or no tenant has it,
\* however the requests for tenants before and since then have failed halfway,
\* raced with each other, or moved to another default instance.
EveryTenantHasItsTopics ==
    \A d \in settled \ lazy, t \in tenants :
       LET row == rows[<<d, t>>] IN
       IF definitions[d] = None THEN row = None
       ELSE row # None /\ kafka[row.instance][<<d, t>>] # None

\* All topics of the template have its settings, here and on Kafka, after a
\* change that ran alone and succeeded: also when it was the repetition of one
\* that had stopped halfway, with a topic changed on Kafka and not here, or after
\* a request for one topic, or its deletion, had stopped like that. (Such a
\* request is no longer repaired by any other: the row seems right, and Kafka is
\* not looked at. A setting that the template no longer names may stay on Kafka.
\* The mark of a change that stopped may stay on a topic that has left the
\* template and come back; only a change reads it.)
TemplateReachesTopics ==
    owed = None /\ template.id # 0 /\ (\A r \in Requests : request[r].op # "template")
    => \A p \in Linked(template.id) :
          /\ rows[p].configs = template.configs
          /\ Meets(kafka[rows[p].instance][p], template.configs)
=============================================================================
