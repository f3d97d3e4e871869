# MaaS in TLA+

MaaS (Messaging as a Service) keeps registrations of Kafka topics and Rabbit virtual
hosts in PostgreSQL, and creates, changes and deletes the real topics and vhosts on the
brokers to match. Several replicas of the service run against one database and the same
brokers. This project models the parts of it whose correctness depends on the order in
which requests, transactions and brokers act, checks them with TLC on small instances,
and proves their safety for instances of any size with TLAPS, that of `RabbitVhosts` in
part. Ten modules model the program; those that TLC runs have an `MC` module with the
values of their constants.

## 1. Inventory

Paths are relative to `src/maas/maas-service/`.

| Component | State | Operations | Hard behaviour | What makes it correct |
|---|---|---|---|---|
| Kafka topics (`service/kafka`) | `kafka_topics`, `kafka_topic_classifiers`, topics on the brokers | getOrCreate, delete, sync, search, BG clone, warm-up, commit | Kafka changes inside a database transaction; siblings of a BG domain under different locks; deletes without lock; retries and clean-ups | one registration per classifier; registered topics exist; no orphans, and topics of others stay; every request ends |
| Transactions and locks (`dao`) | advisory locks, transaction context | WithLock, WithTx, UsingDb | lock ends with the transaction, deadlock victims, commit errors, outage of the master in the middle of a request | nothing half-committed; locks are released |
| Composites (`service/composite`) | `composite_namespaces_v2`, `composite_properties` | Upsert, Destroy, CleanupNamespace, join by configuration | destroy, clean-up and join without lock, read-then-write | namespaces in one composite, whole generations, monotone index |
| Custom resources (`service/cr`) | `custom_resource_waits` | Apply, Delete, Terminate, run of the wait list | no transaction over an apply; crashes; two replicas on one list | waiting resources are run once they can be, not forgotten, not falsely settled |
| Templates and definitions (`service/kafka`, `service/configurator_service`) | `kafka_topic_templates`, `kafka_topic_definitions` | apply, delete, spread of a change over the topics, lazy creation | find-then-insert; a change that stops halfway and is repeated | topics follow their template and definition |
| BG domains (`service/bg2`) | `bg_domains`, `bg_states` | init, warm-up, commit, promote, rollback, destroy | several brokers in one database transaction | state machine of the domain; topics and vhosts of candidate and active |
| Legacy BG status (`service/bg_service`) | `bg_statuses` | apply of a status, listeners | the broker changes before the status is stored | routes lead to the active version |
| Topic watch, event bus (`eventbus`) | channels, NOTIFY/LISTEN | watch, broadcast | lost notifications, blocking channels, look-then-wait | a watcher learns of its topic |
| Replica cache (`dao/replicator`) | copy of the tables | full copy, change listener, master monitor | copy and changes overlap, reconnect | the cache follows the master |
| Broker instances (`service/instance`) | instances, default flags, designators | register, update, set default, delete, deploy from file | two defaults, none, instances that move under topics | one default |
| Rabbit vhosts (`service/rabbit_service`) | registrations, entities, versioned entities; vhosts, users, contents, shovels | getOrCreate, apply, rotate, delete, recovery, BG operations | broker and database change one after the other | registrations open; vhosts have what was declared and exported |
| Tenants (`service/tenant`) | `tenants` | apply | definitions read before the transaction, deadlocks on unique keys | a topic per tenant and definition |
| Broker watchdog (`watchdog`) | list of instances in each replica | refresh, health checks | flag set and cleared around a read | the list is what is registered |
| Configurator, clean-up | none of their own | calls into the above | partial failure over several services | - |
| Accounts, monitoring, discrepancy, post-deploy, migrations, HTTP | accounts, audit | - | little | - |

How they interact: controllers call the configurator or a service; the services share
the database through `dao` (one transaction per request context, nested calls join it)
and reach brokers through helpers. The Kafka service broadcasts a NOTIFY after a
registration, from which the watchers of all replicas wake up. The custom resource
processor calls the configurator, which calls the Kafka and Rabbit services. The
clean-up calls an executor of each service in one transaction.

All components, also those left out, are listed in `PROJECT.json` with the reason, and
every place where the order of steps can go wrong is listed under its `hazards`, with
the property that watches it or the reason there is none.

## 2. Modules

| Module | Models | Checked by | Proofs |
|---|---|---|---|
| `KafkaTopics` | topic requests, rows and claims, brokers | `MCKafkaTopics`, three runs | `KafkaTopicsProofs` |
| `CompositeRegistration` | composites | `MCCompositeRegistration`, one run | `CompositeRegistrationProofs` |
| `CompositeRegistry` | abstract: what readers see of composites | implemented by `CompositeRegistration` | the refinement, in `CompositeRegistrationProofs` |
| `CustomResources` | custom resources and their wait list | `MCCustomResources`, two runs | `CustomResourcesProofs` |
| `BgTopics` | topics under the operations of a BG domain | `MCBgTopics`, two runs | `BgTopicsProofs` |
| `RabbitVersions` | versioned Rabbit entities, routers and the legacy BG status | `MCRabbitVersions`, one run | `RabbitVersionsProofs` |
| `RabbitVhosts` | vhosts, users and entities, exported vhosts, BG operations on them | `MCRabbitVhosts`, one run | `RabbitVhostsProofs` |
| `Storage` | master, cache, event bus, watches, transactions through outages | `MCStorage`, one run | `StorageProofs` |
| `BrokerInstances` | instances, default, designator, monitors | with `TenantTopics` | in `TenantTopicsProofs` |
| `TenantTopics` | tenants, definitions, templates, lazy topics, on the instances of `BrokerInstances`, which it extends | `MCTenantTopics`, one run | `TenantTopicsProofs` |

`KafkaTopics`, `CompositeRegistration` and `CustomResources` have one process per
*request*, whatever replica serves it: replicas share no memory, only the database and
the brokers. A request is idle until it is submitted with one of the calls that `Calls`
allows it, and runs once. One action is one statement on the database, one call to a
broker, or one decision between two of them, and the steps of requests interleave
freely. The later modules have a few request slots that serve one call after the other,
and a *load*, chosen in the initial state, that says which calls come and how many
failures there are: one module then serves several questions without multiplying all of
them.

### KafkaTopics

`regs` and `claims` are the committed rows of `kafka_topics` and
`kafka_topic_classifiers`; `work[p]` is what the transaction of request `p` has written
and not committed; `seen[p]` is the registration the request has read and keeps using;
`kafka[k]` says who made the topic with the (instance, name) pair `k`, and `tunedBy[k]`
which request last applied settings to it.

* `Submit` is a call of the API. A getOrCreate request (`GetOrCreateTopicWithAuth`)
  takes the advisory lock (`Lock`), looks up the registration (`Lookup`), and either
  compares settings (`Compare`), updates (`SaveRow`, `ApplySettings`), or probes Kafka
  (`Probe`) and inserts: `InsertRow`, `InsertOwnClaim` and, for an unversioned topic of
  a namespace in a BG domain, `InsertSiblingClaim`. Then it goes to Kafka: `MakeTopic`
  and `DescribeNewTopic` (with the clean-up of the helper), or `ApplySettings` for a
  merge. `Commit` ends the transaction, and with it the lock.
* A delete is `FindForDelete`, `RemoveRow`, `DropTopic`, `Commit`; a sync is
  `FindForSync`, `ProbeForSync`, `SyncTopic`. They take no advisory lock.
* Every search first inserts the missing claims of old unversioned rows
  (`migrateAllBg2Kafka`): `ToMigrate`, `MigrationFails`.
* The database is modelled by what it promises: `BlockedBy` says for which transactions
  a statement waits (unique keys, row locks, key-share locks of foreign keys, advisory
  lock), and `DeadlockVictim` ends one member of a minimal circle of waiting
  transactions. A statement that had to wait runs when the other transaction has ended,
  and sees its result.
* `Lose` ends a request at any step: the replica is killed, its connection breaks, or
  the commit is refused. The transaction is rolled back, what was done on Kafka stays.
  After the commit the name of the template is looked up for the answer, and that may
  fail: the answer is then an error (`Outcomes`, "lateError") although all is done
  (`service/kafka/kafka_service.go:332-338`).
* `CreateOutside`: the brokers are not MaaS's alone, and others create topics under any
  free name at any time.
* `prodMode` is the production-mode switch, which makes the topic API refuse deletes
  (`ProdMode`). The namespace clean-up and the commit of a BG domain bypass that switch
  in the code; they are not in this module, so the properties named `Prod...` say what
  getOrCreate and sync guarantee.

Abstracted: settings are only equal or different; templates and the merge of their
settings are left out; a request for several classifiers counts as several requests;
access checks and name resolution come before the first step and only decide which calls
arrive.

### CompositeRegistration

`rows` are the committed rows of a composite, each carrying the request that wrote it,
and the baseline's row the modify index of `composite_properties` (which is deleted with
it). `form[p]` is the registration that `p` writes or destroys: the one it was called
with, or the one a clean-up has read. An upsert is `Lock`, `CheckIndex`, `FindRows`,
`DeleteRows`, `InsertRows`, `Commit`; a destroy starts at `FindRows` without lock; a
clean-up reads (`ReadForCleanup`) and goes on as one of the two; a join (a configuration
that names a base namespace) reads in the same way, adds its namespace to the composite
of the base, or founds one with the base and all of the base's BG domain, and goes on as
an upsert without modify index. A DELETE is two actions because PostgreSQL looks for
rows once, with the snapshot of the statement, and passes over those that are gone when
it has waited for their locks. `Guarded` is the deferred trigger of migration 27.

`CompositeRegistry` is what the rows mean to a reader: a map from baselines to disjoint
sets of members, each with its modify index; one composite at a time is replaced as a
whole, not by an older one, or destroyed. The refinement mapping takes `members[b]` to
the namespaces of the committed rows of `b`, and `index[b]` to the index stored with its
baseline; all steps but `Commit` are stutters.

### CustomResources

One namespace, topics and topic templates. `templates` and `topics` are what is
registered, `waits` the rows of `custom_resource_waits`; `cur[p]` is the waiting row
that request `p` runs at the moment (none: its own resource) and `todo[p]` the ones it
has read and not reached. An apply is `Check` (is the template there) or `CheckFails`
(the database does not say), `Exec` or `ExecFails`, then `FindWaiting`, and for each row
`Pick`, the same two looks and handlers, after an error `MarkFailed`, and
`MarkCompleted`; at the end `Dequeue`. If its own template is missing it ends with
`PutToWaitList`. No transaction spans these steps. Lazy topics, tenant topics and vhosts
take the same way through the applier with other handlers; the resolution of the
template and the getOrCreate inside the handler are one step (`KafkaTopics` has their
inner steps); the clean-up of the namespace is one step, because it is one transaction.
The id of a row is the request that inserted it, in place of the serial tracking id.

### BgTopics

One domain with an origin and a peer. `roles` is what the BG controller believes,
`recorded` the newest row of `bg_states`; they differ when an answer was lost. `job` is
the operation in progress with the part of the tables its transaction has changed
(`touched`, `regs`, `claims`): `ViewRegs` and `ViewClaims` are what the transaction
sees, `regs` and `claims` what everybody else does.

* The BG controller and the operator (`Request`, `InitDomain`) are external: which
  operation may follow which is not checked by MaaS, which only stores the roles it is
  sent. A failed operation is repeated (`Retry`), except that a refusal (no such domain,
  namespaces not empty) is an answer.
* Warm-up is `ValidateDomain`, `CloneClaims` (the SQL of `KafkaDaoImpl.Warmup`),
  `ListTopics`, `CopyVersionedTopics` for each versioned topic, `LoopDone`, `Save`.
  Commit and clean-up delete what `ListTopics` has found (`DeleteTopics`); destroy is
  `CheckEmpty`; promote and rollback have no effect on topics.
* Topic names are resolved from name and namespace, except those in `Fixed`, which
  services ask for under one fixed name in both namespaces. Such a topic cannot be
  copied while it is versioned: building the request for the copy fails each time
  (`service/kafka/kafka_service.go:1279-1290`), and with it the warm-up (`CopyTopic`). A
  copy that finds a topic on another instance would be refused in the same way; that
  takes two rows of one name on two instances, which the module does not have.
* `Save` is the commit of the outer transaction. `Lose` fails the operation before any
  step; the Rabbit steps, the other executors of a clean-up and the stored controller
  namespace can do no more to topics than that, and are left out.
* Services of live namespaces register topics (`GetOrCreateTopic`), also while an
  operation runs; they wait, as the database makes them, once it has uncommitted changes
  of that name.

Here a getOrCreate is one step and the operations run one at a time; the races of single
requests are in `KafkaTopics`, of which this module repeats only the outcome.

### RabbitVersions

The versioned entities of one virtual host in the legacy blue-green scheme. `configs`
are the committed rows of `rabbit_ms_configs` with their entities, by service and
version, with the *actual* version a service was deployed in last; `status` is the
stored BG status; `broker` and `links` are exchanges, queues and bindings. One request
is served at a time (`job`), step by step, so that it can fail between any two calls of
the broker.

* A deployment (`Submit`) activates its version if it is the first (`Activate`), copies
  the configurations of services that it does not bring (`CopyAndValidate`), deletes
  what is no longer declared (`DeleteEntity`), creates entities and version routers
  (`CreateEntities`, `BindExchange`), and binds (`CreateBinding`, also bindings that
  waited for their exchange), all in one transaction (`Commit`).
* A status (`SubmitStatus`, any successor the control plane can send) first moves the
  routes of each router, `BindActive` before `UnbindFormer`, then deletes what only
  dropped versions have (`DropConfig`, `DropEntities`), then is stored (`InsertStatus`).
  Errors of the listener are only logged, and the status is stored all the same
  (`ListenerDone`).
* `SubmitRecovery` is the recovery of the virtual host, version by version.

Coarse: a configuration's row with its entity rows is dropped in one step
(`DropConfig`).

### RabbitVhosts

`regs` are the rows of `rabbit_vhosts` with their entities; `vhosts`, `users` and
`content` what is on the brokers; `roles` the state of the BG domain. A request is a
*program*, a sequence of steps that `Program` gives for its operation
(`GetOrCreateVhost`, `RotatePasswords`, `RemoveVHosts`, `ApplyRabbitConfiguration`,
`RecoverVhosts`, `Warmup`, `CommitBg`, `ChangeActiveVersion`), each step one statement
or one kind of broker call; `job[r].writes` are its uncommitted rows. The exported vhost
gets its content from `ProcessExportedVhost`: what the base vhosts export (`Collect`), a
queue and shovels for each, the alternate exchange with its routes, and what nobody
exports any more is removed (`Prune`, `PruneShovels`). `Fail` ends a request between two
steps (`Denied`: also at a step that would make no call this time, which adds failures
and takes none away), and `Lose` is a broker that was set up anew. The clean-up of a
namespace removes vhosts without asking for production mode, as it does with topics;
`ProdRegistrationOpens` is about requests of the vhost API and the configurator.

One exchange, one queue and the binding between them, in one base vhost per namespace;
the name of a vhost and its version are folded into its classifier; export of exchanges
is one step for all of them; recovery is per vhost.

### Storage

One replica of MaaS and the master database. `rows` are the committed rows; a commit
sends the notifications of its triggers, one for each changed row, to the connection of
the cache if it listens at that moment (`wire`), and the broadcasts that its transaction
has made to that of the event bus (`busWire`).

* Cache: `StartCache`, `DropTriggers` and `CreateTriggers`, then `FirstCopy` and table
  by table `QueryTable`, `DeleteTable`, `InsertRow`, `EndTable`; `Listen`, `ReceiveSync`
  and `HandleSyncEvent` are the listener, the channel and the replicator.
  `AttachTriggersElsewhere` is another replica that starts and does the same to the
  triggers. `cache` counts rows, since an event and a copy may both insert one.
* Monitor: `UpdateStatus` is one round of it, which may be wrong (a *false alarm*),
  `MasterDown` and `MasterUp` what happens.
* Event bus and watches: `BusConnect`, `BusReceive`, `BusTake`; a watch searches its
  topics on master or cache (`SearchTopic`, `EndSearch`), waits for the unbuffered
  channel (`ReceiveTopic`) and may time out.
* Transactions: a request is a list of statements through `WithTx` or `UsingDb`, whose
  connection and database are chosen as `dao.go` does (`RunInTransaction`, `RunAlone`,
  `RefuseStatement`, `SkipStatement`), also when the master goes and comes back between
  them.
* The event of a new topic is a statement of its own (`Broadcast`), through `UsingDb`
  after the statement that registers it; it may be skipped, or fail, while the
  registration is committed, and that is only logged
  (`service/kafka/kafka_service.go:326-328`). A registration of another replica is told
  or not (`CommitElsewhere`).

`gap`, `blind` and `bare` are history variables: they record that a change met a copy or
a dead listener, that a watch's event was not sent, or was sent to nobody, and that
`UsingDb` had no database. The payloads that expire after 10 minutes are not modelled.

### BrokerInstances and TenantTopics

`BrokerInstances` has the registered instances, the default among them, the designator
of a namespace, and in each replica the monitor with its counter
`needBrokerListsRefresh`. Managers register, update, switch, remove, or deploy from a
file; a change is begun, clears the former default (`ClearDefaults`), commits, and then
tells the monitor of its own replica (`Tell`).

`TenantTopics` extends it: the topics of a namespace are on the instance that
`BrokerInstances` chooses when they are created. `definitions`, `template`, `tenants`,
`rows` are the tables, `kafka[i]` the topics of instance `i` with their configs. Configs
are sets of settings: a change alters a topic only if the topic lacks a setting that is
asked for, and then replaces all it has (`Meets`, `Applied`: `updateTopicConfigs` and
`CheckForChangesByRequest`).

* `SyncTenants` is `ReadDefinitions` before its transaction, `InsertTenant` for each new
  one, `Resolve` and `CreateTopic` for each definition, `CommitTenants`. A second insert
  of the same tenant waits; two requests that wait for each other are resolved by
  `BreakDeadlock`. The row of a tenant topic refers to its tenant by the tenant's id
  (`HasTenant`): a request that has read its tenants before a clean-up can no longer
  write a topic for one of them, also when a tenant of the same name is back (`known` is
  what it has read and is still there).
* `ApplyTopicDefinition` finds, then `InsertDefinition` or `UpdateDefinition`, each its
  own transaction, then `ReadTenants` and a topic per tenant; a deletion by
  configuration takes the topics too (`DeleteTenantTopic`, `DeletePair`), one by the API
  only the definition (`ForgetDefinition`).
* `ApplyTopicTemplate` is `SameTemplate`, `InsertTemplate`, or `SearchTopics`,
  `MakeTopicsDirty`, `UpdateTopicSettings` topic by topic, `UpdateTemplate`.
* `GetOrCreateLazyTopic` looks for a compatible definition and creates the topic of it.
* `CleanupNamespace` deletes topics and then all rows in one transaction.

Kafka takes part in no transaction. `CreateTopic`, `UpdateTopicSettings` and
`DeletePair` therefore have a second outcome, in which the topic is changed and the row
stays as it was: a later call to Kafka fails, the wait for a deletion times out, or the
commit fails (`service/kafka/kafka_service.go:429-436`,
`service/kafka/kafka_service_dao.go:127-155`, `service/kafka/helper/helper.go:184-291`).
For a topic of the template that leaves a doubt (`Doubt`, `owed` is `Unknown`) which
only the next complete change of the template removes.

`settled`, `owed`, `raced` and `deaf` are history variables that say for which
definitions, templates and instances the last change ran alone and succeeded; the
properties speak of those. getOrCreate is one step (its inner steps are in
`KafkaTopics`); the selectors of a designator are folded into the instance they choose;
a deploy file has one entry; one lazy definition fits a classifier; the refusal of a
template change that touches read-only settings, and a deletion that leaves the topic on
Kafka (`leaveRealTopicIntact`), are left out.

## 3. Runs

`CHECK_DEADLOCK FALSE` where requests run once, so that the system stops when all are
answered (`kafka_*`, `composite`, `custom_resources`, `cr_failed`), and where the loads
are bounded in the same way (`rabbit_vhosts`, `storage`). In `bg_*`, `rabbit_versions`
and `tenant_topics` deadlock is checked. In `rabbit_vhosts` (request slots), `storage`
(watches) and `tenant_topics` (request slots, managers, replicas) the model values are
interchangeable, and symmetry is used, with safety properties only; elsewhere each
request has calls of its own.

| Run | Size | Properties |
|---|---|---|
| `kafka_topics` | 3 requests, 2 siblings, 3 keys on 2 instances, one old row, topics of others at any time; 1.6 M states | `ProdOneTopicPerClassifier`, `ProdRegisteredTopicExists`, `AnsweredRequestLeavesNoOrphan`, `ProdExternalTopicUntouched`, `ProdOnlyOwnTopicRemoved` |
| `kafka_race` | 4 requests, 2 siblings, 2 keys, no production mode; 135 k states | `TypeOK`, `EveryRequestAnswered` |
| `kafka_resurrect` | as `kafka_race` | `OneTopicPerClassifier`, violated |
| `composite` | 4 requests, 3 namespaces, indexes 0 to 2; 433 k states | `TypeOK`, `NamespaceInOneComposite`, `WholeRegistration`, `CleanedNamespaceLeaves`, `ImplementsRegistry` (refinement) |
| `custom_resources` | 4 requests, 3 names, 1 template; two loads: overlapping with crashes and a topic of the template's name, and one at a time without; 404 k states | `TypeOK`, `ProdCompletedIsRegistered`, `ProdAcceptedIsNotForgotten`, `TerminatedStaysTerminated`, `WaitingTopicIsRun` |
| `cr_failed` | the load of `custom_resources` without overlap | `FailedIsNotCompleted`, violated |
| `bg_topics` | 3 names (shared, versioned, and changing with a fixed topic name), all operations and clean-ups, 1 failure; 256 k states | `TypeOK`, `CandidateSeesTopics`, `WarmupClones`, `SettledRowsHaveTopics`, `ActiveKeepsTopics`, `WarmupDone` |
| `rabbit_versions` | 2 services, 2 versions, an exchange, a queue and a binding, all statuses, recovery, 1 failure; 2.1 M states | `TypeOK`, `SwitchReachesActive`, `AppliedVersionComplete`, `NoOrphanExchange`, `DroppedVersionKeepsQueues`, `NeverUnrouted` |
| `rabbit_vhosts` | six loads: 3 overlapping clients of a vhost on 2 instances (production mode or not, with a designator); a BG domain; recovery; a BG domain with failure and loss; 179 k states | `ProdRegistrationOpens`, `ExportsComplete`, `DefaultRoute`, `ServedVhostComplete` |
| `storage` | six loads: 3 changes and an outage under the cache; 2 watches of 2 topics; watches with cache; watches of what a request registers; transactions without and with cache, an outage and a false alarm; 1.7 M states | `CacheFollows`, `WatchHasEvent`, `RequestIsWhole` |
| `tenant_topics` | five loads: instances (2, by 2 managers on 2 replicas); a fresh namespace; lazy topics; a deployed namespace; a moving instance; 3 configs of 2 settings, 2 requests at a time, up to 3, up to 2 failures; 936 k states | `EveryTenantHasItsTopics`, `TemplateReachesTopics`, `OneDefault`, `MonitorKnowsInstances` |
| `bg_cleanup` | as `bg_topics`, no failure | `CleanupKeepsOthersTopics`, violated |

Why the bounds are enough: each interaction the properties are about is between two
requests, with a third that changes what they have read (a delete, a destroy, a crash is
possible at every step besides). Two sibling classifiers are all that a BG domain has; a
third key on another instance makes the "exists on another instance" branch reachable;
two baselines exchange a satellite or each other. Two waiting topics with one template
let a run of the wait list go on after its first row. The topics of a domain with
different names do not meet, so one name of each kind is enough; one failure leaves its
traces on Kafka for all that follows. (A copy that meets an unversioned registration
needs a changing flag without a fixed name; the proofs cover it, the run does not come
there.) Two settings, alone or together, are what it takes for a request to name one
setting less. Two versions let every status happen in which a service stays behind in a
dropped version; a version number is not used again. Three clients of a vhost are a
search, the move or rotation it races with, and a third that reads the outcome. Three
changes make a row come, change and go within one copy; two keys of one table and one of
another make a copy stop between tables. Two tenants, one definition and two requests
are the smallest crossing of tenants; a third request repeats what failed. Every bound
has a name: `MaxIndex`, `MaxLosses`, `MaxVersion`, `MaxFailures`, `MaxUsers`,
`SyncCapacity`, the `Calls` sets, and the fields of a load.

What the runs show:

* In production mode a classifier has one registration and a registered, managed topic
  is on Kafka, whatever getOrCreate and sync requests overlap or crash. Without the
  unique claim of the sibling, or with an error swallowed in the helper's clean-up, TLC
  finds the violation.
* In production mode the API's getOrCreate and sync take away no topic but the one that
  the request has just made and cannot read back, although others create topics between
  any two of its steps, and leave external topics alone on all paths. In both modes an
  error from inside the transaction leaves no topic of the request on Kafka; in
  production mode any other answer means that the topic it made is registered, the error
  after the commit included. Outside production mode a late delete or clean-up can hit a
  topic that somebody else has made under the name since (`KafkaTopics` contains it).
* Deadlocks between siblings are possible, and the database's victim is what resolves
  them: with that, every request is answered.
* Composites stay disjoint and whole although destroy takes no lock and a clean-up or a
  join writes what it has read long before; to its readers the table is the abstract
  registry, and the advisory lock on the baseline is what keeps the index from going
  back. A clean-up or join does lose members that were added since its read, and drops
  the modify index: the registry allows both.
* A waiting resource is not forgotten by overlapping requests and crashes, and one that
  goes straight to `COMPLETED` is registered with its template. (An error of the look or
  of the handler makes it `FAILED` first, and `COMPLETED` after that, see the findings.)
  That it *is run*, and that a terminated one stays terminated, holds only as long as
  requests do not overlap; with overlap both fail (the hazards at
  `service/cr/applier.go:90` and `:161`), which is why they are stated for the load
  without overlap.
* Through every sequence of warm-up, promote, rollback, commit, destroy and clean-up,
  shared topics are reached from both live namespaces, versioned ones are cloned, and
  the active namespace keeps its topics, although each operation changes Kafka inside a
  transaction that may be rolled back. A repeated warm-up gets over what a failed one
  has left because it merges with existing topics, unless the active namespace has a
  versioned topic with a fixed name: that warm-up fails every time. All this is for
  topics whose `versioned` flag does not change (`Steady`): for others `bg_topics`
  contains runs in which a commit deletes the topic of the active namespace, because the
  classifiers do not follow the flag.
* Versioned Rabbit entities: after a switch, messages without a version go to the active
  version and nowhere else, and they have a route all the while, because the new route
  is bound before the old one is taken away; what a deployment commits is on the broker
  whatever failed attempts have left; dropping a version keeps the queues a service
  still uses.
* Vhosts: in production mode a registration opens its vhost although searches take no
  lock and rotations overlap; the exported vhost has what both namespaces export, and
  one default route, through every cycle of the domain, as long as the origin has its
  base vhost (not so after a commit with the origin idle, which deletes it, see below);
  what a configuration, a warm-up or a recovery leaves is complete after failures and
  losses.
* Cache: without a change that meets a copy, cache plus events on their way equal the
  master. A watch that waits has not missed a topic of which an event was sent, although
  it looks first and listens later: the event stays in the hand of the bus. The topic
  whose event was left out or failed is found by the next watch only. Requests that
  began with `WithTx` are on the master wholly or not at all, through outages and false
  alarms.
* Tenants: a request for a tenant topic that ran alone and succeeded leaves a topic for
  every tenant, or none. A template change that ran alone and succeeded has reached all
  topics, what its first attempt has left half done and topics changed on Kafka alone
  included; a setting that it no longer names may stay on Kafka. One default exists
  after changes that did not overlap, and a monitor's list is what is registered once
  its flag is down, if the change was made on its replica.

Fairness: weak fairness of `Serve(p)`, the next step of a request that is being served.
The code justifies it by its goroutine per request, statements that return, retries with
a time limit, and the database's deadlock detection (`DeadlockVictim` is part of
`Serve`). Nobody has to call (`Submit`) and no replica has to crash (`Lose`). In
`BgTopics` it is that of `Serve` or `Retry` together: the operation goes on, and the
controller repeats it when it has failed. The other modules state safety properties
only, and no fairness: their requests end by the same argument, and their goroutines
have loops that the code lets get stuck (section 6), for which nothing may be promised.
Advisory locks need no strong fairness here because each request runs once.

## 4. Findings

* `kafka_resurrect`: an update of a topic, overtaken by its delete (with
  `leaveRealTopicIntact`) and by a registration of the sibling, inserts the deleted row
  again, because gorm's `Save` falls back to an insert
  (`service/kafka/kafka_service_dao.go:128`). The classifier then resolves to two
  registrations, and every later search fails in `migrateAllBg2Kafka`.
* `cr_failed`: a waiting resource whose handler fails is marked `FAILED` and, in the
  same iteration, `COMPLETED` (`service/cr/applier.go:157` and `:161`): nothing ends the
  iteration after the error. A client that polls is told that the resource is done, and
  the row is not run again.
* `bg_cleanup`: cleaning up the peer namespace of a domain deletes the topics that were
  registered from the origin, because the search for the namespace's topics matches
  sibling classifiers too (`service/kafka/kafka_service_dao.go:188`). The documentation
  says that such a topic stays available in the origin
  (`docs/kafka_blue_green.md:23-25`).

### Behaviour the properties leave out

These are consequences of the code as written, met while modelling. The models contain
most of them, and the properties are worded so as to leave them out; where a document
says otherwise it is named.

* Composites: a clean-up or join loses members added since its read.
* Custom resources: a template that arrives between the look and the insert into the
  wait list does not wake the resource (`service/cr/applier.go:90`).
* Tenants: a synchronisation that reads the definitions before an overlapping definition
  commits, which in turn reads the tenants before the synchronisation commits, leaves a
  pair without topic, which later synchronisations do not repair
  (`docs/kafka_templates_tenant_lazy_topics.md:24-25` promises the topic).
  `InsertTenant` swallows a unique violation, after which PostgreSQL refuses the rest of
  the transaction. A definition deleted by the API keeps its topics. A definition is
  deleted although some of its topics could not be. After the default or designated
  instance has moved, re-applying a definition fails for the tenants whose topic is on
  the old one.
* Topics: a request that has changed the settings of a topic on Kafka and fails before
  its commit is not repaired by another of the same kind, once the row is what that
  other one asks for: Kafka is looked at only when the row has to change
  (`service/kafka/kafka_service.go:400-407`). A setting that a request leaves out stays
  on Kafka unless another one has to change (`service/kafka/helper/helper.go:272`).
  Outside production mode a delete or a clean-up names a topic and removes whatever has
  that name by then.
* Templates: after a failed change from S0 to S1, applying S0 again returns early as
  "equal" and leaves topics with S1 or marked dirty (nothing processes the mark,
  `dao/schema/4_topic_templates.go:33`). A topic created between search and update keeps
  the old settings.
* Instances: overlapping registrations give two defaults, and a removal that overlaps a
  registration may give none; no index prevents it (`docs/rest_api.md:8`: "Only one
  instance can be marked as default"). `Save` of an instance that was removed meanwhile
  inserts it again. Monitors of other replicas are not told.
* Vhosts: a commit with the origin idle deletes the origin's base vhost, and with it all
  shovels of the exported one (`service/rabbit_service/rabbit_service.go:831-855`),
  those of the active namespace too; the loop that computes the exported vhost anew
  (`:236`) finds no vhost in the origin and builds nothing. The next configuration or
  warm-up brings them back (`docs/rabbit_blue_green_2.md:97-99` calls the exported vhost
  immutable under these events). `ExportsComplete` is about the time while the origin
  has its vhost. A commit while the origin has no base vhost prunes nothing, so that the
  shovel of a deleted user stays: the properties assume that vhost. A designator
  together with an explicit instance makes the exported vhost and the clone of a warm-up
  fail. Recreating an exchange with other arguments loses its bindings while the rows
  say bound. A rotation leaves the old password in the shovels. Failed requests leave
  users behind.
* Versioned entities: a copied binding that waits keeps the active version's row
  (`rabbit_service.go:1538`); the default route is only made for version 1 (`:1789`); a
  listener that fails does not keep the status from being stored.
* Cache: a change that meets a full copy is lost or doubled; the copy is in no
  transaction on either side, and a read error ends a table early without notice. The
  second reconnect of the listener blocks for ever on its channel, and the cache is
  stale from then on. Two replicas that start together may fail on the trigger, and then
  answer from an empty cache. `UsingDb` skips its statement without an error when the
  master is down and there is no cache.
* Watches: an event taken by another watch of the replica, sent while the bus is
  reconnecting, or whose statement was skipped or failed, is not repeated.

## 5. Proofs

Everything below holds for every value of the constants that satisfies the named
assumptions: any number of requests, replicas, namespaces, topics, instances and
watches, and queues and transactions of any length. Each inductive invariant was checked
by TLC on the run of its module before it was proved. A proof has one lemma per action,
or per group of actions that do the same to the invariant, and the theorems combine
them.

### Kafka topics

`KafkaTopicsProofs`:

* `TypeInvariant`, `TypeCorrect`: the type invariant. `TypeOK` alone is not inductive:
  that `Commit` stores a row needs that `work[p].row` is a row when `p` is about to
  commit, and `SaveRow` needs that `seen[p]` is one. `TypeInv` adds `StepOK(p)`, what a
  request has at hand at each of its steps (its call, the registration it has read, the
  kind of work).
* `AnsweredLeaveNoOrphan`: a request that was answered has no orphan. Its invariant is
  `MadeInv` (a topic of request `p` is there only while `p` reads it back or commits, or
  after an answer that is no error from inside the transaction) and, in production mode,
  `ProdMade` (once it has committed, its topic is registered).
* `OneTopicInProd`, `RegisteredTopicInProd`, `ExternalTopicInProd`: the three `Prod...`
  properties. Their invariant `ProdInv` says what the unique keys promise across
  transactions: a registration or claim that a transaction has inserted and not
  committed collides with no committed one and with none of another transaction; after
  its search a transaction has claimed a classifier for every old row (`SearchIsDone`),
  so that every stored classifier is claimed where the transaction looks for it; a
  registration that was read is still stored but for its `versioned` flag, because in
  production mode nothing in the module deletes.
* `OnlyOwnTopicInProd`: in production mode a topic disappears only in the clean-up of
  the request that made it. The clean-up goes by name, so `OwnTopic` says that from the
  creation to the end of that step the topic under the name is the one just made: nobody
  creates over a topic, and nobody else may remove this one in between.

They rest on `SiblingAssumption` (siblings are an involution), `InputAssumption`,
`LegacyAssumption` (the rows of an earlier release obey the unique keys of its tables)
and `DistinctAssumption` (model values differ).

### Composites

`CompositeRegistrationProofs` proves `TypeCorrect`, `DisjointComposites`,
`WholeComposites`, `CleanedNamespaceIsOut`, and `RefinesRegistry`, that the service
implements `CompositeRegistry`. The invariant `IInv` adds to the properties what each
transaction has in hand: the rows that its DELETE has found are of its composite and all
that is left of their generation (`FoundWhole`, `DeletedWhole`), the namespaces that it
has inserted are nobody else's (`InsertedAreFree`), an upsert is alone in the lock of
its baseline and no later index is stored once it has checked its own (`AloneInLock`,
`IndexIsLatest`). The middle of a delete is why whole generations are needed: a destroy
without lock may find the rows of one upsert and reach them when the next one has
replaced them. In the refinement each step but `Commit` stutters (`StepRefines`).

### BG domains

`BgTopicsProofs` proves `TypeCorrect`, `BothNamespacesSeeTopics`, `WarmupHasCopied`,
`SettledTopicsAreThere` and `ActiveTopicsStay`, for any names, any `Flags` and any
number of failures. An operation is one long transaction beside services that commit, so
most of `IInv` is stated twice: for the tables, and for what the transaction sees of
them (`ViewRegs`, `ViewClaims`), which differ only in the names that it has touched
(`OfTouched`, `WriteViews`).

* `Sound`: the unique keys; claims lead to rows of their name; every row is claimed by
  its own classifier, and a versioned row of a steady name by no other.
* `DomainSees`: from the moment a warm-up has added the missing claims (in its view),
  and from its commit on until a later commit has made one namespace idle (in the
  tables), every unversioned topic of a steady name has both claims. It is stated for
  the recorded roles and for those the controller knows, because an answer that is lost
  leaves them apart.
* `TopicsThere`: only a topic that the operation in progress is to delete may be missing
  on Kafka. That makes a rolled-back deletion harmless: the operation that is repeated
  finds the same rows again (`Doomed`), and no other can start before.
* `Copied`: the rows that a warm-up has come to have their copy.

They need that services agree about a name (`Steady`), as the properties do. A row whose
flag changes under the operation gets through only because it shares its name, and so
its unsteadiness, with every topic that it could disturb (`GrowthKeeps`). `BgAssumption`
says that the namespaces differ and types the constants.

### Custom resources

`CustomResourcesProofs` proves `TypeCorrect`, `CompletedIsRegistered`,
`AcceptedIsNotForgotten` and `TerminatedStays`. `IInv` says that a waiting row belongs
to a request that has ended, that the topic of a row which a run is about to complete is
registered, and its template there, unless the row says `FAILED` or `TERMINATED` by now
(`RunIsRegistered`: another run may have marked it, and then the status of the row, not
the run, is what tells), and that a request works on the list only after its own
resource was applied (`OwnIsApplied`); for loads without overlap, that one request is
active and the rows it has read are as they were (`SerialOK`). The proof of
`AcceptedIsNotForgotten` failed for its first form, "the *topic* was registered": the
list tells resources apart by name and not by kind (`DeleteByNameAndNamespace`), so that
the apply of a template takes off a waiting topic of the same name. The property says so
now, and the run has such a topic.

### Broker instances

The first part of `TenantTopicsProofs`, over the whole of `TenantTopics`, proves
`OneDefaultInstance` and `MonitorFollows`. A change that no other has overlapped sees
the registrations as they were when it looked (`LooksRight`), which carries the one
default from the look to the commit. For a monitor, `Follows`: with no refresh due it
knows the instances, and in its *last* refresh it has read them. The second half is what
the counter of the watchdog is for; a flag that the refresh clears would leave the list
behind a change made between its read and the clearing. `InstancesAssumption` says that
there is an instance and that `None` is none.

### Tenants, definitions and templates

The rest of `TenantTopicsProofs` proves `TenantsHaveTheirTopics` and
`ChangesReachTopics`, for any tenants, definitions, settings, instances and requests,
beside every change of the instances. Both properties speak of what a request that ran
alone has left, and of all the overlapping and failing ones before and after it, so
`IInv` has to say what each of these can still do:

* `Sound`, `Current` and `Apart`: what a request has at hand at each of its steps; that
  the tenants and rows of its transaction are its own, and their topics on Kafka; that
  what it knows of the tables is not outdated where the foreign keys forbid it.
* `AloneInv` and `AloneWork`: a request that is alone is so until its end, and what it
  has achieved by its step. `DefineAlone`: every tenant has its topic, or is still to be
  served; `UndefineAlone` and `TemplateAlone` say the same of a deletion and a change.
* `SettledInv`: for a settled definition, that every tenant is served (`Served`) and
  that no request has anything at hand that could undo it (`Agrees`): a synchronisation
  under way has the definition if it is in the table, which is what fails when it was
  read before an overlapping change.
* `OwedInv` and `TemplateInv`: what a template change that stopped halfway has left to
  its repetition, and that the topics of the template, committed or in the hand of a
  request (`InHand`), have its settings until the next change goes beyond the marks. A
  request that stops between Kafka and the row (`TornKeeps`) ends that for the topics of
  the template, by `Doubt`, and changes nothing for the others.

Two things came to light in the proof. The model lacked the foreign key of tenant topics
(`dao/schema/8_tenant_topics.go:52`): without it a clean-up that runs under a definition
leaves rows of tenants that are gone, and a tenant who comes back has a topic nobody
made for it. And the mark `dirty` of a stopped change may stay on a topic that leaves
its template and comes back to it, which no bounded run had shown:
`TemplateReachesTopics` speaks of settings only, and nothing reads the mark.
`TopicsAssumption` says that there are tenants, definitions and settings, which
definitions a load may call lazy, and that the model values differ.

### Versioned Rabbit entities

`RabbitVersionsProofs` proves `TypeCorrect`, `SwitchIsComplete`, `ApplyIsComplete`,
`EveryExchangeHasARow`, `QueuesOutliveVersions` and `SwitchNeverUnroutes`, for any
services and declarations, any number of versions and failures. `IInv` is what a request
owes at each step:

* `RowsInv`: a committed row names the exchanges of its version and the queues of the
  *actual* version of its service, whatever has become of them on the broker. The rows
  of a transaction are not yet so; `QueuesKept` says what holds for the queues of
  services that are not deployed in it.
* `CreateInv` and `ApplyInv`: an entity of the version is still to be made, or is on the
  broker with its row (`MadeOrLeft`); bindings come last. At the commit nothing is left.
* `RouteInv`: a router that the switch has reached leads to the new active version and
  nowhere else (`Routed`), and the one it is at has at least the new route (`Bound`).
  Nothing after the switch undoes it: deletions of a drop spare what a row names.
* `DropInv`: no row needs a queue that is to be deleted. It holds for every committed
  row, also for those of services that share the queues of an earlier version.
* `OrphanInv`, as long as nothing has failed: each versioned exchange is accounted for
  by a row, committed or in the transaction, or is about to be deleted.

`DeclaredAssumption` gives the form of a declaration, `RabbitVersionsAssumption` types
the constants.

### Rabbit virtual hosts

`RabbitVhostsProofs` proves `ClientsOpen`: `ProdRegistrationOpens` for the loads of
production mode in which clients get registrations and rotate passwords (`Clients`), any
number of them at the same time, with any instances and designators. The invariant
`ClientState` says of each request what it may have left to do and what it has done for
the row that it will commit. Whoever has written a row has locked it, so that a user on
the broker gets the password of the row that is committed next; a rotation overwrites
the row that it finds at its write, not the one that it has read; a move to another
instance has made the vhost and the user there before it commits. Names of users are new
because what is in use is finite (`FreshIs`, `Typed`).

The theorem does not go to all loads. With configurations among the overlapping requests
the model commits rows as a whole, with the entities in them, and would not be faithful;
no load of the run has that.

### Storage

`StorageProofs` proves `RequestsAreWhole`, `NoWatchInVain` and `CacheFollowsMaster`.

* Requests (`RequestInv`): the keys a program names are those it has applied, those
  written in its transaction and those still to do; and while a program that begins with
  `WithTx` runs, nothing is applied.
* Watches (`WatchInv`): a topic that was looked for and not found is still unregistered,
  or its event is on the wire, in the hand of the connection or in that of the bus,
  unless the watch is blind, as it becomes when the broadcast of such a topic is left
  out, fails or is sent while the bus is off. A request has at hand of each topic it has
  written whether it still is to be told, was told, or was not (`RequestInv`). The same
  for the time of the search is what makes it inductive: the event may come before the
  wait.
* Cache (`CacheInv`): without a copy, the cache after all events on their way is the
  master's rows; during one, no event is on its way, the tables that are done are right,
  and in the table that is being inserted each row is in the cache or in what is left to
  insert (`HalfCopied`). A commit adds events that each say truly what the row was
  (`Honest`), also when a transaction writes a row twice, and `HonestIsFollowed` shows
  by induction on their number that the cache follows. Receiving an event and handling
  it do not change what the cache will be (`CacheAfterConcat`, `CacheAfterOne`).

`StorageAssumption` types the loads and the tables, and says that no table has the name
that stands for none. What the recursive function of the module returns (`CacheAfter`)
is proved by induction on the naturals. It is stated with sets and functions in place of
predicates (`SetInduction`, `Iterates`), and derived from the well-foundedness of `<` on
the naturals.

### Only model-checked

* Liveness under fairness and ENABLED, which are out of reach of the prover:
  `EveryRequestAnswered`, `WaitingTopicIsRun`, `WarmupDone`.
* `ExportsComplete`, `DefaultRoute` and `ServedVhostComplete` of `RabbitVhosts`, and its
  `ProdRegistrationOpens` for loads with configurations and BG operations. Their
  invariant has to say, at each position of the program of each of these operations and
  of the lists of broker calls that it makes, what is on the broker already and what is
  still to do; the proof that every step keeps it has not been carried out.

TLC evaluates every assumption in the runs.

## 6. Not modelled

The components marked so in `PROJECT.json`, with the reason for each: accounts and
access checks (functions of their input, modelled as calls that pass), monitoring and
discrepancy reports (read-only), migrations (their constraints are in the modules),
HTTP, models and utilities. Most of the lines no definition stands for are these,
together with generated code and mocks (`docs/docs.go`, `*_mock.go`).

Within the modelled components: search by other criteria than the classifier, namespace
or template; sync of a whole namespace; the copies of definitions and templates in a
warm-up; two BG operations at the same time; several domains, the bound on stored states
and `Bind` without lock (`service/bg2/domain/bg_domain_dao.go:76`, `:165`); a commit
that ignores failed deletions (`service/kafka/kafka_service.go:1229`); the time limit of
a deletion (`service/kafka/helper/helper.go:184`); a run of the wait list that ends at a
row that is gone (`service/cr/applier.go:162`); Rabbit policies; the Rabbit side of the
instance registry, which has the same shape as the Kafka side; overlapping deployments
and statuses of versioned entities; the order of kinds in an aggregated configuration; a
clean-up across all services in one model; what a versioned topic contains; audit and
metrics. Hash collisions of advisory locks only add waiting and are left out.

The loops that can block for ever in `Storage` (the second connect of the cache's
listener, the bus without watcher) are modelled as such; a liveness property of the
cache or of a watch would be false, and none is stated.

## 7. Plan

The order follows what can hurt most.

1. Done: `KafkaTopics` with its first theorems, `CompositeRegistration` with the
   registry it implements, `CustomResources`, `BgTopics`, `RabbitVersions`,
   `RabbitVhosts`, `Storage`, `BrokerInstances`, `TenantTopics`.
2. Worth adding: an abstract specification of a domain (a topic is visible in a
   namespace, or not, and operations are atomic), and `BgTopics` shown to implement it;
   registration of overlapping domains.
3. Theorems: `KafkaTopics`, `CompositeRegistration`, `CustomResources`, `BgTopics`,
   `RabbitVersions`, `Storage`, `BrokerInstances` and `TenantTopics` are done, and the
   clients of `RabbitVhosts`.

Modules with theorems are named `<Module>Proofs` and reach no RECURSIVE definition.
Mutants, small wrong variants of a definition that TLC must catch, stand before the
definition they replace and are marked as such.
