--------------------------- MODULE RabbitVersions ---------------------------
(***************************************************************************)
(* The versioned Rabbit entities of one virtual host: the configurations   *)
(* that microservices are deployed with in each version of an application, *)
(* the exchanges, queues and bindings that stand for them on the broker,   *)
(* and the BG status that says which version is active.                    *)
(*                                                                         *)
(* A version router carries the plain name of an exchange.  It sends a     *)
(* message by its version header, and through its alternate exchange when  *)
(* there is no header: to the active version.  A service that was not      *)
(* deployed in a candidate keeps its queues of the version it was deployed *)
(* in last (the actual version), bound to the candidate's exchanges.       *)
(***************************************************************************)
EXTENDS Naturals, Sequences

CONSTANTS
    Services,      \* microservices
    Offers,        \* Offers[s]: the sets of entities that s may be deployed with
    MaxVersion,    \* versions are 1..MaxVersion
    MaxFailures    \* broker calls that fail, replicas that die

ASSUME RabbitVersionsAssumption ==
    /\ MaxVersion \in Nat /\ MaxFailures \in Nat
    /\ DOMAIN Offers = Services

Versions == 1..MaxVersion

\* An entity as a client declares it: <<"exchange", name>>, <<"queue", name>>
\* or <<"binding", exchange, queue>>.
Declared == UNION UNION {Offers[s] : s \in Services}

\* The kinds of entities that the handlers tell apart.
ASSUME DeclaredAssumption == \A d \in Declared :
    \/ d[1] \in {"exchange", "queue"} /\ d = <<d[1], d[2]>>
    \/ d = <<"binding", d[2], d[3]>>

Exchanges == {d[2] : d \in {x \in Declared : x[1] = "exchange"}}
                \cup {d[2] : d \in {x \in Declared : x[1] = "binding"}}

\* Names on the broker; bindings are pairs of them.
Router(e) == <<"router", e, 0>>
Alternate(e) == <<"alternate", e, 0>>
VersionedExchange(e, v) == <<"exchange", e, v>>
VersionedQueue(q, v) == <<"queue", q, v>>

Nil == <<>>
Keys == Services \X Versions

\* A row of rabbit_ms_configs with its rows of rabbit_versioned_entities: what
\* the client has declared, and what was made of it on the broker.
NoConfig == [actual |-> 0, entities |-> Nil]
NoStatus == [active |-> 0, legacy |-> 0, candidates |-> {}]

NoJob == [op |-> "none", step |-> "none", version |-> 0, to |-> NoStatus,
          view |-> Nil, delete |-> {}, create |-> {}, later |-> {}, bind |-> {}, routers |-> {},
          left |-> {}, failed |-> FALSE]

VARIABLES
    configs,    \* committed rows, by service and version
    status,     \* the newest BG status
    broker,     \* exchanges and queues of the virtual host
    links,      \* its bindings
    job,        \* the request that is served
    dropped,    \* versions that were live once
    failures

vars == <<configs, status, broker, links, job, dropped, failures>>

All(s) == ({s.active, s.legacy} \cup s.candidates) \ {0}

At(op, step) == job.op = op /\ job.step = step

\* The rows that the job reads: an apply is one transaction.
Rows == IF job.op = "apply" THEN job.view ELSE configs

\* The job goes on as j, with these rows.
Put(j, rows) ==
    /\ job' = IF j.op = "apply" THEN [j EXCEPT !.view = rows] ELSE j
    /\ configs' = IF j.op = "apply" THEN configs ELSE rows

Entities(rows, k) == DOMAIN rows[k].entities
Made(rows, k, d) == rows[k].entities[d]

Init ==
    /\ configs = [k \in Keys |-> NoConfig]
    /\ status = NoStatus
    /\ broker = {} /\ links = {}
    /\ job = NoJob
    /\ dropped = {} /\ failures = 0

-----------------------------------------------------------------------------
(* Requests of the control plane and the operator                          *)

\* The statuses that may follow: a candidate comes, is promoted or goes, the
\* legacy version is rolled back to or goes.
Successors ==
    {[status EXCEPT !.candidates = @ \cup {v}] :
        v \in {w \in Versions : /\ w \notin All(status) \cup dropped
                                /\ \E s \in Services : configs[<<s, w>>] # NoConfig}}
    \cup {[status EXCEPT !.candidates = @ \ {v}] : v \in status.candidates}
    \cup {[active |-> v, legacy |-> status.active, candidates |-> status.candidates \ {v}] :
            v \in status.candidates}
    \cup IF status.legacy = 0 THEN {}
         ELSE {[status EXCEPT !.legacy = 0],
               [active |-> status.legacy, legacy |-> 0,
                candidates |-> status.candidates \cup {status.active}]}

\* The listener switches the routes when the active version has changed, and
\* drops the versions that are gone.
SubmitStatus(to) ==
    /\ job.op = "none"
    /\ job' = [NoJob EXCEPT
                 !.op = "status", !.to = to,
                 !.step = IF to.active # status.active THEN "list" ELSE "drop",
                 !.left = All(status) \ All(to)]
    /\ UNCHANGED <<configs, status, broker, links, dropped, failures>>

\* Everything that is registered is made again.
SubmitRecovery ==
    /\ job.op = "none" /\ status # NoStatus
    /\ job' = [NoJob EXCEPT !.op = "recover", !.step = "next", !.left = All(status)]
    /\ UNCHANGED <<configs, status, broker, links, dropped, failures>>

-----------------------------------------------------------------------------
(* Requests of the deployer: the rows                                      *)

Fresh(v, declared) == [actual |-> v, entities |-> [d \in declared |-> Nil]]

\* Mutant: an update keeps the exchanges that are no longer declared.
SuperfluousNoExchange(old, v, declared) ==
    {old.entities[d] : d \in {x \in DOMAIN old.entities :
                                 \/ x[1] = "queue" /\ x \notin declared /\ old.actual = v
                                 \/ x[1] = "binding"}} \ {Nil}

\* What an update makes superfluous: exchanges that are no longer declared, all
\* bindings (they are made again), and queues, if the service was deployed in
\* this version before, since they are the queues of another version otherwise.
Superfluous(old, v, declared) ==
    {old.entities[d] : d \in
        {x \in DOMAIN old.entities :
            \/ x[1] = "exchange" /\ x \notin declared
            \/ x[1] = "queue" /\ x \notin declared /\ old.actual = v
            \/ x[1] = "binding"}}
        \ {Nil}

\* An aggregated configuration for some of the services: their rows of this
\* version are replaced, in a transaction that ends with Commit.
Submit(v, request) ==
    LET asked == DOMAIN request IN
    /\ job.op = "none"
    /\ v \notin dropped /\ (v = 1 \/ v - 1 \in dropped \cup All(status))
    /\ job' = [NoJob EXCEPT
                 !.op = "apply", !.version = v,
                 !.view = [k \in Keys |-> IF k[1] \in asked /\ k[2] = v
                                          THEN Fresh(v, request[k[1]]) ELSE configs[k]],
                 !.delete = UNION {Superfluous(configs[<<s, v>>], v, request[s]) :
                                     s \in {t \in asked : configs[<<t, v>>] # NoConfig}},
                 !.step = IF status = NoStatus THEN "activate" ELSE "copy"]
    /\ UNCHANGED <<configs, status, broker, links, dropped, failures>>

Routers == {e \in Exchanges : {Router(e), Alternate(e)} \subseteq broker}

\* The bindings of alternate exchanges after a switch of routers rs to v.
Switched(rs, v) ==
    {l \in links : l[1] \notin {Alternate(e) : e \in rs}}
    \cup {<<Alternate(e), VersionedExchange(e, v)>> :
            e \in {x \in rs : VersionedExchange(x, v) \in broker}}

\* The first deployment makes version 1 active, in the same transaction.
Activate ==
    /\ At("apply", "activate")
    /\ links' = Switched(Routers, 1)
    /\ job' = [job EXCEPT !.to = [NoStatus EXCEPT !.active = 1], !.step = "copy"]
    /\ UNCHANGED <<configs, status, broker, dropped, failures>>

Active == IF job.to = NoStatus THEN status.active ELSE job.to.active

\* Services of the active version that the candidate lacks come along, with
\* their actual version and what was made for them.
WithActive(rows, v) ==
    [k \in Keys |-> IF v # Active /\ k[2] = v /\ rows[k] = NoConfig
                    THEN rows[<<k[1], Active>>] ELSE rows[k]]

\* The rules of RabbitBgValidation for one version.
Valid(rows, v) ==
    LET of(s) == Entities(rows, <<s, v>>)
        declared == UNION {of(s) : s \in Services}
    IN
    /\ \A s, t \in Services : s # t => {d \in of(s) \cap of(t) : d[1] # "binding"} = {}
    /\ \A d \in declared : d[1] = "queue" =>
          \E b \in declared : b[1] = "binding" /\ b[3] = d[2]
    /\ \A b \in declared : b[1] = "binding" =>
          \E d \in declared : d[1] # "binding" /\ d[2] = b[3]
    /\ \A s, t \in Services : s # t =>
          \A b \in of(s) : b[1] = "binding" => <<"queue", b[3]>> \notin of(t)

CopyAndValidate ==
    LET rows == WithActive(job.view, job.version) IN
    /\ At("apply", "copy")
    /\ job' = IF Valid(rows, job.version) THEN [job EXCEPT !.view = rows, !.step = "delete"]
                                          ELSE NoJob
    /\ UNCHANGED <<configs, status, broker, links, dropped, failures>>

-----------------------------------------------------------------------------
(* The broker: deletion and creation                                       *)

DeclaredIn(rows, d) == \E k \in Keys : d \in Entities(rows, k)

\* What goes when n is deleted: a binding by itself, an exchange or a queue
\* with its bindings, and with the last version of an exchange its alternate.
Gone(n) ==
    IF Len(n) = 2 THEN {}
    ELSE {n} \cup IF n[1] # "queue" /\ ~DeclaredIn(Rows, <<"exchange", n[2]>>)
                  THEN {Alternate(n[2])} ELSE {}

DeleteEntity ==
    /\ job.step = "delete"
    /\ \E n \in job.delete :
          /\ broker' = broker \ Gone(n)
          /\ links' = {l \in links \ {n} : {l[1], l[2]} \cap Gone(n) = {}}
          /\ job' = [job EXCEPT !.delete = @ \ {n}]
    /\ UNCHANGED <<configs, status, dropped, failures>>

\* Mutant: nothing is made for a service that was not deployed in v.
ToCreateDeployed(v) ==
    {c \in Services \X Declared :
        /\ c[2] \in Entities(Rows, <<c[1], v>>) /\ c[2][1] # "binding"
        /\ Rows[<<c[1], v>>].actual = v}

\* The entities of version v that are made first, and the bindings for later.
\* The queues of a service are made in its actual version only.
ToCreate(v) ==
    {c \in Services \X Declared :
        /\ c[2] \in Entities(Rows, <<c[1], v>>) /\ c[2][1] # "binding"
        /\ c[2][1] = "queue" => Rows[<<c[1], v>>].actual = v}

ToBind(v) ==
    {c \in Services \X Declared : c[2] \in Entities(Rows, <<c[1], v>>) /\ c[2][1] = "binding"}

Creating(j, v) ==
    [j EXCEPT !.step = "create", !.version = v, !.create = ToCreate(v), !.later = ToBind(v)]

DeletionDone ==
    /\ At("apply", "delete") /\ job.delete = {}
    /\ job' = Creating(job, job.version)
    /\ UNCHANGED <<configs, status, broker, links, dropped, failures>>

\* A recovery goes through the live versions: the active one, the legacy one
\* and the candidates.
NextVersion ==
    /\ At("recover", "next")
    /\ \E v \in job.left :
          /\ v # status.active => status.active \notin job.left
          /\ v \in status.candidates => status.legacy \notin job.left
          /\ job' = [Creating(job, v) EXCEPT !.left = @ \ {v}]
    /\ UNCHANGED <<configs, status, broker, links, dropped, failures>>

\* The row of entity d of s is updated with what was made.
Record(s, d, made, j) ==
    Put(j, [Rows EXCEPT ![<<s, job.version>>].entities[d] = made])

\* A router without alternate is an exchange of another kind: it is replaced,
\* and loses its bindings.
CreateExchange(s, d) ==
    LET e == d[2]
        old == IF Alternate(e) \in broker THEN {} ELSE {Router(e)}
        made == VersionedExchange(e, job.version)
    IN
    /\ d[1] = "exchange"
    /\ broker' = broker \cup {Router(e), Alternate(e), made}
    /\ links' = {l \in links : l[1] \notin old}
    /\ Record(s, d, made, [job EXCEPT !.create = @ \ {<<s, d>>}, !.bind = {e}])

CreateQueue(s, d) ==
    LET made == VersionedQueue(d[2], job.version) IN
    /\ d[1] = "queue"
    /\ broker' = broker \cup {made}
    /\ Record(s, d, made, [job EXCEPT !.create = @ \ {<<s, d>>}])
    /\ UNCHANGED links

CreateEntities ==
    /\ job.step = "create" /\ job.bind = {}
    /\ \E c \in job.create : CreateExchange(c[1], c[2]) \/ CreateQueue(c[1], c[2])
    /\ UNCHANGED <<status, dropped, failures>>

\* The new exchange is bound to its router; that of the first version is the
\* default route as well.
BindExchange ==
    /\ job.step = "create"
    /\ \E e \in job.bind :
          LET to == VersionedExchange(e, job.version) IN
          links' = links \cup {<<Router(e), to>>}
                         \cup IF job.version = 1 THEN {<<Alternate(e), to>>} ELSE {}
    /\ job' = [job EXCEPT !.bind = {}]
    /\ UNCHANGED <<configs, status, broker, dropped, failures>>

\* Mutant: the ends of a binding are not looked up.
CreateBindingUnchecked ==
    /\ job.step = "create" /\ job.bind = {} /\ job.create = {}
    /\ \E c \in job.later :
          LET link == <<VersionedExchange(c[2][2], job.version),
                        VersionedQueue(c[2][3], Rows[<<c[1], job.version>>].actual)>>
          IN
          /\ links' = links \cup {link}
          /\ Record(c[1], c[2], link, [job EXCEPT !.later = @ \ {c}])
    /\ UNCHANGED <<status, broker, dropped, failures>>

\* From the exchange of this version to the queue of the actual one.  A binding
\* with a missing end stays lazy, and its row as it is.
CreateBinding ==
    /\ job.step = "create" /\ job.bind = {} /\ job.create = {}
    /\ \E c \in job.later :
          LET s == c[1]
              d == c[2]
              link == <<VersionedExchange(d[2], job.version),
                        VersionedQueue(d[3], Rows[<<s, job.version>>].actual)>>
              rest == [job EXCEPT !.later = @ \ {c}]
          IN
          IF {link[1], link[2]} \subseteq broker
             THEN links' = links \cup {link} /\ Record(s, d, link, rest)
             ELSE job' = rest /\ UNCHANGED <<links, configs>>
    /\ UNCHANGED <<status, broker, dropped, failures>>

Created == job.step = "create" /\ job.create = {} /\ job.later = {} /\ job.bind = {}

Commit ==
    /\ job.op = "apply" /\ Created
    /\ configs' = job.view
    /\ status' = IF job.to = NoStatus THEN status ELSE job.to
    /\ job' = NoJob
    /\ UNCHANGED <<broker, links, dropped, failures>>

VersionRecovered ==
    /\ job.op = "recover" /\ Created
    /\ job' = IF job.left = {} THEN NoJob ELSE [job EXCEPT !.step = "next"]
    /\ UNCHANGED <<configs, status, broker, links, dropped, failures>>

-----------------------------------------------------------------------------
(* A new BG status: routes, versions that are gone, and the row            *)

ListRouters ==
    /\ At("status", "list")
    /\ job' = [job EXCEPT !.routers = Routers, !.step = "route"]
    /\ UNCHANGED <<configs, status, broker, links, dropped, failures>>

DefaultRoutes(e) == {l \in links : l[1] = Alternate(e)}

\* The new default route comes first ...
BindActive ==
    /\ At("status", "route") /\ job.bind = {}
    /\ \E e \in job.routers :
          LET to == VersionedExchange(e, job.to.active) IN
          /\ links' = IF to \in broker THEN links \cup {<<Alternate(e), to>>} ELSE links
          /\ job' = [job EXCEPT !.routers = @ \ {e}, !.bind = {e}]
    /\ UNCHANGED <<configs, status, broker, dropped, failures>>

\* Mutant: all default routes go.
UnbindAll ==
    /\ At("status", "route")
    /\ \E e \in job.bind : links' = links \ DefaultRoutes(e)
    /\ job' = [job EXCEPT !.bind = {}]
    /\ UNCHANGED <<configs, status, broker, dropped, failures>>

\* Mutant: the others go only if there is a new one.
UnbindIfBound ==
    /\ At("status", "route")
    /\ \E e \in job.bind :
          LET to == VersionedExchange(e, job.to.active) IN
          links' = IF to \in broker THEN links \ {l \in DefaultRoutes(e) : l[2] # to} ELSE links
    /\ job' = [job EXCEPT !.bind = {}]
    /\ UNCHANGED <<configs, status, broker, dropped, failures>>

\* ... and the others go, also when the version does not have the exchange.
UnbindFormer ==
    /\ At("status", "route")
    /\ \E e \in job.bind :
          links' = links \ {l \in DefaultRoutes(e) :
                               l[2] # VersionedExchange(e, job.to.active)}
    /\ job' = [job EXCEPT !.bind = {}]
    /\ UNCHANGED <<configs, status, broker, dropped, failures>>

RoutesDone ==
    /\ At("status", "route") /\ job.routers \cup job.bind = {}
    /\ job' = [job EXCEPT !.step = "drop"]
    /\ UNCHANGED <<configs, status, broker, links, dropped, failures>>

\* Mutant: only the rows of the version that the queue belongs to count.
UsedBySame(rows, q, actual) ==
    \E k \in Keys : /\ k[2] = actual /\ rows[k].actual = actual
                    /\ <<"queue", q>> \in Entities(rows, k)

\* A queue is used as long as a row with its actual version names it.
Used(rows, q, actual) ==
    \E k \in Keys : rows[k].actual = actual /\ <<"queue", q>> \in Entities(rows, k)

\* What goes from the broker with the row of key k, when rows remain: its
\* exchanges, with the router if it was the last version, and unused queues.
Orphaned(rows, k) ==
    (UNION {IF d[1] = "exchange"
              THEN {Made(configs, k, d)} \cup IF DeclaredIn(rows, d) THEN {} ELSE {Router(d[2])}
              ELSE IF d[1] = "queue" /\ ~Used(rows, d[2], configs[k].actual)
                   THEN {Made(configs, k, d)} ELSE {}
            : d \in Entities(configs, k)}) \ {Nil}

DropConfig ==
    /\ At("status", "drop")
    /\ \E v \in job.left, s \in Services :
          /\ job.version \in {0, v}
          /\ configs[<<s, v>>] # NoConfig
          /\ LET rows == [configs EXCEPT ![<<s, v>>] = NoConfig] IN
             /\ configs' = rows
             /\ job' = [job EXCEPT !.version = v, !.delete = @ \cup Orphaned(rows, <<s, v>>)]
    /\ UNCHANGED <<status, broker, links, dropped, failures>>

DropEntities ==
    /\ At("status", "drop")
    /\ \E v \in job.left :
          /\ job.version \in {0, v}
          /\ \A s \in Services : configs[<<s, v>>] = NoConfig
          /\ job' = [job EXCEPT !.version = v, !.step = "delete"]
    /\ UNCHANGED <<configs, status, broker, links, dropped, failures>>

VersionDropped ==
    /\ At("status", "delete") /\ job.delete = {}
    /\ job' = [job EXCEPT !.left = @ \ {job.version}, !.version = 0, !.step = "drop"]
    /\ UNCHANGED <<configs, status, broker, links, dropped, failures>>

ListenerDone ==
    /\ At("status", "drop") /\ job.left = {}
    /\ job' = [job EXCEPT !.step = "record"]
    /\ UNCHANGED <<configs, status, broker, links, dropped, failures>>

\* The status is inserted even when the listener has failed.
InsertStatus ==
    /\ At("status", "record")
    /\ status' = job.to
    /\ dropped' = dropped \cup (All(status) \ All(job.to))
    /\ job' = NoJob
    /\ UNCHANGED <<configs, broker, links, failures>>

\* A call fails or the replica dies: an apply is rolled back, but not on the
\* broker; a recovery ends; a listener's error is only logged, also that of the
\* first activation.
Fail ==
    /\ job.op # "none" /\ failures < MaxFailures
    /\ failures' = failures + 1
    /\ \/ job' = NoJob
       \/ /\ At("apply", "activate")
          /\ job' = [job EXCEPT !.to = [NoStatus EXCEPT !.active = 1], !.step = "copy"]
       \/ /\ job.op = "status" /\ job.step # "record"
          /\ job' = [job EXCEPT !.step = "record", !.failed = TRUE]
    /\ UNCHANGED <<configs, status, broker, links, dropped>>

Requests == UNION {[S -> UNION {Offers[s] : s \in S}] : S \in SUBSET Services \ {{}}}

Next ==
    \/ \E v \in Versions, r \in Requests :
          (\A s \in DOMAIN r : r[s] \in Offers[s]) /\ Submit(v, r)
    \/ \E to \in Successors : SubmitStatus(to)
    \/ SubmitRecovery
    \/ Activate \/ CopyAndValidate
    \/ DeleteEntity \/ DeletionDone \/ NextVersion
    \/ CreateEntities \/ BindExchange \/ CreateBinding \/ Commit \/ VersionRecovered
    \/ ListRouters \/ BindActive \/ UnbindFormer \/ RoutesDone
    \/ DropConfig \/ DropEntities \/ VersionDropped \/ ListenerDone \/ InsertStatus
    \/ Fail

Spec == Init /\ [][Next]_vars

-----------------------------------------------------------------------------
(* Properties                                                              *)

Names == (UNION {{Router(e), Alternate(e)} \cup {VersionedExchange(e, v) : v \in Versions} :
                   e \in Exchanges})
            \cup {VersionedQueue(d[2], v) : d \in {x \in Declared : x[1] = "queue"}, v \in Versions}
Links == Names \X Names

\* Every variable keeps its type, and the bindings on the broker have ends.
TypeOK ==
    /\ \A k \in Keys :
          /\ configs[k].actual \in 0..MaxVersion
          /\ Entities(configs, k) \subseteq Declared
          /\ \A d \in Entities(configs, k) : Made(configs, k, d) \in Names \cup Links \cup {Nil}
    /\ status.active \in 0..MaxVersion /\ status.legacy \in 0..MaxVersion
    /\ status.candidates \subseteq Versions
    /\ broker \subseteq Names /\ links \subseteq Links
    /\ \A l \in links : {l[1], l[2]} \subseteq broker
    /\ dropped \subseteq Versions /\ failures \in 0..MaxFailures

\* When versions are dropped, the queues stay that a service of a remaining
\* version still uses, because it was not deployed since.
DroppedVersionKeepsQueues ==
    [][job.op = "status" =>
          \A k \in Keys : \A d \in Entities(configs, k) :
             d[1] = "queue" /\ k[2] \in All(job.to) =>
                LET q == VersionedQueue(d[2], configs[k].actual) IN q \in broker => q \in broker']_vars

\* While the active version is switched, messages without version always have
\* a route, if they had one before and the new version has the exchange.
NeverUnrouted ==
    [][\A e \in Exchanges :
          (/\ At("status", "route") /\ DefaultRoutes(e) # {}
           /\ VersionedExchange(e, job.to.active) \in broker)
              => DefaultRoutes(e)' # {}]_vars

\* After the switch, messages without version go to the active version, and
\* to no other.
SwitchReachesActive ==
    (At("status", "record") /\ ~job.failed /\ job.to.active # status.active) =>
        \A e \in Routers :
            DefaultRoutes(e) = {<<Alternate(e), x>> :
                                  x \in broker \cap {VersionedExchange(e, job.to.active)}}

\* What an apply is about to commit is on the broker, whatever earlier attempts
\* have left there: the exchanges of its version behind their routers, the
\* queues that services were deployed with, and each binding whose ends exist,
\* with the row that tells how to delete it.
AppliedVersionComplete ==
    (job.op = "apply" /\ Created) =>
        \A s \in Services : \A d \in Entities(job.view, <<s, job.version>>) :
            LET c == job.view[<<s, job.version>>]
                made == CASE d[1] = "exchange" -> VersionedExchange(d[2], job.version)
                          [] d[1] = "queue" -> VersionedQueue(d[2], c.actual)
                          [] OTHER -> <<VersionedExchange(d[2], job.version),
                                        VersionedQueue(d[3], c.actual)>>
            IN
            /\ d[1] = "exchange" => <<Router(d[2]), made>> \in links
            /\ d[1] = "queue" /\ c.actual = job.version => made \in broker
            /\ d[1] = "binding" /\ {made[1], made[2]} \subseteq broker => made \in links
            /\ made \in broker \cup links => c.entities[d] = made

\* No versioned exchange is left on the broker without a row, as long as
\* nothing has failed.
NoOrphanExchange ==
    (job.op = "none" /\ failures = 0) =>
        \A n \in broker : n[1] = "exchange" =>
            \E k \in Keys : \E d \in Entities(configs, k) : Made(configs, k, d) = n
=============================================================================
