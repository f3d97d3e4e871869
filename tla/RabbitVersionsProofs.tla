------------------------- MODULE RabbitVersionsProofs -------------------------
(***************************************************************************)
(* The versioned Rabbit entities of a virtual host, for every number of    *)
(* services, versions and failures, and whatever the services declare: the *)
(* rows and what they stand for on the broker, the default routes under a  *)
(* switch of the active version, and the queues that outlive a version.    *)
(***************************************************************************)
EXTENDS RabbitVersions, TLAPS

-----------------------------------------------------------------------------
(* The inductive invariant                                                 *)

Entries == {Nil} \cup UNION {[D -> Names \cup Links \cup {Nil}] : D \in SUBSET Declared}
Row == [actual : 0..MaxVersion, entities : Entries]
Configs == [Keys -> Row]
Statuses == [active : 0..MaxVersion, legacy : 0..MaxVersion, candidates : SUBSET Versions]

StepsOf(op) ==
    CASE op = "apply"   -> {"activate", "copy", "delete", "create"}
      [] op = "recover" -> {"next", "create"}
      [] op = "status"  -> {"list", "route", "drop", "delete", "record"}
      [] OTHER          -> {"none"}

Job == [op : {"none", "apply", "recover", "status"},
        step : {"none", "activate", "copy", "delete", "create", "next", "list", "route", "drop",
                "record"},
        version : 0..MaxVersion, to : Statuses, view : Configs \cup {Nil},
        delete : SUBSET (Names \cup Links),
        create : SUBSET (Services \X Declared), later : SUBSET (Services \X Declared),
        bind : SUBSET Exchanges, routers : SUBSET Exchanges,
        left : SUBSET Versions, failed : BOOLEAN]

TypeInv ==
    /\ configs \in Configs
    /\ status \in Statuses
    /\ broker \subseteq Names /\ links \subseteq Links
    /\ \A l \in links : {l[1], l[2]} \subseteq broker
    /\ job \in Job
    /\ dropped \subseteq Versions /\ failures \in 0..MaxFailures

\* A committed row names the exchanges of its version and the queues of its
\* actual version, whatever has become of them on the broker.
SoundRow(rows, k) ==
    \A d \in Entities(rows, k) :
        /\ d[1] = "exchange" => Made(rows, k, d) = VersionedExchange(d[2], k[2])
        /\ d[1] = "queue" => Made(rows, k, d) = VersionedQueue(d[2], rows[k].actual)

RowsInv == \A k \in Keys : SoundRow(configs, k)

\* The first deployment makes a version active.
StatusInv ==
    /\ status # NoStatus => status.active \in Versions
    /\ status = NoStatus => \A k \in Keys : configs[k] = NoConfig

\* The request that is served, and what it has in hand.
JobInv ==
    /\ job.step \in StepsOf(job.op)
    /\ job.op = "apply" =>
          /\ job.version \in Versions /\ job.view \in Configs
          /\ job.step # "activate" => Active \in Versions
          /\ \A k \in Keys : k[2] # job.version => job.view[k] = configs[k]
    /\ job.op = "recover" => status # NoStatus
    /\ job.step \notin {"create", "route", "record"} => job.bind = {}
    /\ job.op = "status" =>
          /\ status # NoStatus /\ job.to.active \in Versions
          /\ job.step \in {"list", "route"} => job.version = 0
    /\ At("status", "route") => job.routers \subseteq Routers

\* A service that was not deployed in the version keeps the queues of its
\* actual version.
QueuesKept ==
    job.op = "apply" =>
        \A s \in Services : \A d \in Entities(job.view, <<s, job.version>>) :
            LET c == job.view[<<s, job.version>>] IN
            d[1] = "queue" /\ c.actual # job.version =>
                c.entities[d] = VersionedQueue(d[2], c.actual)

\* What is still to be made is declared in the version.
CreateInv ==
    job.step = "create" =>
        /\ job.version \in Versions
        /\ \A c \in job.create :
              /\ c[2] \in Entities(Rows, <<c[1], job.version>>) /\ c[2][1] # "binding"
              /\ c[2][1] = "queue" => Rows[<<c[1], job.version>>].actual = job.version
        /\ \A c \in job.later : c[2] \in Entities(Rows, <<c[1], job.version>>) /\ c[2][1] = "binding"
        /\ \A e, f \in job.bind : e = f
        /\ \A e \in job.bind :
              {Router(e), Alternate(e), VersionedExchange(e, job.version)} \subseteq broker

\* Entity d of service s is still to be made, or is there with its row.
MadeOrLeft(s, d) ==
    LET c == job.view[<<s, job.version>>]
        exchange == VersionedExchange(d[2], job.version)
        queue == VersionedQueue(d[2], job.version)
        link == <<exchange, VersionedQueue(d[3], c.actual)>>
    IN
    /\ d[1] = "exchange" /\ <<s, d>> \notin job.create =>
          /\ c.entities[d] = exchange
          /\ {Router(d[2]), Alternate(d[2]), exchange} \subseteq broker
          /\ d[2] \in job.bind \/ <<Router(d[2]), exchange>> \in links
    /\ d[1] = "queue" /\ c.actual = job.version /\ <<s, d>> \notin job.create =>
          c.entities[d] = queue /\ queue \in broker
    /\ d[1] = "binding" /\ <<s, d>> \notin job.later =>
          /\ job.create = {} /\ job.bind = {}
          /\ {link[1], link[2]} \subseteq broker => link \in links /\ c.entities[d] = link

ApplyInv ==
    At("apply", "create") =>
        \A s \in Services : \A d \in Entities(job.view, <<s, job.version>>) : MadeOrLeft(s, d)

\* The new version is among the default routes of e, if it has the exchange.
Bound(e) ==
    VersionedExchange(e, job.to.active) \in broker =>
        <<Alternate(e), VersionedExchange(e, job.to.active)>> \in links

Routed(e) ==
    Bound(e) /\ \A l \in links : l[1] = Alternate(e) => l[2] = VersionedExchange(e, job.to.active)

RouteInv ==
    job.op = "status" =>
        /\ job.failed => job.step = "record"
        /\ job.step = "route" =>
              /\ \A e, f \in job.bind : e = f
              /\ \A e \in job.bind : Bound(e)
              /\ \A e \in Routers : e \in job.routers \cup job.bind \/ Routed(e)
        /\ job.step \in {"drop", "delete", "record"} /\ ~job.failed /\ job.to.active # status.active =>
              \A e \in Routers : Routed(e)

\* No row needs a queue that is to be deleted.
DropInv ==
    job.op = "status" =>
        /\ job.delete \subseteq Names
        /\ \A d \in Declared, v \in 0..MaxVersion :
              d[1] = "queue" /\ VersionedQueue(d[2], v) \in job.delete => ~Used(configs, d[2], v)

HasRow(rows, e, v) == \E s \in Services : <<"exchange", e>> \in Entities(rows, <<s, v>>)

\* The row that accounts for exchange e of version v: committed, or in the
\* transaction; or it is about to be deleted.
Accounted(e, v) ==
    LET n == VersionedExchange(e, v) IN
    CASE job.op = "apply" ->
            /\ v # job.version \/ job.step \in {"activate", "copy"} => HasRow(configs, e, v)
            /\ v = job.version => HasRow(job.view, e, v) \/ n \in job.delete
      [] job.op = "status" -> HasRow(configs, e, v) \/ n \in job.delete
      [] OTHER -> HasRow(configs, e, v)

OrphanInv ==
    failures = 0 =>
        /\ \A e \in Exchanges, v \in Versions : VersionedExchange(e, v) \in broker => Accounted(e, v)
        /\ At("apply", "create") => job.delete = {}
        /\ job.op = "status" =>
              /\ job.step \in {"list", "route", "record"} => job.delete = {}
              /\ job.step = "drop" => IF job.version = 0 THEN job.delete = {} ELSE job.version \in job.left

IInv ==
    /\ TypeInv
    /\ RowsInv /\ StatusInv
    /\ JobInv /\ QueuesKept /\ CreateInv /\ ApplyInv
    /\ RouteInv /\ DropInv
    /\ OrphanInv

-----------------------------------------------------------------------------
(* Names, rows and requests                                                *)

\* Names and bindings are told apart by their form.
LEMMA NameFacts ==
    /\ \A e \in Exchanges : /\ Router(e) \in Names /\ Alternate(e) \in Names
                            /\ \A v \in Versions : VersionedExchange(e, v) \in Names
    /\ \A d \in Declared, v \in Versions : d[1] = "queue" => VersionedQueue(d[2], v) \in Names
    /\ \A n \in Names : /\ n = <<n[1], n[2], n[3]>>
                        /\ n[1] = "exchange" => n[2] \in Exchanges /\ n[3] \in Versions
    /\ \A l \in Links : l = <<l[1], l[2]>> /\ l[1] \in Names /\ l[2] \in Names
    /\ Nil \notin Names \cup Links
  <1> DEFINE Of(e) == {Router(e), Alternate(e)} \cup {VersionedExchange(e, v) : v \in Versions}
             OfExchanges == UNION {Of(e) : e \in Exchanges}
             Queues == {VersionedQueue(d[2], v) : d \in {x \in Declared : x[1] = "queue"}, v \in Versions}
  <1>1. Names = OfExchanges \cup Queues
    BY DEF Names
  <1>2. \A n \in Names : \/ \E e \in Exchanges : n \in Of(e)
                         \/ \E d \in Declared, v \in Versions : n = VersionedQueue(d[2], v)
    BY <1>1
  <1>3. \A e \in Exchanges : Of(e) \subseteq Names
    BY <1>1
  <1>4. \A d \in Declared, v \in Versions : d[1] = "queue" => VersionedQueue(d[2], v) \in Names
    BY <1>1
  <1> HIDE DEF OfExchanges, Queues
  <1>5. \A e \in Exchanges : /\ Router(e) \in Names /\ Alternate(e) \in Names
                             /\ \A v \in Versions : VersionedExchange(e, v) \in Names
    BY <1>3
  <1>6. \A n \in Names : /\ n = <<n[1], n[2], n[3]>>
                         /\ n[1] = "exchange" => n[2] \in Exchanges /\ n[3] \in Versions
    BY <1>2 DEF Router, Alternate, VersionedExchange, VersionedQueue
  <1>7. \A l \in Links : l = <<l[1], l[2]>> /\ l[1] \in Names /\ l[2] \in Names
    BY DEF Links
  <1>8. Nil \notin Names \cup Links
    <2>1. ASSUME NEW a, NEW b, NEW c PROVE <<a, b, c>> # Nil /\ <<a, b>> # Nil
      BY DEF Nil
    <2>2. ASSUME NEW n \in Names PROVE n # Nil
      <3>1. n = <<n[1], n[2], n[3]>>
        BY <1>6
      <3> QED
        BY <2>1, <3>1
    <2>3. ASSUME NEW l \in Links PROVE l # Nil
      <3>1. l = <<l[1], l[2]>>
        BY <1>7
      <3> QED
        BY <2>1, <3>1
    <2> QED
      BY <2>2, <2>3
  <1> QED
    BY <1>4, <1>5, <1>6, <1>7, <1>8

\* What is declared, by its form.
LEMMA DeclaredFacts ==
    ASSUME NEW d \in Declared
    PROVE  /\ d[1] \in {"exchange", "queue", "binding"}
           /\ d[1] = "exchange" => d = <<"exchange", d[2]>> /\ d[2] \in Exchanges
           /\ d[1] = "queue" => d = <<"queue", d[2]>>
           /\ d[1] = "binding" => d[2] \in Exchanges
  BY DeclaredAssumption DEF Exchanges

\* A row without entities, and one that has some.
LEMMA RowFacts ==
    /\ NoConfig \in Row /\ DOMAIN NoConfig.entities = {}
    /\ \A row \in Row : /\ DOMAIN row.entities \subseteq Declared
                        /\ \A d \in DOMAIN row.entities : row.entities[d] \in Names \cup Links \cup {Nil}
    /\ \A D \in SUBSET Declared : [d \in D |-> Nil] \in Entries
  <1>1. DOMAIN Nil = {}
    BY DEF Nil
  <1>2. NoConfig \in Row /\ DOMAIN NoConfig.entities = {}
    BY <1>1, RabbitVersionsAssumption DEF NoConfig, Row, Entries
  <1>3. \A f \in Entries : DOMAIN f \subseteq Declared /\ \A d \in DOMAIN f : f[d] \in Names \cup Links \cup {Nil}
    BY <1>1 DEF Entries
  <1> QED
    BY <1>2, <1>3 DEF Row, Entries

Updated(rows, k, d, made) == [rows EXCEPT ![k].entities[d] = made]

\* Recording what was made of an entity changes that entity of that row only.
LEMMA RowUpdate ==
    ASSUME NEW rows \in Configs, NEW k \in Keys, NEW d \in Entities(rows, k),
           NEW made \in Names \cup Links, NEW new, new = Updated(rows, k, d, made)
    PROVE  /\ new \in Configs
           /\ Made(new, k, d) = made
           /\ \A x \in Keys : /\ Entities(new, x) = Entities(rows, x)
                              /\ new[x].actual = rows[x].actual
                              /\ x # k => new[x] = rows[x]
                              /\ \A y \in Entities(rows, x) :
                                    x # k \/ y # d => Made(new, x, y) = Made(rows, x, y)
  <1>0. DOMAIN Nil = {}
    BY DEF Nil
  <1>1. rows[k] \in Row /\ rows[k].entities \in Entries /\ d \in DOMAIN rows[k].entities
    BY DEF Configs, Row, Entities
  <1> DEFINE f == [rows[k].entities EXCEPT ![d] = made]
  <1>2. f \in Entries /\ DOMAIN f = DOMAIN rows[k].entities /\ f[d] = made
        /\ \A y \in DOMAIN f : y # d => f[y] = rows[k].entities[y]
    BY <1>1, <1>0 DEF Entries
  <1> DEFINE row == [rows[k] EXCEPT !.entities = f]
  <1>3. new = [rows EXCEPT ![k] = row]
    BY DEF Updated
  <1> HIDE DEF f
  <1>4. row \in Row /\ row.entities = f /\ row.actual = rows[k].actual
    BY <1>1, <1>2 DEF Row
  <1> HIDE DEF row
  <1>5. new \in Configs /\ new[k] = row /\ \A x \in Keys : x # k => new[x] = rows[x]
    BY <1>3, <1>4 DEF Configs
  <1> QED
    BY <1>2, <1>4, <1>5 DEF Entities, Made

\* The fields of the job have their types.
LEMMA JobFacts ==
    ASSUME NEW j \in Job
    PROVE  /\ j.version \in 0..MaxVersion /\ j.to \in Statuses /\ j.view \in Configs \cup {Nil}
           /\ j.delete \subseteq Names \cup Links
           /\ j.create \subseteq Services \X Declared /\ j.later \subseteq Services \X Declared
           /\ j.bind \subseteq Exchanges /\ j.routers \subseteq Exchanges
           /\ j.left \subseteq Versions /\ j.failed \in BOOLEAN
  BY DEF Job

LEMMA NoJobFacts == NoJob \in Job /\ NoStatus \in Statuses /\ NoJob.op = "none" /\ NoJob.step = "none"
                    /\ NoJob.delete = {} /\ NoJob.bind = {} /\ NoStatus.active = 0
  BY RabbitVersionsAssumption DEF NoJob, NoStatus, Job, Statuses

\* After a request is over the rows and the broker are what matters.
LEMMA Over ==
    ASSUME TypeInv', RowsInv', StatusInv', job' = NoJob,
           failures' = 0 => \A e \in Exchanges, v \in Versions :
                               VersionedExchange(e, v) \in broker' => HasRow(configs', e, v)
    PROVE  IInv'
  <1>1. job'.op = "none" /\ job'.step = "none" /\ job'.bind = {}
    BY NoJobFacts
  <1>2. JobInv' /\ QueuesKept' /\ CreateInv' /\ ApplyInv' /\ RouteInv' /\ DropInv'
    BY <1>1 DEF JobInv, StepsOf, QueuesKept, CreateInv, ApplyInv, At, RouteInv, DropInv
  <1>3. OrphanInv'
    BY <1>1 DEF OrphanInv, Accounted, At
  <1> QED
    BY <1>2, <1>3 DEF IInv

-----------------------------------------------------------------------------
(* Requests                                                                *)

LEMMA InitInv == Init => IInv
  <1> SUFFICES ASSUME Init PROVE IInv
    OBVIOUS
  <1>1. TypeInv
    BY NoJobFacts, RowFacts, RabbitVersionsAssumption DEF Init, TypeInv, Configs
  <1>2. RowsInv /\ StatusInv
    BY RowFacts DEF Init, RowsInv, SoundRow, Entities, StatusInv
  <1>3. JobInv /\ QueuesKept /\ CreateInv /\ ApplyInv /\ RouteInv /\ DropInv /\ OrphanInv
    BY NoJobFacts DEF Init, JobInv, StepsOf, QueuesKept, CreateInv, ApplyInv, At, RouteInv, DropInv, OrphanInv
  <1> QED
    BY <1>1, <1>2, <1>3 DEF IInv

\* A status comes from one that has an active version, and has one itself.
LEMMA SuccessorFacts ==
    ASSUME IInv, NEW to \in Successors
    PROVE  to \in Statuses /\ to.active \in Versions /\ status # NoStatus
  <1>1. status \in Statuses
    BY DEF IInv, TypeInv
  <1> DEFINE Comes == {[status EXCEPT !.candidates = @ \cup {v}] :
                         v \in {w \in Versions : /\ w \notin All(status) \cup dropped
                                                 /\ \E s \in Services : configs[<<s, w>>] # NoConfig}}
             Goes == {[status EXCEPT !.candidates = @ \ {v}] : v \in status.candidates}
             Promoted == {[active |-> v, legacy |-> status.active, candidates |-> status.candidates \ {v}] :
                            v \in status.candidates}
             Back == IF status.legacy = 0 THEN {}
                     ELSE {[status EXCEPT !.legacy = 0],
                           [active |-> status.legacy, legacy |-> 0,
                            candidates |-> status.candidates \cup {status.active}]}
  <1>0. to \in Comes \/ to \in Goes \/ to \in Promoted \/ to \in Back
    BY DEF Successors
  <1>2. status # NoStatus
    <2>1. to \in Comes => \E k \in Keys : configs[k] # NoConfig
      BY DEF Keys
    <2>2. to \in Goes \cup Promoted => status.candidates # {}
      OBVIOUS
    <2>3. status = NoStatus => status.candidates = {} /\ status.legacy = 0
      BY DEF NoStatus
    <2>4. to \in Back => status.legacy # 0
      OBVIOUS
    <2> HIDE DEF Comes, Goes, Promoted, Back
    <2> QED
      BY <1>0, <2>1, <2>2, <2>3, <2>4 DEF IInv, StatusInv
  <1>3. status.active \in Versions /\ Versions \subseteq 0..MaxVersion
    BY <1>2, RabbitVersionsAssumption DEF IInv, StatusInv, Versions
  <1>4. status.legacy # 0 => status.legacy \in Versions
    BY <1>1 DEF Statuses, Versions
  <1>5. to \in Comes => to \in Statuses /\ to.active \in Versions
    BY <1>1, <1>3 DEF Statuses
  <1>6. to \in Goes => to \in Statuses /\ to.active \in Versions
    BY <1>1, <1>3 DEF Statuses
  <1>7. to \in Promoted => to \in Statuses /\ to.active \in Versions
    BY <1>1, <1>3 DEF Statuses
  <1>8. to \in Back => to \in Statuses /\ to.active \in Versions
    <2>1. CASE to = [status EXCEPT !.legacy = 0]
      BY <1>1, <1>3, <2>1, RabbitVersionsAssumption DEF Statuses
    <2>2. CASE status.legacy # 0 /\ to = [active |-> status.legacy, legacy |-> 0,
                                         candidates |-> status.candidates \cup {status.active}]
      BY <1>1, <1>3, <1>4, <2>2, RabbitVersionsAssumption DEF Statuses
    <2> QED
      BY <2>1, <2>2
  <1> HIDE DEF Comes, Goes, Promoted, Back
  <1> QED
    BY <1>0, <1>2, <1>5, <1>6, <1>7, <1>8

LEMMA SubmitStatusInv ==
    ASSUME IInv, NEW to \in Successors, SubmitStatus(to)
    PROVE  IInv'
  <1>1. to \in Statuses /\ to.active \in Versions /\ status # NoStatus
    BY SuccessorFacts
  <1>2. UNCHANGED <<configs, status, broker, links, dropped, failures>>
    BY DEF SubmitStatus
  <1>3. /\ job' \in Job /\ job'.op = "status" /\ job'.to = to
        /\ job'.step \in {"list", "drop"} /\ (job'.step = "drop" => to.active = status.active)
        /\ job'.delete = {} /\ job'.version = 0 /\ job'.failed = FALSE /\ job'.bind = {}
    <2> DEFINE step == IF to.active # status.active THEN "list" ELSE "drop"
               left == All(status) \ All(to)
    <2>1. job' = [NoJob EXCEPT !.op = "status", !.to = to, !.step = step, !.left = left]
      BY DEF SubmitStatus
    <2>2. step \in {"list", "drop"} /\ (step = "drop" => to.active = status.active)
      OBVIOUS
    <2>3. left \subseteq Versions
      BY RabbitVersionsAssumption DEF IInv, TypeInv, Statuses, All, Versions
    <2> HIDE DEF step, left
    <2> QED
      BY <1>1, <2>1, <2>2, <2>3, NoJobFacts, RabbitVersionsAssumption DEF NoJob, Job
  <1>4. TypeInv' /\ RowsInv' /\ StatusInv'
    BY <1>2, <1>3 DEF IInv, TypeInv, RowsInv, SoundRow, Entities, Made, StatusInv
  <1>5. JobInv' /\ QueuesKept' /\ CreateInv' /\ ApplyInv'
    BY <1>1, <1>2, <1>3 DEF JobInv, StepsOf, At, QueuesKept, CreateInv, ApplyInv
  <1>6. RouteInv' /\ DropInv'
    BY <1>1, <1>2, <1>3 DEF RouteInv, DropInv
  <1>7. OrphanInv'
    BY <1>2, <1>3 DEF IInv, OrphanInv, Accounted, At, SubmitStatus, HasRow, Entities
  <1> QED
    BY <1>4, <1>5, <1>6, <1>7 DEF IInv

LEMMA SubmitRecoveryInv ==
    ASSUME IInv, SubmitRecovery
    PROVE  IInv'
  <1>1. UNCHANGED <<configs, status, broker, links, dropped, failures>> /\ status # NoStatus
    BY DEF SubmitRecovery
  <1>2. job' \in Job /\ job'.op = "recover" /\ job'.step = "next" /\ job'.bind = {}
    <2> DEFINE left == All(status)
    <2>1. job' = [NoJob EXCEPT !.op = "recover", !.step = "next", !.left = left]
      BY DEF SubmitRecovery
    <2>2. left \subseteq Versions
      BY RabbitVersionsAssumption DEF IInv, TypeInv, Statuses, All, Versions
    <2> HIDE DEF left
    <2> QED
      BY <2>1, <2>2, NoJobFacts, RabbitVersionsAssumption DEF NoJob, Job
  <1>3. TypeInv' /\ RowsInv' /\ StatusInv'
    BY <1>1, <1>2 DEF IInv, TypeInv, RowsInv, SoundRow, Entities, Made, StatusInv
  <1>4. JobInv' /\ QueuesKept' /\ CreateInv' /\ ApplyInv' /\ RouteInv' /\ DropInv'
    BY <1>1, <1>2 DEF JobInv, StepsOf, At, QueuesKept, CreateInv, ApplyInv, RouteInv, DropInv
  <1>5. OrphanInv'
    BY <1>1, <1>2 DEF IInv, OrphanInv, Accounted, At, SubmitRecovery, HasRow, Entities
  <1> QED
    BY <1>3, <1>4, <1>5 DEF IInv

\* An apply sees the rows of its request instead of those of its version.
LEMMA SubmitInv ==
    ASSUME IInv, NEW v \in Versions, NEW r \in Requests,
           \A s \in DOMAIN r : r[s] \in Offers[s], Submit(v, r)
    PROVE  IInv'
  <1> DEFINE asked == DOMAIN r
             view == [k \in Keys |-> IF k[1] \in asked /\ k[2] = v THEN Fresh(v, r[k[1]]) ELSE configs[k]]
             again == {t \in asked : configs[<<t, v>>] # NoConfig}
             delete == UNION {Superfluous(configs[<<s, v>>], v, r[s]) : s \in again}
             step == IF status = NoStatus THEN "activate" ELSE "copy"
  <1>1. asked \subseteq Services /\ \A s \in asked : r[s] \subseteq Declared
    BY RabbitVersionsAssumption DEF Requests, Declared
  <1>2. \A k \in Keys : configs[k] \in Row
    BY DEF IInv, TypeInv, Configs
  <1>3. UNCHANGED <<configs, status, broker, links, dropped, failures>> /\ job.op = "none"
    BY DEF Submit
  <1>4. view \in Configs
    <2>1. \A s \in asked : Fresh(v, r[s]) \in Row
      BY <1>1, RowFacts, RabbitVersionsAssumption DEF Fresh, Row, Versions
    <2> QED
      BY <1>2, <2>1 DEF Configs
  <1>5. \A s \in again : <<s, v>> \in Keys
    BY <1>1 DEF Keys
  <1>6. delete \subseteq Names \cup Links
    <2>1. ASSUME NEW s \in again PROVE Superfluous(configs[<<s, v>>], v, r[s]) \subseteq Names \cup Links
      BY <1>2, <1>5, RowFacts DEF Superfluous
    <2> QED
      BY <2>1
  <1>7. step \in {"activate", "copy"} /\ (step = "copy" => status # NoStatus)
    OBVIOUS
  <1>8. ASSUME NEW e \in Exchanges, HasRow(configs, e, v)
        PROVE  HasRow(view, e, v) \/ VersionedExchange(e, v) \in delete
    <2>1. PICK s \in Services : <<"exchange", e>> \in Entities(configs, <<s, v>>)
      BY <1>8 DEF HasRow
    <2>2. <<s, v>> \in Keys
      BY DEF Keys
    <2>3. CASE s \notin asked
      <3>1. view[<<s, v>>] = configs[<<s, v>>]
        BY <2>2, <2>3
      <3> QED
        BY <2>1, <3>1 DEF HasRow, Entities
    <2>4. CASE s \in asked /\ <<"exchange", e>> \in r[s]
      <3>1. view[<<s, v>>] = Fresh(v, r[s])
        BY <2>2, <2>4
      <3> QED
        BY <2>4, <3>1 DEF HasRow, Entities, Fresh
    <2>5. CASE s \in asked /\ <<"exchange", e>> \notin r[s]
      <3>1. configs[<<s, v>>] # NoConfig
        BY <2>1, RowFacts DEF Entities
      <3>2. configs[<<s, v>>].entities[<<"exchange", e>>] = VersionedExchange(e, v)
        BY <2>1, <2>2 DEF IInv, RowsInv, SoundRow, Made
      <3>3. VersionedExchange(e, v) # Nil
        BY NameFacts
      <3>4. VersionedExchange(e, v) \in Superfluous(configs[<<s, v>>], v, r[s])
        BY <2>1, <2>5, <3>2, <3>3 DEF Superfluous, Entities
      <3> QED
        BY <2>5, <3>1, <3>4
    <2> QED
      BY <2>3, <2>4, <2>5
  <1>9. \A k \in Keys : view[k] = IF k[1] \in asked /\ k[2] = v THEN Fresh(v, r[k[1]]) ELSE configs[k]
    OBVIOUS
  <1>10. job' = [NoJob EXCEPT !.op = "apply", !.version = v, !.view = view, !.delete = delete, !.step = step]
    BY DEF Submit
  <1> HIDE DEF view, delete, step
  <1>17. job' = [op |-> "apply", step |-> step, version |-> v, to |-> NoStatus, view |-> view,
                 delete |-> delete, create |-> {}, later |-> {}, bind |-> {}, routers |-> {},
                 left |-> {}, failed |-> FALSE]
    BY <1>10 DEF NoJob
  <1>11. /\ job' \in Job /\ job'.op = "apply" /\ job'.version = v /\ job'.view = view
         /\ job'.delete = delete /\ job'.step = step /\ job'.to = NoStatus /\ job'.bind = {}
    BY <1>4, <1>6, <1>7, <1>17, NoJobFacts, RabbitVersionsAssumption DEF Job, Versions
  <1>12. TypeInv' /\ RowsInv' /\ StatusInv'
    BY <1>3, <1>11 DEF IInv, TypeInv, RowsInv, SoundRow, Entities, Made, StatusInv
  <1>13. JobInv'
    BY <1>3, <1>4, <1>7, <1>9, <1>11 DEF IInv, StatusInv, JobInv, StepsOf, At, Active
  <1>14. QueuesKept'
    <2>1. ASSUME NEW s \in Services, NEW d \in Entities(view, <<s, v>>), d[1] = "queue", view[<<s, v>>].actual # v
          PROVE  view[<<s, v>>].entities[d] = VersionedQueue(d[2], view[<<s, v>>].actual)
      <3>1. <<s, v>> \in Keys
        BY DEF Keys
      <3>2. view[<<s, v>>] = IF s \in asked THEN Fresh(v, r[s]) ELSE configs[<<s, v>>]
        BY <1>9, <3>1
      <3>3. view[<<s, v>>] = configs[<<s, v>>]
        BY <2>1, <3>2 DEF Fresh
      <3> QED
        BY <2>1, <3>1, <3>3 DEF IInv, RowsInv, SoundRow, Made, Entities
    <2> QED
      BY <1>11, <2>1 DEF QueuesKept
  <1>15. CreateInv' /\ ApplyInv' /\ RouteInv' /\ DropInv'
    BY <1>7, <1>11 DEF CreateInv, ApplyInv, At, RouteInv, DropInv
  <1>16. OrphanInv'
    <2>1. \A e \in Exchanges, w \in Versions :
             failures = 0 /\ VersionedExchange(e, w) \in broker => HasRow(configs, e, w)
      BY <1>3 DEF IInv, OrphanInv, Accounted
    <2> QED
      BY <1>3, <1>7, <1>8, <1>11, <2>1 DEF OrphanInv, Accounted, At, HasRow, Entities
  <1> QED
    BY <1>12, <1>13, <1>14, <1>15, <1>16 DEF IInv

-----------------------------------------------------------------------------
(* The steps of an apply and of a recovery                                 *)

\* The first activation gives the job a status; its routes are switched or not.
LEMMA Activated ==
    ASSUME IInv, At("apply", "activate"), TypeInv',
           job' = [job EXCEPT !.to = [NoStatus EXCEPT !.active = 1], !.step = "copy"],
           UNCHANGED <<configs, status, broker, dropped>>, failures' \in {failures, failures + 1}
    PROVE  IInv'
  <1>1. job \in Job /\ job' \in Job
    BY DEF IInv, TypeInv
  <1>2. /\ job'.op = "apply" /\ job'.step = "copy" /\ job'.version = job.version /\ job'.view = job.view
        /\ job'.delete = job.delete /\ job'.bind = job.bind /\ job'.to = [NoStatus EXCEPT !.active = 1]
    BY <1>1 DEF Job, At
  <1>3. RowsInv' /\ StatusInv'
    BY DEF IInv, RowsInv, SoundRow, Entities, Made, StatusInv
  <1>4. JobInv'
    <2>1. job'.to.active = 1 /\ job'.to # NoStatus /\ 1 \in Versions
      <3>1. job.version \in Versions
        BY DEF IInv, JobInv, At
      <3> QED
        BY <1>2, <3>1, RabbitVersionsAssumption DEF NoStatus, Versions
    <2>2. Active' \in Versions
      BY <2>1 DEF Active
    <2> QED
      BY <1>2, <2>2 DEF IInv, JobInv, StepsOf, At
  <1>5. QueuesKept' /\ CreateInv' /\ ApplyInv' /\ RouteInv' /\ DropInv'
    BY <1>2 DEF IInv, QueuesKept, At, Entities, CreateInv, ApplyInv, RouteInv, DropInv
  <1>6. OrphanInv'
    <2>1. failures' = 0 => failures = 0
      BY RabbitVersionsAssumption DEF IInv, TypeInv
    <2> QED
      BY <1>2, <2>1 DEF IInv, OrphanInv, Accounted, At, HasRow, Entities
  <1> QED
    BY <1>3, <1>4, <1>5, <1>6 DEF IInv

LEMMA ActivateInv ==
    ASSUME IInv, Activate
    PROVE  IInv'
  <1>1. job \in Job /\ 1 \in Versions /\ job' \in Job
    <2>1. job \in Job /\ job.version \in Versions
      BY DEF IInv, TypeInv, JobInv, Activate, At
    <2> DEFINE to == [NoStatus EXCEPT !.active = 1]
    <2>2. to \in Statuses /\ 1 \in Versions
      BY <2>1, RabbitVersionsAssumption DEF NoStatus, Statuses, Versions
    <2>3. job' = [job EXCEPT !.to = to, !.step = "copy"]
      BY DEF Activate
    <2> HIDE DEF to
    <2> QED
      BY <2>1, <2>2, <2>3 DEF Job
  <1>2. ASSUME NEW l \in links' PROVE l \in Links /\ {l[1], l[2]} \subseteq broker
    <2>1. CASE l \in links
      BY <2>1 DEF IInv, TypeInv
    <2>2. CASE l \notin links
      <3>1. PICK e \in Routers : l = <<Alternate(e), VersionedExchange(e, 1)>> /\ VersionedExchange(e, 1) \in broker
        BY <1>2, <2>2 DEF Activate, Switched
      <3>2. Alternate(e) \in broker /\ broker \subseteq Names
        BY DEF Routers, IInv, TypeInv
      <3> QED
        BY <3>1, <3>2 DEF Links
    <2> QED
      BY <2>1, <2>2
  <1>3. TypeInv'
    BY <1>1, <1>2 DEF IInv, TypeInv, Activate
  <1> QED
    BY <1>3, Activated DEF Activate

LEMMA CopyInv ==
    ASSUME IInv, CopyAndValidate
    PROVE  IInv'
  <1> DEFINE w == job.version
             rows == WithActive(job.view, w)
  <1>1. UNCHANGED <<configs, status, broker, links, dropped, failures>> /\ job.op = "apply" /\ job.step = "copy"
    BY DEF CopyAndValidate, At
  <1>2. /\ job \in Job /\ w \in Versions /\ job.view \in Configs /\ Active \in Versions
        /\ job.bind = {} /\ \A k \in Keys : k[2] # w => job.view[k] = configs[k]
    BY <1>1 DEF IInv, TypeInv, JobInv
  <1>3. \A s \in Services : <<s, w>> \in Keys /\ <<s, Active>> \in Keys
    BY <1>2 DEF Keys
  <1>4. /\ rows \in Configs
        /\ \A k \in Keys : k[2] # w => rows[k] = job.view[k]
        /\ \A s \in Services : rows[<<s, w>>] = IF w # Active /\ job.view[<<s, w>>] = NoConfig
                                                 THEN configs[<<s, Active>>] ELSE job.view[<<s, w>>]
    <2>1. \A k \in Keys : <<k[1], Active>> \in Keys
      BY <1>2 DEF Keys
    <2>2. rows \in Configs
      BY <1>2, <2>1 DEF WithActive, Configs
    <2>3. \A k \in Keys : k[2] # w => rows[k] = job.view[k]
      BY DEF WithActive
    <2>4. ASSUME NEW s \in Services
          PROVE  rows[<<s, w>>] = IF w # Active /\ job.view[<<s, w>>] = NoConfig
                                  THEN configs[<<s, Active>>] ELSE job.view[<<s, w>>]
      BY <1>2, <1>3 DEF WithActive
    <2> QED
      BY <2>2, <2>3, <2>4
  <1>5. CASE ~Valid(rows, w)
    <2>1. job' = NoJob
      BY <1>5 DEF CopyAndValidate
    <2>2. TypeInv' /\ RowsInv' /\ StatusInv'
      BY <1>1, <2>1, NoJobFacts DEF IInv, TypeInv, RowsInv, SoundRow, Entities, Made, StatusInv
    <2>3. failures' = 0 => \A e \in Exchanges, v \in Versions :
                               VersionedExchange(e, v) \in broker' => HasRow(configs', e, v)
      BY <1>1 DEF IInv, OrphanInv, Accounted
    <2> QED
      BY <2>1, <2>2, <2>3, Over
  <1>6. CASE Valid(rows, w)
    <2>1. job' = [job EXCEPT !.view = rows, !.step = "delete"]
      BY <1>6 DEF CopyAndValidate
    <2> HIDE DEF rows
    <2>2. /\ job' \in Job /\ job'.op = "apply" /\ job'.step = "delete" /\ job'.version = w /\ job'.view = rows
          /\ job'.delete = job.delete /\ job'.bind = {} /\ job'.to = job.to
      BY <1>1, <1>2, <1>4, <2>1 DEF Job
    <2>3. TypeInv' /\ RowsInv' /\ StatusInv'
      BY <1>1, <2>2 DEF IInv, TypeInv, RowsInv, SoundRow, Entities, Made, StatusInv
    <2>4. JobInv'
      BY <1>1, <1>2, <1>4, <2>2 DEF JobInv, StepsOf, At, Active
    <2>5. QueuesKept'
      <3>1. ASSUME NEW s \in Services, NEW d \in Entities(rows, <<s, w>>), d[1] = "queue", rows[<<s, w>>].actual # w
            PROVE  rows[<<s, w>>].entities[d] = VersionedQueue(d[2], rows[<<s, w>>].actual)
        <4>1. CASE rows[<<s, w>>] = configs[<<s, Active>>]
          BY <1>3, <3>1, <4>1 DEF IInv, RowsInv, SoundRow, Made, Entities
        <4>2. CASE rows[<<s, w>>] = job.view[<<s, w>>]
          BY <1>1, <3>1, <4>2 DEF IInv, QueuesKept, Entities
        <4> QED
          BY <1>4, <4>1, <4>2
      <3> QED
        BY <2>2, <3>1 DEF QueuesKept
    <2>6. CreateInv' /\ ApplyInv' /\ RouteInv' /\ DropInv'
      BY <2>2 DEF CreateInv, ApplyInv, At, RouteInv, DropInv
    <2>7. \A e : HasRow(job.view, e, w) => HasRow(rows, e, w)
      <3>1. ASSUME NEW e, NEW s \in Services, <<"exchange", e>> \in Entities(job.view, <<s, w>>)
            PROVE  <<"exchange", e>> \in Entities(rows, <<s, w>>)
        BY <1>4, <3>1, RowFacts DEF Entities
      <3> QED
        BY <3>1 DEF HasRow
    <2>8. OrphanInv'
      BY <1>1, <2>2, <2>7 DEF IInv, OrphanInv, Accounted, At, HasRow, Entities
    <2> QED
      BY <2>3, <2>4, <2>5, <2>6, <2>8 DEF IInv
  <1> QED
    BY <1>5, <1>6

\* What is to be made of a version is all that its rows declare of it.
LEMMA ToMakeFacts ==
    ASSUME NEW v
    PROVE  /\ ToCreate(v) \subseteq Services \X Declared /\ ToBind(v) \subseteq Services \X Declared
           /\ \A c \in ToCreate(v) : /\ c[2] \in Entities(Rows, <<c[1], v>>) /\ c[2][1] # "binding"
                                     /\ c[2][1] = "queue" => Rows[<<c[1], v>>].actual = v
           /\ \A c \in ToBind(v) : c[2] \in Entities(Rows, <<c[1], v>>) /\ c[2][1] = "binding"
           /\ \A s \in Services, d \in Declared :
                 d \in Entities(Rows, <<s, v>>) =>
                    /\ d[1] = "exchange" => <<s, d>> \in ToCreate(v)
                    /\ d[1] = "queue" /\ Rows[<<s, v>>].actual = v => <<s, d>> \in ToCreate(v)
                    /\ d[1] = "binding" => <<s, d>> \in ToBind(v)
  BY DEF ToCreate, ToBind

LEMMA DeletionDoneInv ==
    ASSUME IInv, DeletionDone
    PROVE  IInv'
  <1> DEFINE w == job.version
  <1>1. /\ UNCHANGED <<configs, status, broker, links, dropped, failures>> /\ job.op = "apply" /\ job.step = "delete"
        /\ job.delete = {} /\ job' = Creating(job, w)
    BY DEF DeletionDone, At
  <1>2. job \in Job /\ w \in Versions /\ job.bind = {} /\ job.view \in Configs
    BY <1>1 DEF IInv, TypeInv, JobInv
  <1>3. /\ job' \in Job /\ job'.op = "apply" /\ job'.step = "create" /\ job'.version = w /\ job'.view = job.view
        /\ job'.delete = {} /\ job'.bind = {} /\ job'.to = job.to
        /\ job'.create = ToCreate(w) /\ job'.later = ToBind(w)
    BY <1>1, <1>2, ToMakeFacts DEF Job, Creating
  <1>4. TypeInv' /\ RowsInv' /\ StatusInv'
    BY <1>1, <1>3 DEF IInv, TypeInv, RowsInv, SoundRow, Entities, Made, StatusInv
  <1>5. JobInv' /\ QueuesKept'
    BY <1>1, <1>3 DEF IInv, JobInv, StepsOf, At, Active, QueuesKept, Entities
  <1>6. Rows = job.view /\ Rows' = job.view
    BY <1>1, <1>3 DEF Rows
  <1>7. CreateInv'
    BY <1>2, <1>3, <1>6, ToMakeFacts DEF CreateInv, Entities
  <1>8. ApplyInv'
    <2>1. ASSUME NEW s \in Services, NEW d \in Entities(job.view, <<s, w>>) PROVE MadeOrLeft(s, d)'
      <3>1. d \in Declared
        <4>1. job.view[<<s, w>>] \in Row
          BY <1>2 DEF Configs, Keys
        <4> QED
          BY <4>1, RowFacts DEF Entities
      <3> QED
        BY <1>3, <1>6, <2>1, <3>1, ToMakeFacts DEF MadeOrLeft
    <2> QED
      BY <1>3, <2>1 DEF ApplyInv, Entities
  <1>9. RouteInv' /\ DropInv'
    BY <1>3 DEF RouteInv, DropInv
  <1>10. OrphanInv'
    BY <1>1, <1>3 DEF IInv, OrphanInv, Accounted, At, HasRow, Entities
  <1> QED
    BY <1>4, <1>5, <1>7, <1>8, <1>9, <1>10 DEF IInv

LEMMA NextVersionInv ==
    ASSUME IInv, NextVersion
    PROVE  IInv'
  <1>1. UNCHANGED <<configs, status, broker, links, dropped, failures>> /\ job.op = "recover" /\ job.step = "next"
    BY DEF NextVersion, At
  <1>2. PICK v \in job.left : job' = [Creating(job, v) EXCEPT !.left = @ \ {v}]
    BY DEF NextVersion
  <1>3. job \in Job /\ v \in Versions /\ job.bind = {}
    BY <1>1 DEF IInv, TypeInv, JobInv, Job
  <1>4. /\ job' \in Job /\ job'.op = "recover" /\ job'.step = "create" /\ job'.version = v /\ job'.bind = {}
        /\ job'.create = ToCreate(v) /\ job'.later = ToBind(v)
    <2> DEFINE j == Creating(job, v)
    <2>1. /\ j \in Job /\ j.op = "recover" /\ j.step = "create" /\ j.version = v /\ j.bind = {}
          /\ j.create = ToCreate(v) /\ j.later = ToBind(v)
      <3>1. v \in 0..MaxVersion
        BY <1>3 DEF Versions
      <3> QED
        BY <1>1, <1>3, <3>1, ToMakeFacts DEF Job, Creating
    <2> HIDE DEF j
    <2>2. job' = [j EXCEPT !.left = @ \ {v}]
      BY <1>2 DEF j
    <2> QED
      BY <2>1, <2>2 DEF Job
  <1>5. TypeInv' /\ RowsInv' /\ StatusInv'
    BY <1>1, <1>4 DEF IInv, TypeInv, RowsInv, SoundRow, Entities, Made, StatusInv
  <1>6. JobInv' /\ QueuesKept' /\ ApplyInv' /\ RouteInv' /\ DropInv'
    BY <1>1, <1>4 DEF IInv, JobInv, StepsOf, At, QueuesKept, ApplyInv, RouteInv, DropInv
  <1>7. CreateInv'
    <2>1. Rows = configs /\ Rows' = configs
      BY <1>1, <1>4 DEF Rows
    <2> QED
      BY <1>3, <1>4, <2>1, ToMakeFacts DEF CreateInv, Entities
  <1>8. OrphanInv'
    BY <1>1, <1>4 DEF IInv, OrphanInv, Accounted, At, HasRow, Entities
  <1> QED
    BY <1>5, <1>6, <1>7, <1>8 DEF IInv

LEMMA VersionRecoveredInv ==
    ASSUME IInv, VersionRecovered
    PROVE  IInv'
  <1>1. /\ UNCHANGED <<configs, status, broker, links, dropped, failures>> /\ job.op = "recover" /\ job.bind = {}
        /\ job' \in {NoJob, [job EXCEPT !.step = "next"]} /\ job \in Job
    BY DEF VersionRecovered, Created, IInv, TypeInv
  <1>2. failures = 0 => \A e \in Exchanges, v \in Versions :
                            VersionedExchange(e, v) \in broker => HasRow(configs, e, v)
    BY <1>1 DEF IInv, OrphanInv, Accounted
  <1>3. RowsInv' /\ StatusInv'
    BY <1>1 DEF IInv, RowsInv, SoundRow, Entities, Made, StatusInv
  <1>4. CASE job' = NoJob
    <2>1. TypeInv'
      BY <1>1, <1>4, NoJobFacts DEF IInv, TypeInv
    <2> QED
      BY <1>1, <1>2, <1>3, <1>4, <2>1, Over
  <1>5. CASE job' = [job EXCEPT !.step = "next"]
    <2>1. job' \in Job /\ job'.op = "recover" /\ job'.step = "next" /\ job'.bind = {}
      BY <1>1, <1>5 DEF Job
    <2>2. TypeInv'
      BY <1>1, <2>1 DEF IInv, TypeInv
    <2>3. JobInv' /\ QueuesKept' /\ CreateInv' /\ ApplyInv' /\ RouteInv' /\ DropInv'
      BY <1>1, <2>1 DEF IInv, JobInv, StepsOf, At, QueuesKept, CreateInv, ApplyInv, RouteInv, DropInv
    <2>4. OrphanInv'
      BY <1>1, <1>2, <2>1 DEF OrphanInv, Accounted, At, HasRow, Entities
    <2> QED
      BY <1>3, <2>2, <2>3, <2>4 DEF IInv
  <1> QED
    BY <1>1, <1>4, <1>5

\* Recording what was made, in the transaction or in the table.
LEMMA Recorded ==
    ASSUME IInv, job.step = "create", NEW s \in Services, NEW d \in Entities(Rows, <<s, job.version>>),
           NEW made \in Names \cup Links, NEW j \in Job, j.op = job.op, Record(s, d, made, j)
    PROVE  /\ job' \in Job /\ configs' \in Configs /\ Rows \in Configs /\ Rows' \in Configs
           /\ job.op \in {"apply", "recover"} /\ job.version \in Versions
           /\ job' = IF job.op = "apply" THEN [j EXCEPT !.view = Rows'] ELSE j
           /\ job'.op = j.op /\ job'.step = j.step /\ job'.version = j.version /\ job'.to = j.to
           /\ job'.delete = j.delete /\ job'.create = j.create /\ job'.later = j.later /\ job'.bind = j.bind
           /\ job.op = "apply" => job.view = Rows /\ job'.view = Rows' /\ configs' = configs
           /\ job.op = "recover" => configs = Rows /\ configs' = Rows'
           /\ Made(Rows', <<s, job.version>>, d) = made
           /\ \A x \in Keys : /\ Entities(Rows', x) = Entities(Rows, x)
                              /\ Rows'[x].actual = Rows[x].actual
                              /\ x # <<s, job.version>> => Rows'[x] = Rows[x]
                              /\ \A y \in Entities(Rows, x) :
                                    x # <<s, job.version>> \/ y # d => Made(Rows', x, y) = Made(Rows, x, y)
  <1>1. /\ job.op \in {"apply", "recover"} /\ job.version \in Versions /\ configs \in Configs
        /\ job.op = "apply" => job.view \in Configs
    BY DEF IInv, TypeInv, Job, JobInv, StepsOf, CreateInv
  <1>2. Rows \in Configs /\ <<s, job.version>> \in Keys
    BY <1>1 DEF Rows, Keys
  <1> DEFINE new == [Rows EXCEPT ![<<s, job.version>>].entities[d] = made]
  <1>3. /\ job' = IF j.op = "apply" THEN [j EXCEPT !.view = new] ELSE j
        /\ configs' = IF j.op = "apply" THEN configs ELSE new
    BY DEF Record, Put
  <1>9. new = Updated(Rows, <<s, job.version>>, d, made)
    BY DEF Updated
  <1> HIDE DEF new
  <1>4. /\ new \in Configs /\ Made(new, <<s, job.version>>, d) = made
        /\ \A x \in Keys : /\ Entities(new, x) = Entities(Rows, x)
                           /\ new[x].actual = Rows[x].actual
                           /\ x # <<s, job.version>> => new[x] = Rows[x]
                           /\ \A y \in Entities(Rows, x) :
                                 x # <<s, job.version>> \/ y # d => Made(new, x, y) = Made(Rows, x, y)
    BY <1>2, <1>9, RowUpdate
  <1>5. /\ job' \in Job
        /\ job'.op = j.op /\ job'.step = j.step /\ job'.version = j.version /\ job'.to = j.to
        /\ job'.delete = j.delete /\ job'.create = j.create /\ job'.later = j.later /\ job'.bind = j.bind
        /\ job.op = "apply" => job'.view = new
    BY <1>3, <1>4 DEF Job
  <1>6. Rows' = new
    BY <1>1, <1>3, <1>5 DEF Rows
  <1>7. job.op = "apply" => job.view = Rows
    BY DEF Rows
  <1>8. job.op = "recover" => configs = Rows
    BY DEF Rows
  <1> QED
    BY <1>1, <1>2, <1>3, <1>4, <1>5, <1>6, <1>7, <1>8

\* What the creation of one entity keeps, whatever it is.
LEMMA Making ==
    ASSUME IInv, job.step = "create", NEW s \in Services, NEW d \in Entities(Rows, <<s, job.version>>),
           NEW made \in Names \cup Links, NEW j \in Job, Record(s, d, made, j),
           j.op = job.op, j.step = job.step, j.version = job.version, j.to = job.to, j.delete = job.delete,
           UNCHANGED <<status, failures>>,
           d[1] = "exchange" => made = VersionedExchange(d[2], job.version),
           d[1] = "queue" => /\ made = VersionedQueue(d[2], job.version)
                             /\ Rows[<<s, job.version>>].actual = job.version,
           \A e \in Exchanges, v \in Versions :
              VersionedExchange(e, v) \in broker' =>
                 \/ VersionedExchange(e, v) \in broker
                 \/ d = <<"exchange", e>> /\ v = job.version
    PROVE  RowsInv' /\ StatusInv' /\ JobInv' /\ QueuesKept' /\ RouteInv' /\ DropInv' /\ OrphanInv'
  <1> DEFINE w == job.version
  <1>1. /\ job'.op = job.op /\ job'.step = "create" /\ job'.version = w /\ job'.to = job.to
        /\ job'.delete = job.delete /\ job' \in Job
        /\ job.op \in {"apply", "recover"} /\ w \in Versions /\ <<s, w>> \in Keys
        /\ Rows' \in Configs /\ Rows \in Configs
        /\ job.op = "apply" => job.view = Rows /\ job'.view = Rows' /\ configs' = configs
        /\ job.op = "recover" => configs = Rows /\ configs' = Rows'
    BY Recorded DEF Keys
  <1>2. /\ Made(Rows', <<s, w>>, d) = made
        /\ \A x \in Keys : /\ Entities(Rows', x) = Entities(Rows, x)
                           /\ Rows'[x].actual = Rows[x].actual
                           /\ x # <<s, w>> => Rows'[x] = Rows[x]
                           /\ \A y \in Entities(Rows, x) :
                                 x # <<s, w>> \/ y # d => Made(Rows', x, y) = Made(Rows, x, y)
    BY Recorded
  <1>3. RowsInv'
    <2>1. CASE job.op = "apply"
      BY <1>1, <2>1 DEF IInv, RowsInv, SoundRow, Entities, Made
    <2>2. CASE job.op = "recover"
      <3>1. ASSUME NEW k \in Keys, NEW y \in Entities(Rows', k)
            PROVE  /\ y[1] = "exchange" => Made(Rows', k, y) = VersionedExchange(y[2], k[2])
                   /\ y[1] = "queue" => Made(Rows', k, y) = VersionedQueue(y[2], Rows'[k].actual)
        <4>1. y \in Entities(Rows, k)
          BY <1>2
        <4>2. /\ y[1] = "exchange" => Made(Rows, k, y) = VersionedExchange(y[2], k[2])
              /\ y[1] = "queue" => Made(Rows, k, y) = VersionedQueue(y[2], Rows[k].actual)
          BY <1>1, <2>2, <4>1 DEF IInv, RowsInv, SoundRow
        <4>3. CASE k = <<s, w>> /\ y = d
          BY <1>2, <4>3
        <4>4. CASE ~(k = <<s, w>> /\ y = d)
          BY <1>2, <4>1, <4>2, <4>4
        <4> QED
          BY <4>3, <4>4
      <3>2. configs' = Rows'
        BY <1>1, <2>2
      <3> QED
        BY <3>1, <3>2 DEF RowsInv, SoundRow
    <2> QED
      BY <1>1, <2>1, <2>2
  <1>4. StatusInv'
    BY <1>1 DEF IInv, JobInv, StatusInv
  <1>5. JobInv'
    <2>1. CASE job.op = "apply"
      <3>1. \A k \in Keys : k[2] # w => Rows'[k] = Rows[k]
        BY <1>2
      <3>2. Active' = Active
        BY <1>1 DEF Active
      <3> QED
        BY <1>1, <2>1, <3>1, <3>2 DEF IInv, JobInv, StepsOf, At
    <2>2. CASE job.op = "recover"
      BY <1>1, <2>2 DEF IInv, JobInv, StepsOf, At
    <2> QED
      BY <1>1, <2>1, <2>2
  <1>6. QueuesKept'
    <2>1. ASSUME job.op = "apply", NEW t \in Services, NEW y \in Entities(Rows', <<t, w>>), y[1] = "queue",
                 Rows'[<<t, w>>].actual # w
          PROVE  Rows'[<<t, w>>].entities[y] = VersionedQueue(y[2], Rows'[<<t, w>>].actual)
      <3>1. <<t, w>> \in Keys
        BY <1>1 DEF Keys
      <3>2. y \in Entities(Rows, <<t, w>>) /\ Rows[<<t, w>>].actual = Rows'[<<t, w>>].actual
        BY <1>2, <2>1, <3>1
      <3>3. Made(Rows, <<t, w>>, y) = VersionedQueue(y[2], Rows[<<t, w>>].actual)
        BY <1>1, <2>1, <3>2 DEF IInv, QueuesKept, Made
      <3>4. <<t, w>> # <<s, w>> \/ y # d
        BY <2>1, <3>2
      <3>5. Made(Rows', <<t, w>>, y) = Made(Rows, <<t, w>>, y)
        BY <1>2, <3>1, <3>2, <3>4
      <3> QED
        BY <3>2, <3>3, <3>5 DEF Made
    <2> QED
      BY <1>1, <2>1 DEF QueuesKept
  <1>7. RouteInv' /\ DropInv'
    BY <1>1 DEF RouteInv, DropInv
  <1>8. OrphanInv'
    <2>1. \A e \in Exchanges, v \in Versions : HasRow(Rows, e, v) => HasRow(Rows', e, v)
      BY <1>2 DEF HasRow, Keys
    <2>2. ASSUME NEW e, d = <<"exchange", e>> PROVE HasRow(Rows', e, w)
      BY <1>1, <1>2, <2>2 DEF HasRow
    <2>3. ASSUME failures = 0, NEW e \in Exchanges, NEW v \in Versions, VersionedExchange(e, v) \in broker'
          PROVE  Accounted(e, v)'
      <3>1. CASE VersionedExchange(e, v) \in broker
        <4>1. Accounted(e, v)
          BY <2>3, <3>1 DEF IInv, OrphanInv
        <4>2. CASE job.op = "apply"
          <5>1. HasRow(configs, e, v) => HasRow(configs', e, v)
            BY <1>1, <4>2 DEF HasRow
          <5>2. HasRow(job.view, e, v) => HasRow(job'.view, e, v)
            BY <1>1, <2>1, <4>2 DEF HasRow
          <5> QED
            BY <1>1, <4>1, <4>2, <5>1, <5>2 DEF Accounted
        <4>3. CASE job.op = "recover"
          <5>1. HasRow(configs, e, v) => HasRow(configs', e, v)
            BY <1>1, <2>1, <4>3 DEF HasRow
          <5> QED
            BY <1>1, <4>1, <4>3, <5>1 DEF Accounted
        <4> QED
          BY <1>1, <4>2, <4>3
      <3>2. CASE d = <<"exchange", e>> /\ v = w
        <4>1. HasRow(Rows', e, v)
          BY <2>2, <3>2
        <4> QED
          BY <1>1, <3>2, <4>1 DEF Accounted
      <3> QED
        BY <2>3, <3>1, <3>2
    <2> QED
      BY <1>1, <2>3 DEF IInv, OrphanInv, At
  <1> QED
    BY <1>3, <1>4, <1>5, <1>6, <1>7, <1>8

\* What there is to make of the version, and what the rows say of it.
LEMMA CreationFacts ==
    ASSUME IInv, job.step = "create"
    PROVE  /\ job \in Job /\ job.op \in {"apply", "recover"} /\ job.version \in Versions
           /\ Rows \in Configs /\ (job.op = "apply" => job.view = Rows)
           /\ job.create \subseteq Services \X Declared /\ job.later \subseteq Services \X Declared
           /\ \A c \in job.create :
                 /\ c[2] \in Entities(Rows, <<c[1], job.version>>) /\ c[2][1] # "binding"
                 /\ c[2][1] = "queue" => Rows[<<c[1], job.version>>].actual = job.version
           /\ \A c \in job.later : c[2] \in Entities(Rows, <<c[1], job.version>>) /\ c[2][1] = "binding"
  <1>1. job \in Job /\ job.op \in {"apply", "recover"} /\ job.version \in Versions
    BY DEF IInv, TypeInv, Job, JobInv, StepsOf, CreateInv
  <1>2. Rows \in Configs
    BY <1>1 DEF IInv, TypeInv, JobInv, Rows
  <1>3. job.op = "apply" => job.view = Rows
    BY DEF Rows
  <1> QED
    BY <1>1, <1>2, <1>3, JobFacts DEF IInv, CreateInv

LEMMA CreateExchangeInv ==
    ASSUME IInv, job.step = "create", job.bind = {}, NEW s \in Services, NEW d \in Declared,
           <<s, d>> \in job.create, CreateExchange(s, d), UNCHANGED <<status, dropped, failures>>
    PROVE  IInv'
  <1> DEFINE w == job.version
             e == d[2]
             old == IF Alternate(e) \in broker THEN {} ELSE {Router(e)}
             made == VersionedExchange(e, w)
             j == [job EXCEPT !.create = @ \ {<<s, d>>}, !.bind = {e}]
  <1>1. /\ job \in Job /\ job.op \in {"apply", "recover"} /\ w \in Versions
        /\ Rows \in Configs /\ (job.op = "apply" => job.view = Rows)
        /\ d \in Entities(Rows, <<s, w>>)
        /\ \A c \in job.create :
              /\ c[2] \in Entities(Rows, <<c[1], w>>) /\ c[2][1] # "binding"
              /\ c[2][1] = "queue" => Rows[<<c[1], w>>].actual = w
        /\ \A c \in job.later : c[2] \in Entities(Rows, <<c[1], w>>) /\ c[2][1] = "binding"
    BY CreationFacts
  <1>2. d = <<"exchange", e>> /\ e \in Exchanges
    BY DeclaredFacts DEF CreateExchange
  <1>3. Router(e) \in Names /\ Alternate(e) \in Names /\ made \in Names
    BY <1>1, <1>2, NameFacts
  <1>4. /\ broker' = broker \cup {Router(e), Alternate(e), made}
        /\ links' = {l \in links : l[1] \notin old}
        /\ Record(s, d, made, j)
    BY DEF CreateExchange
  <1>5. /\ j \in Job /\ j.op = job.op /\ j.step = "create" /\ j.version = w /\ j.to = job.to
        /\ j.delete = job.delete /\ j.later = job.later
        /\ j.create = job.create \ {<<s, d>>} /\ j.bind = {e}
    BY <1>1, <1>2 DEF Job
  <1> HIDE DEF j
  <1>6. /\ job' \in Job /\ configs' \in Configs /\ job'.op = job.op /\ job'.step = "create" /\ job'.version = w
        /\ job'.create = j.create /\ job'.later = job.later /\ job'.bind = {e}
        /\ job.op = "apply" => job'.view = Rows'
    BY <1>1, <1>3, <1>4, <1>5, Recorded
  <1>7. /\ Made(Rows', <<s, w>>, d) = made
        /\ \A x \in Keys : /\ Entities(Rows', x) = Entities(Rows, x)
                           /\ Rows'[x].actual = Rows[x].actual
                           /\ x # <<s, w>> => Rows'[x] = Rows[x]
                           /\ \A y \in Entities(Rows, x) :
                                 x # <<s, w>> \/ y # d => Made(Rows', x, y) = Made(Rows, x, y)
    BY <1>1, <1>3, <1>4, <1>5, Recorded
  <1>8. \A x \in Exchanges, v \in Versions :
           VersionedExchange(x, v) \in broker' =>
              VersionedExchange(x, v) \in broker \/ (d = <<"exchange", x>> /\ v = w)
    BY <1>2, <1>4 DEF VersionedExchange, Router, Alternate
  <1>9. RowsInv' /\ StatusInv' /\ JobInv' /\ QueuesKept' /\ RouteInv' /\ DropInv' /\ OrphanInv'
    BY <1>1, <1>2, <1>3, <1>4, <1>5, <1>8, Making
  <1>10. TypeInv'
    BY <1>3, <1>4, <1>6 DEF IInv, TypeInv
  <1>11. CreateInv'
    <2>1. \A c \in job.create : <<c[1], w>> \in Keys
      BY <1>1 DEF Job, Keys
    <2>2. \A c \in job.later : <<c[1], w>> \in Keys
      BY <1>1 DEF Job, Keys
    <2> QED
      BY <1>1, <1>4, <1>5, <1>6, <1>7, <2>1, <2>2 DEF CreateInv
  <1>12. ApplyInv'
    <2>1. ASSUME job.op = "apply", NEW t \in Services, NEW y \in Entities(Rows', <<t, w>>) PROVE MadeOrLeft(t, y)'
      <3>1. <<t, w>> \in Keys
        BY <1>1 DEF Keys
      <3>2. y \in Entities(Rows, <<t, w>>) /\ Rows[<<t, w>>].actual = Rows'[<<t, w>>].actual
        BY <1>7, <2>1, <3>1
      <3>3. MadeOrLeft(t, y)
        BY <1>1, <2>1, <3>2 DEF IInv, ApplyInv, At
      <3>4. CASE t = s /\ y = d
        BY <1>2, <1>4, <1>6, <1>7, <2>1, <3>4 DEF MadeOrLeft, Made
      <3>5. CASE ~(t = s /\ y = d)
        <4>1. Made(Rows', <<t, w>>, y) = Made(Rows, <<t, w>>, y) /\ job.view = Rows /\ job'.view = Rows'
          BY <1>1, <1>6, <1>7, <2>1, <3>1, <3>2, <3>5
        <4>2. <<t, y>> \in job.create => <<t, y>> \in job'.create
          BY <1>5, <1>6, <3>5
        <4>3. \A x : Alternate(x) \in broker => Router(x) \notin old
          BY DEF Router, Alternate
        <4>4. y[1] = "exchange" => MadeOrLeft(t, y)'
          <5>1. ASSUME y[1] = "exchange", <<t, y>> \notin job'.create
                PROVE  /\ job'.view[<<t, w>>].entities[y] = VersionedExchange(y[2], w)
                       /\ {Router(y[2]), Alternate(y[2]), VersionedExchange(y[2], w)} \subseteq broker'
                       /\ <<Router(y[2]), VersionedExchange(y[2], w)>> \in links'
            <6>1. /\ job.view[<<t, w>>].entities[y] = VersionedExchange(y[2], w)
                  /\ {Router(y[2]), Alternate(y[2]), VersionedExchange(y[2], w)} \subseteq broker
                  /\ <<Router(y[2]), VersionedExchange(y[2], w)>> \in links
              BY <3>3, <4>2, <5>1 DEF MadeOrLeft
            <6> QED
              BY <1>4, <4>1, <4>3, <6>1 DEF Made
          <5> QED
            BY <1>6, <5>1 DEF MadeOrLeft
        <4>5. y[1] = "queue" => MadeOrLeft(t, y)'
          BY <1>4, <1>6, <3>2, <3>3, <4>1, <4>2 DEF MadeOrLeft, Made
        <4>6. y[1] = "binding" => <<t, y>> \in job.later
          BY <3>3 DEF MadeOrLeft
        <4> QED
          BY <1>6, <4>4, <4>5, <4>6 DEF MadeOrLeft
      <3> QED
        BY <3>4, <3>5
    <2> QED
      BY <1>6, <2>1 DEF ApplyInv, At
  <1> QED
    BY <1>9, <1>10, <1>11, <1>12 DEF IInv

LEMMA CreateQueueInv ==
    ASSUME IInv, job.step = "create", job.bind = {}, NEW s \in Services, NEW d \in Declared,
           <<s, d>> \in job.create, CreateQueue(s, d), UNCHANGED <<status, dropped, failures>>
    PROVE  IInv'
  <1> DEFINE w == job.version
             made == VersionedQueue(d[2], w)
             j == [job EXCEPT !.create = @ \ {<<s, d>>}]
  <1>1. /\ job \in Job /\ job.op \in {"apply", "recover"} /\ w \in Versions
        /\ Rows \in Configs /\ (job.op = "apply" => job.view = Rows)
        /\ d \in Entities(Rows, <<s, w>>)
        /\ \A c \in job.create :
              /\ c[2] \in Entities(Rows, <<c[1], w>>) /\ c[2][1] # "binding"
              /\ c[2][1] = "queue" => Rows[<<c[1], w>>].actual = w
        /\ \A c \in job.later : c[2] \in Entities(Rows, <<c[1], w>>) /\ c[2][1] = "binding"
    BY CreationFacts
  <1>2. d[1] = "queue" /\ Rows[<<s, w>>].actual = w
    BY <1>1 DEF CreateQueue
  <1>3. made \in Names
    BY <1>1, <1>2, NameFacts
  <1>4. broker' = broker \cup {made} /\ links' = links /\ Record(s, d, made, j)
    BY DEF CreateQueue
  <1>5. /\ j \in Job /\ j.op = job.op /\ j.step = "create" /\ j.version = w /\ j.to = job.to
        /\ j.delete = job.delete /\ j.later = job.later
        /\ j.create = job.create \ {<<s, d>>} /\ j.bind = {}
    BY <1>1 DEF Job
  <1> HIDE DEF j
  <1>6. /\ job' \in Job /\ configs' \in Configs /\ job'.op = job.op /\ job'.step = "create" /\ job'.version = w
        /\ job'.create = j.create /\ job'.later = job.later /\ job'.bind = {}
        /\ job.op = "apply" => job'.view = Rows'
    BY <1>1, <1>3, <1>4, <1>5, Recorded
  <1>7. /\ Made(Rows', <<s, w>>, d) = made
        /\ \A x \in Keys : /\ Entities(Rows', x) = Entities(Rows, x)
                           /\ Rows'[x].actual = Rows[x].actual
                           /\ x # <<s, w>> => Rows'[x] = Rows[x]
                           /\ \A y \in Entities(Rows, x) :
                                 x # <<s, w>> \/ y # d => Made(Rows', x, y) = Made(Rows, x, y)
    BY <1>1, <1>3, <1>4, <1>5, Recorded
  <1>8. \A x \in Exchanges, v \in Versions :
           VersionedExchange(x, v) \in broker' => VersionedExchange(x, v) \in broker
    BY <1>4 DEF VersionedExchange, VersionedQueue
  <1>9. RowsInv' /\ StatusInv' /\ JobInv' /\ QueuesKept' /\ RouteInv' /\ DropInv' /\ OrphanInv'
    BY <1>1, <1>2, <1>3, <1>4, <1>5, <1>8, Making
  <1>10. TypeInv'
    BY <1>3, <1>4, <1>6 DEF IInv, TypeInv
  <1>11. CreateInv'
    <2>1. \A c \in job.create : <<c[1], w>> \in Keys
      BY <1>1 DEF Job, Keys
    <2>2. \A c \in job.later : <<c[1], w>> \in Keys
      BY <1>1 DEF Job, Keys
    <2> QED
      BY <1>1, <1>4, <1>5, <1>6, <1>7, <2>1, <2>2 DEF CreateInv
  <1>12. ApplyInv'
    <2>1. ASSUME job.op = "apply", NEW t \in Services, NEW y \in Entities(Rows', <<t, w>>) PROVE MadeOrLeft(t, y)'
      <3>1. <<t, w>> \in Keys
        BY <1>1 DEF Keys
      <3>2. y \in Entities(Rows, <<t, w>>) /\ Rows[<<t, w>>].actual = Rows'[<<t, w>>].actual
        BY <1>7, <2>1, <3>1
      <3>3. MadeOrLeft(t, y)
        BY <1>1, <2>1, <3>2 DEF IInv, ApplyInv, At
      <3>4. CASE t = s /\ y = d
        BY <1>2, <1>4, <1>6, <1>7, <2>1, <3>4 DEF MadeOrLeft, Made
      <3>5. CASE ~(t = s /\ y = d)
        <4>1. Made(Rows', <<t, w>>, y) = Made(Rows, <<t, w>>, y) /\ job.view = Rows /\ job'.view = Rows'
          BY <1>1, <1>6, <1>7, <2>1, <3>1, <3>2, <3>5
        <4>2. <<t, y>> \in job.create => <<t, y>> \in job'.create
          BY <1>5, <1>6, <3>5
        <4>3. y[1] = "exchange" => MadeOrLeft(t, y)'
          BY <1>4, <1>6, <3>2, <3>3, <4>1, <4>2 DEF MadeOrLeft, Made
        <4>4. y[1] = "queue" => MadeOrLeft(t, y)'
          BY <1>4, <1>6, <3>2, <3>3, <4>1, <4>2 DEF MadeOrLeft, Made
        <4>5. y[1] = "binding" => <<t, y>> \in job.later
          BY <3>3 DEF MadeOrLeft
        <4> QED
          BY <1>6, <4>3, <4>4, <4>5 DEF MadeOrLeft
      <3> QED
        BY <3>4, <3>5
    <2> QED
      BY <1>6, <2>1 DEF ApplyInv, At
  <1> QED
    BY <1>9, <1>10, <1>11, <1>12 DEF IInv

LEMMA CreateEntitiesInv ==
    ASSUME IInv, CreateEntities
    PROVE  IInv'
  <1>1. PICK c \in job.create : CreateExchange(c[1], c[2]) \/ CreateQueue(c[1], c[2])
    BY DEF CreateEntities
  <1>2. job.step = "create" /\ job.bind = {} /\ UNCHANGED <<status, dropped, failures>>
    BY DEF CreateEntities
  <1>3. c[1] \in Services /\ c[2] \in Declared /\ <<c[1], c[2]>> \in job.create
    BY JobFacts DEF IInv, TypeInv
  <1> QED
    BY <1>1, <1>2, <1>3, CreateExchangeInv, CreateQueueInv

LEMMA BindExchangeInv ==
    ASSUME IInv, BindExchange
    PROVE  IInv'
  <1> DEFINE w == job.version
  <1>1. PICK e \in job.bind :
           links' = links \cup {<<Router(e), VersionedExchange(e, w)>>}
                          \cup IF w = 1 THEN {<<Alternate(e), VersionedExchange(e, w)>>} ELSE {}
    BY DEF BindExchange
  <1>2. /\ job.step = "create" /\ job' = [job EXCEPT !.bind = {}]
        /\ UNCHANGED <<configs, status, broker, dropped, failures>>
    BY DEF BindExchange
  <1>3. /\ job \in Job /\ job.op \in {"apply", "recover"} /\ w \in Versions
        /\ \A f \in job.bind : f = e
        /\ {Router(e), Alternate(e), VersionedExchange(e, w)} \subseteq broker
    BY <1>2, CreationFacts DEF IInv, CreateInv
  <1>4. /\ job' \in Job /\ job'.op = job.op /\ job'.step = "create" /\ job'.version = w /\ job'.view = job.view
        /\ job'.create = job.create /\ job'.later = job.later /\ job'.bind = {} /\ job'.delete = job.delete
        /\ job'.to = job.to
    BY <1>2, <1>3 DEF Job
  <1>5. links \subseteq links' /\ <<Router(e), VersionedExchange(e, w)>> \in links'
        /\ \A l \in links' : l \in links \/ l \in {<<Router(e), VersionedExchange(e, w)>>,
                                                   <<Alternate(e), VersionedExchange(e, w)>>}
    BY <1>1
  <1>6. TypeInv'
    <2>1. ASSUME NEW l \in links' PROVE l \in Links /\ {l[1], l[2]} \subseteq broker
      <3>1. broker \subseteq Names
        BY DEF IInv, TypeInv
      <3> QED
        BY <1>3, <1>5, <3>1 DEF IInv, TypeInv, Links
    <2> QED
      BY <1>2, <1>4, <2>1 DEF IInv, TypeInv
  <1>7. RowsInv' /\ StatusInv' /\ JobInv' /\ QueuesKept'
    BY <1>2, <1>3, <1>4 DEF IInv, RowsInv, SoundRow, Entities, Made, StatusInv, JobInv, StepsOf, At, Active, QueuesKept
  <1>8. CreateInv'
    <2>1. Rows' = Rows
      BY <1>2, <1>4 DEF Rows
    <2> QED
      BY <1>2, <1>3, <1>4, <2>1 DEF IInv, CreateInv, Entities
  <1>9. ApplyInv'
    <2>1. ASSUME job.op = "apply", NEW t \in Services, NEW y \in Entities(job.view, <<t, w>>) PROVE MadeOrLeft(t, y)'
      <3>1. MadeOrLeft(t, y)
        BY <1>2, <2>1 DEF IInv, ApplyInv, At
      <3> QED
        BY <1>2, <1>3, <1>4, <1>5, <3>1 DEF MadeOrLeft
    <2> QED
      BY <1>4, <2>1 DEF ApplyInv, At, Entities
  <1>10. RouteInv' /\ DropInv' /\ OrphanInv'
    BY <1>2, <1>3, <1>4 DEF IInv, RouteInv, DropInv, OrphanInv, Accounted, At, HasRow, Entities
  <1> QED
    BY <1>6, <1>7, <1>8, <1>9, <1>10 DEF IInv

LEMMA CreateBindingInv ==
    ASSUME IInv, CreateBinding
    PROVE  IInv'
  <1> DEFINE w == job.version
  <1>1. /\ job.step = "create" /\ job.bind = {} /\ job.create = {}
        /\ UNCHANGED <<status, broker, dropped, failures>>
    BY DEF CreateBinding
  <1>2. PICK c \in job.later :
           LET s == c[1]
               d == c[2]
               link == <<VersionedExchange(d[2], w), VersionedQueue(d[3], Rows[<<s, w>>].actual)>>
               rest == [job EXCEPT !.later = @ \ {c}]
           IN
           IF {link[1], link[2]} \subseteq broker
              THEN links' = links \cup {link} /\ Record(s, d, link, rest)
              ELSE job' = rest /\ UNCHANGED <<links, configs>>
    BY DEF CreateBinding
  <1> DEFINE s == c[1]
             d == c[2]
             link == <<VersionedExchange(d[2], w), VersionedQueue(d[3], Rows[<<s, w>>].actual)>>
             j == [job EXCEPT !.later = @ \ {c}]
  <1>3. /\ job \in Job /\ job.op \in {"apply", "recover"} /\ w \in Versions
        /\ Rows \in Configs /\ (job.op = "apply" => job.view = Rows)
        /\ s \in Services /\ d \in Declared /\ d \in Entities(Rows, <<s, w>>) /\ d[1] = "binding"
        /\ c = <<s, d>>
        /\ \A x \in job.later : x[2] \in Entities(Rows, <<x[1], w>>) /\ x[2][1] = "binding"
    BY <1>1, CreationFacts
  <1>4. /\ j \in Job /\ j.op = job.op /\ j.step = "create" /\ j.version = w /\ j.to = job.to
        /\ j.delete = job.delete /\ j.later = job.later \ {<<s, d>>} /\ j.view = job.view
        /\ j.create = {} /\ j.bind = {}
    BY <1>1, <1>3 DEF Job
  <1>5. link[1] = VersionedExchange(d[2], w) /\ link[2] = VersionedQueue(d[3], Rows[<<s, w>>].actual)
    OBVIOUS
  <1>6. CASE ~({link[1], link[2]} \subseteq broker)
    <2>1. job' = j /\ UNCHANGED <<links, configs>>
      BY <1>2, <1>6
    <2> HIDE DEF j, link
    <2>2. TypeInv' /\ RowsInv' /\ StatusInv'
      BY <1>1, <1>4, <2>1 DEF IInv, TypeInv, RowsInv, SoundRow, Entities, Made, StatusInv
    <2>3. JobInv' /\ QueuesKept'
      BY <1>1, <1>3, <1>4, <2>1 DEF IInv, JobInv, StepsOf, At, Active, QueuesKept, Entities
    <2>4. CreateInv'
      <3>1. Rows' = Rows
        BY <1>4, <2>1 DEF Rows
      <3> QED
        BY <1>3, <1>4, <2>1, <3>1 DEF CreateInv, Entities
    <2>5. ApplyInv'
      <3>1. ASSUME job.op = "apply", NEW t \in Services, NEW y \in Entities(job.view, <<t, w>>)
            PROVE  MadeOrLeft(t, y)'
        <4>1. MadeOrLeft(t, y)
          BY <1>1, <3>1 DEF IInv, ApplyInv, At
        <4>2. CASE t = s /\ y = d
          BY <1>1, <1>3, <1>4, <1>5, <1>6, <2>1, <3>1, <4>1, <4>2 DEF MadeOrLeft
        <4>3. CASE ~(t = s /\ y = d)
          <5>1. <<t, y>> \in job.later => <<t, y>> \in job'.later
            BY <1>4, <2>1, <4>3
          <5> QED
            BY <1>1, <1>4, <2>1, <4>1, <5>1 DEF MadeOrLeft
        <4> QED
          BY <4>2, <4>3
      <3> QED
        BY <1>4, <2>1, <3>1 DEF ApplyInv, At, Entities
    <2>6. RouteInv' /\ DropInv' /\ OrphanInv'
      BY <1>1, <1>3, <1>4, <2>1 DEF IInv, RouteInv, DropInv, OrphanInv, Accounted, At, HasRow, Entities
    <2> QED
      BY <2>2, <2>3, <2>4, <2>5, <2>6 DEF IInv
  <1>7. CASE {link[1], link[2]} \subseteq broker
    <2>1. links' = links \cup {link} /\ Record(s, d, link, j)
      BY <1>2, <1>7
    <2>2. link \in Links
      BY <1>7 DEF IInv, TypeInv, Links
    <2> HIDE DEF j
    <2>3. /\ job' \in Job /\ configs' \in Configs /\ job'.op = job.op /\ job'.step = "create" /\ job'.version = w
          /\ job'.create = {} /\ job'.later = job.later \ {<<s, d>>} /\ job'.bind = {}
          /\ job.op = "apply" => job'.view = Rows'
      BY <1>1, <1>3, <1>4, <2>1, <2>2, Recorded
    <2>4. /\ Made(Rows', <<s, w>>, d) = link
          /\ \A x \in Keys : /\ Entities(Rows', x) = Entities(Rows, x)
                             /\ Rows'[x].actual = Rows[x].actual
                             /\ x # <<s, w>> => Rows'[x] = Rows[x]
                             /\ \A y \in Entities(Rows, x) :
                                   x # <<s, w>> \/ y # d => Made(Rows', x, y) = Made(Rows, x, y)
      BY <1>1, <1>3, <1>4, <2>1, <2>2, Recorded
    <2>5. RowsInv' /\ StatusInv' /\ JobInv' /\ QueuesKept' /\ RouteInv' /\ DropInv' /\ OrphanInv'
      BY <1>1, <1>3, <1>4, <2>1, <2>2, Making
    <2>6. TypeInv'
      BY <1>1, <1>7, <2>1, <2>2, <2>3 DEF IInv, TypeInv
    <2>7. CreateInv'
      <3>1. \A x \in job.later : <<x[1], w>> \in Keys
        BY <1>3 DEF Job, Keys
      <3> QED
        BY <1>3, <2>3, <2>4, <3>1 DEF CreateInv
    <2>8. ApplyInv'
      <3>1. ASSUME job.op = "apply", NEW t \in Services, NEW y \in Entities(Rows', <<t, w>>) PROVE MadeOrLeft(t, y)'
        <4>1. <<t, w>> \in Keys
          BY <1>3 DEF Keys
        <4>2. y \in Entities(Rows, <<t, w>>) /\ Rows[<<t, w>>].actual = Rows'[<<t, w>>].actual
          BY <2>4, <3>1, <4>1
        <4>3. MadeOrLeft(t, y)
          BY <1>1, <1>3, <3>1, <4>2 DEF IInv, ApplyInv, At
        <4>4. CASE t = s /\ y = d
          <5>1. job'.view[<<s, w>>].entities[d] = link /\ link \in links'
            BY <2>1, <2>3, <2>4, <3>1 DEF Made
          <5>2. job'.view[<<s, w>>].actual = Rows[<<s, w>>].actual
            BY <2>3, <3>1, <4>2, <4>4
          <5> QED
            BY <1>3, <2>3, <4>4, <5>1, <5>2 DEF MadeOrLeft
        <4>5. CASE ~(t = s /\ y = d)
          <5>1. Made(Rows', <<t, w>>, y) = Made(Rows, <<t, w>>, y) /\ job.view = Rows /\ job'.view = Rows'
            BY <1>3, <2>3, <2>4, <3>1, <4>1, <4>2, <4>5
          <5>2. <<t, y>> \in job.later => <<t, y>> \in job'.later
            BY <2>3, <4>5
          <5> HIDE DEF link
          <5> QED
            BY <1>1, <2>1, <2>3, <4>2, <4>3, <5>1, <5>2 DEF MadeOrLeft, Made
        <4> QED
          BY <4>4, <4>5
      <3> QED
        BY <2>3, <3>1 DEF ApplyInv, At
    <2> QED
      BY <2>5, <2>6, <2>7, <2>8 DEF IInv
  <1> QED
    BY <1>6, <1>7

LEMMA CommitInv ==
    ASSUME IInv, Commit
    PROVE  IInv'
  <1> DEFINE w == job.version
  <1>1. /\ job.op = "apply" /\ job.step = "create" /\ job.create = {} /\ job.later = {} /\ job.bind = {}
        /\ configs' = job.view /\ job' = NoJob /\ UNCHANGED <<broker, links, dropped, failures>>
        /\ status' = IF job.to = NoStatus THEN status ELSE job.to
    BY DEF Commit, Created
  <1>2. /\ job \in Job /\ job.view \in Configs /\ Active \in Versions
        /\ \A k \in Keys : k[2] # w => job.view[k] = configs[k]
    BY <1>1 DEF IInv, TypeInv, JobInv
  <1>3. status' \in Statuses /\ status'.active \in Versions
    BY <1>1, <1>2 DEF IInv, TypeInv, Job, Active
  <1>4. TypeInv'
    BY <1>1, <1>2, <1>3, NoJobFacts DEF IInv, TypeInv
  <1>5. StatusInv'
    BY <1>3, NoJobFacts DEF StatusInv, Versions
  <1>6. RowsInv'
    <2>1. ASSUME NEW k \in Keys, k[2] # w PROVE SoundRow(job.view, k)
      BY <1>2, <2>1 DEF IInv, RowsInv, SoundRow, Entities, Made
    <2>2. ASSUME NEW k \in Keys, k[2] = w, NEW d \in Entities(job.view, k)
          PROVE  /\ d[1] = "exchange" => Made(job.view, k, d) = VersionedExchange(d[2], k[2])
                 /\ d[1] = "queue" => Made(job.view, k, d) = VersionedQueue(d[2], job.view[k].actual)
      <3>1. PICK s \in Services : k = <<s, w>>
        BY <2>2 DEF Keys
      <3>2. MadeOrLeft(s, d)
        BY <1>1, <2>2, <3>1 DEF IInv, ApplyInv, At
      <3>3. d[1] = "queue" /\ job.view[k].actual # w => Made(job.view, k, d) = VersionedQueue(d[2], job.view[k].actual)
        BY <1>1, <2>2, <3>1 DEF IInv, QueuesKept, Made
      <3> QED
        BY <1>1, <3>1, <3>2, <3>3 DEF MadeOrLeft, Made
    <2> QED
      BY <1>1, <2>1, <2>2 DEF RowsInv, SoundRow
  <1>7. ASSUME failures' = 0, NEW e \in Exchanges, NEW v \in Versions, VersionedExchange(e, v) \in broker'
        PROVE  HasRow(configs', e, v)
    <2>1. Accounted(e, v) /\ job.delete = {}
      BY <1>1, <1>7 DEF IInv, OrphanInv, At
    <2>2. CASE v = w
      BY <1>1, <2>1, <2>2 DEF Accounted
    <2>3. CASE v # w
      <3>1. HasRow(configs, e, v)
        BY <1>1, <2>1, <2>3 DEF Accounted
      <3> QED
        BY <1>1, <1>2, <2>3, <3>1 DEF HasRow, Entities, Keys
    <2> QED
      BY <2>2, <2>3
  <1> QED
    BY <1>1, <1>4, <1>5, <1>6, <1>7, Over

LEMMA DeleteEntityInv ==
    ASSUME IInv, DeleteEntity
    PROVE  IInv'
  <1>1. job.step = "delete" /\ UNCHANGED <<configs, status, dropped, failures>>
    BY DEF DeleteEntity
  <1>2. PICK n \in job.delete :
           /\ broker' = broker \ Gone(n)
           /\ links' = {l \in links \ {n} : {l[1], l[2]} \cap Gone(n) = {}}
           /\ job' = [job EXCEPT !.delete = @ \ {n}]
    BY DEF DeleteEntity
  <1>3. job \in Job /\ job.op \in {"apply", "status"} /\ n \in Names \cup Links
    BY <1>1, JobFacts DEF IInv, TypeInv, Job, JobInv, StepsOf
  <1>4. /\ job' \in Job /\ job'.op = job.op /\ job'.step = "delete" /\ job'.version = job.version
        /\ job'.to = job.to /\ job'.view = job.view /\ job'.delete = job.delete \ {n} /\ job'.left = job.left
        /\ job'.bind = job.bind /\ job'.failed = job.failed
    BY <1>1, <1>2, <1>3 DEF Job
  <1>5. TypeInv' /\ RowsInv' /\ StatusInv'
    BY <1>1, <1>2, <1>4 DEF IInv, TypeInv, RowsInv, SoundRow, Entities, Made, StatusInv
  <1>6. JobInv' /\ QueuesKept' /\ CreateInv' /\ ApplyInv'
    BY <1>1, <1>3, <1>4 DEF IInv, JobInv, StepsOf, At, Active, QueuesKept, Entities, CreateInv, ApplyInv
  <1>7. DropInv'
    BY <1>1, <1>4 DEF IInv, DropInv, Used, Entities
  <1>8. \A e, v : VersionedExchange(e, v) \in broker' => VersionedExchange(e, v) \in broker /\ VersionedExchange(e, v) # n
    <2>1. ASSUME NEW e, NEW v PROVE Len(VersionedExchange(e, v)) = 3
      BY DEF VersionedExchange
    <2>2. \A e, v : n = VersionedExchange(e, v) => n \in Gone(n)
      BY <2>1 DEF Gone
    <2> QED
      BY <1>2, <2>2
  <1>9. RouteInv'
    <2>1. ASSUME job.op = "status", job.failed = FALSE, job.to.active # status.active, NEW e \in Routers'
          PROVE  Routed(e)'
      <3>1. e \in Routers /\ {Router(e), Alternate(e)} \subseteq broker'
        BY <1>2, <2>1 DEF Routers
      <3>2. Routed(e)
        BY <1>1, <2>1, <3>1 DEF IInv, RouteInv
      <3>3. n \in Names
        BY <2>1 DEF IInv, DropInv
      <3>4. \A l \in links' : l \in links
        BY <1>2
      <3>5. ASSUME NEW x, x \in broker', <<Alternate(e), x>> \in links PROVE <<Alternate(e), x>> \in links'
        <4>1. <<Alternate(e), x>> # n
          <5>1. n = <<n[1], n[2], n[3]>>
            BY <3>3, NameFacts
          <5>2. \A a, b, c, y, z : <<a, b, c>> # <<y, z>>
            OBVIOUS
          <5> QED
            BY <5>1, <5>2
        <4>2. {Alternate(e), x} \cap Gone(n) = {}
          BY <1>2, <3>1, <3>5
        <4> QED
          BY <1>2, <3>5, <4>1, <4>2
      <3> QED
        BY <1>2, <1>4, <3>2, <3>4, <3>5 DEF Routed, Bound
    <2>2. job.failed \in BOOLEAN /\ (job.op = "status" => ~job.failed)
      BY <1>1, <1>3, JobFacts DEF IInv, RouteInv
    <2>3. job.op = "status" => job.failed = FALSE
      BY <2>2, Zenon
    <2> QED
      BY <1>1, <1>4, <2>1, <2>3 DEF RouteInv
  <1>10. OrphanInv'
    <2>1. ASSUME failures = 0, NEW e \in Exchanges, NEW v \in Versions, VersionedExchange(e, v) \in broker'
          PROVE  Accounted(e, v)'
      <3>1. Accounted(e, v) /\ VersionedExchange(e, v) # n
        BY <1>8, <2>1 DEF IInv, OrphanInv
      <3> QED
        BY <1>1, <1>3, <1>4, <3>1 DEF Accounted, HasRow, Entities
    <2> QED
      BY <1>1, <1>4, <2>1 DEF OrphanInv, At
  <1> QED
    BY <1>5, <1>6, <1>7, <1>9, <1>10 DEF IInv

-----------------------------------------------------------------------------
(* The steps of a new status                                               *)

LEMMA ListRoutersInv ==
    ASSUME IInv, ListRouters
    PROVE  IInv'
  <1>1. /\ job.op = "status" /\ job.step = "list" /\ UNCHANGED <<configs, status, broker, links, dropped, failures>>
        /\ job' = [job EXCEPT !.routers = Routers, !.step = "route"] /\ job \in Job
    BY DEF ListRouters, At, IInv, TypeInv
  <1>2. /\ job' \in Job /\ job'.op = "status" /\ job'.step = "route" /\ job'.version = job.version
        /\ job'.to = job.to /\ job'.delete = job.delete /\ job'.bind = job.bind /\ job'.failed = job.failed
        /\ job'.routers = Routers /\ job.bind = {}
    BY <1>1 DEF Job, Routers, IInv, JobInv
  <1>3. TypeInv' /\ RowsInv' /\ StatusInv'
    BY <1>1, <1>2 DEF IInv, TypeInv, RowsInv, SoundRow, Entities, Made, StatusInv
  <1>4. JobInv' /\ QueuesKept' /\ CreateInv' /\ ApplyInv'
    BY <1>1, <1>2 DEF IInv, JobInv, StepsOf, At, QueuesKept, CreateInv, ApplyInv, Routers
  <1>5. RouteInv'
    <2>1. Routers' = Routers
      BY <1>1 DEF Routers
    <2>2. ~job'.failed
      BY <1>1, <1>2 DEF IInv, RouteInv
    <2> QED
      BY <1>2, <2>1, <2>2 DEF RouteInv
  <1>6. DropInv' /\ OrphanInv'
    BY <1>1, <1>2 DEF IInv, DropInv, Used, Entities, OrphanInv, Accounted, At, HasRow
  <1> QED
    BY <1>3, <1>4, <1>5, <1>6 DEF IInv

LEMMA BindActiveInv ==
    ASSUME IInv, BindActive
    PROVE  IInv'
  <1>1. /\ job.op = "status" /\ job.step = "route" /\ job.bind = {} /\ job \in Job
        /\ UNCHANGED <<configs, status, broker, dropped, failures>>
    BY DEF BindActive, At, IInv, TypeInv
  <1>2. PICK e \in job.routers :
           /\ links' = IF VersionedExchange(e, job.to.active) \in broker
                       THEN links \cup {<<Alternate(e), VersionedExchange(e, job.to.active)>>} ELSE links
           /\ job' = [job EXCEPT !.routers = @ \ {e}, !.bind = {e}]
    BY DEF BindActive
  <1>3. /\ job' \in Job /\ job'.op = "status" /\ job'.step = "route" /\ job'.version = job.version
        /\ job'.to = job.to /\ job'.delete = job.delete /\ job'.bind = {e} /\ job'.failed = job.failed
        /\ job'.routers = job.routers \ {e}
    BY <1>1, <1>2 DEF Job
  <1>4. job.routers \subseteq Routers /\ Routers' = Routers /\ e \in Exchanges
    BY <1>1, <1>2 DEF IInv, JobInv, At, Routers
  <1>5. /\ links \subseteq links'
        /\ \A l \in links' : l \in links \/ /\ l = <<Alternate(e), VersionedExchange(e, job.to.active)>>
                                            /\ VersionedExchange(e, job.to.active) \in broker
        /\ VersionedExchange(e, job.to.active) \in broker =>
              <<Alternate(e), VersionedExchange(e, job.to.active)>> \in links'
    BY <1>2
  <1>6. TypeInv'
    <2>1. ASSUME NEW l \in links' PROVE l \in Links /\ {l[1], l[2]} \subseteq broker
      <3>1. broker \subseteq Names /\ Alternate(e) \in broker
        BY <1>2, <1>4 DEF IInv, TypeInv, Routers
      <3> QED
        BY <1>5, <3>1 DEF IInv, TypeInv, Links
    <2> QED
      BY <1>1, <1>3, <2>1 DEF IInv, TypeInv
  <1>7. RowsInv' /\ StatusInv'
    BY <1>1 DEF IInv, RowsInv, SoundRow, Entities, Made, StatusInv
  <1>8. JobInv' /\ QueuesKept' /\ CreateInv' /\ ApplyInv'
    BY <1>1, <1>3, <1>4 DEF IInv, JobInv, StepsOf, At, QueuesKept, CreateInv, ApplyInv
  <1>9. RouteInv'
    <2>1. ~job'.failed
      BY <1>1, <1>3 DEF IInv, RouteInv
    <2>2. Bound(e)'
      BY <1>1, <1>3, <1>5 DEF Bound
    <2>3. ASSUME NEW x \in Routers', x \notin job'.routers \cup job'.bind PROVE Routed(x)'
      <3>1. x # e /\ x \in Routers /\ x \notin job.routers \cup job.bind
        BY <1>1, <1>3, <1>4, <2>3
      <3>2. Routed(x)
        BY <1>1, <3>1 DEF IInv, RouteInv
      <3>3. Alternate(x) # Alternate(e)
        BY <3>1 DEF Alternate
      <3> QED
        BY <1>1, <1>3, <1>5, <3>2, <3>3 DEF Routed, Bound
    <2> QED
      BY <1>3, <2>1, <2>2, <2>3 DEF RouteInv
  <1>10. DropInv' /\ OrphanInv'
    BY <1>1, <1>3 DEF IInv, DropInv, Used, Entities, OrphanInv, Accounted, At, HasRow
  <1> QED
    BY <1>6, <1>7, <1>8, <1>9, <1>10 DEF IInv

LEMMA UnbindFormerInv ==
    ASSUME IInv, UnbindFormer
    PROVE  IInv'
  <1>1. /\ job.op = "status" /\ job.step = "route" /\ job \in Job /\ job' = [job EXCEPT !.bind = {}]
        /\ UNCHANGED <<configs, status, broker, dropped, failures>>
    BY DEF UnbindFormer, At, IInv, TypeInv
  <1>2. PICK e \in job.bind :
           links' = links \ {l \in DefaultRoutes(e) : l[2] # VersionedExchange(e, job.to.active)}
    BY DEF UnbindFormer
  <1>3. /\ job' \in Job /\ job'.op = "status" /\ job'.step = "route" /\ job'.version = job.version
        /\ job'.to = job.to /\ job'.delete = job.delete /\ job'.bind = {} /\ job'.failed = job.failed
        /\ job'.routers = job.routers
    BY <1>1 DEF Job
  <1>4. TypeInv' /\ RowsInv' /\ StatusInv'
    BY <1>1, <1>2, <1>3 DEF IInv, TypeInv, RowsInv, SoundRow, Entities, Made, StatusInv
  <1>5. JobInv' /\ QueuesKept' /\ CreateInv' /\ ApplyInv'
    BY <1>1, <1>3 DEF IInv, JobInv, StepsOf, At, QueuesKept, CreateInv, ApplyInv, Routers
  <1>6. RouteInv'
    <2>1. ~job'.failed /\ Bound(e) /\ \A f \in job.bind : f = e
      BY <1>1, <1>2, <1>3 DEF IInv, RouteInv
    <2>2. \A l : l \in links' <=> l \in links /\ (l[1] = Alternate(e) => l[2] = VersionedExchange(e, job.to.active))
      BY <1>2 DEF DefaultRoutes
    <2>3. ASSUME NEW x \in Routers', x \notin job'.routers PROVE Routed(x)'
      <3>1. CASE x = e
        BY <1>1, <1>3, <2>1, <2>2, <3>1 DEF Routed, Bound
      <3>2. CASE x # e
        <4>1. Routed(x)
          BY <1>1, <1>3, <2>1, <2>3, <3>2 DEF IInv, RouteInv, Routers
        <4>2. Alternate(x) # Alternate(e)
          BY <3>2 DEF Alternate
        <4> QED
          BY <1>1, <1>3, <2>2, <4>1, <4>2 DEF Routed, Bound
      <3> QED
        BY <3>1, <3>2
    <2> QED
      BY <1>3, <2>1, <2>3 DEF RouteInv
  <1>7. DropInv' /\ OrphanInv'
    BY <1>1, <1>3 DEF IInv, DropInv, Used, Entities, OrphanInv, Accounted, At, HasRow
  <1> QED
    BY <1>4, <1>5, <1>6, <1>7 DEF IInv

LEMMA RoutesDoneInv ==
    ASSUME IInv, RoutesDone
    PROVE  IInv'
  <1>1. /\ job.op = "status" /\ job.step = "route" /\ job \in Job /\ job' = [job EXCEPT !.step = "drop"]
        /\ job.routers = {} /\ job.bind = {}
        /\ UNCHANGED <<configs, status, broker, links, dropped, failures>>
    BY DEF RoutesDone, At, IInv, TypeInv
  <1>2. /\ job' \in Job /\ job'.op = "status" /\ job'.step = "drop" /\ job'.version = job.version
        /\ job'.to = job.to /\ job'.delete = job.delete /\ job'.bind = {} /\ job'.failed = job.failed
    BY <1>1 DEF Job
  <1>3. TypeInv' /\ RowsInv' /\ StatusInv'
    BY <1>1, <1>2 DEF IInv, TypeInv, RowsInv, SoundRow, Entities, Made, StatusInv
  <1>4. JobInv' /\ QueuesKept' /\ CreateInv' /\ ApplyInv'
    BY <1>1, <1>2 DEF IInv, JobInv, StepsOf, At, QueuesKept, CreateInv, ApplyInv
  <1>5. RouteInv'
    <2>1. ~job'.failed /\ \A e \in Routers : Routed(e)
      BY <1>1, <1>2 DEF IInv, RouteInv
    <2> QED
      BY <1>1, <1>2, <2>1 DEF RouteInv, Routers, Routed, Bound
  <1>6. DropInv' /\ OrphanInv'
    BY <1>1, <1>2 DEF IInv, JobInv, DropInv, Used, Entities, OrphanInv, Accounted, At, HasRow
  <1> QED
    BY <1>3, <1>4, <1>5, <1>6 DEF IInv

\* What goes with a row: its exchanges among others, and queues that no row
\* needs any more.
LEMMA OrphanedFacts ==
    ASSUME IInv, NEW rows, NEW k \in Keys
    PROVE  /\ Orphaned(rows, k) \subseteq Names
           /\ \A e \in Exchanges : <<"exchange", e>> \in Entities(configs, k) =>
                 VersionedExchange(e, k[2]) \in Orphaned(rows, k)
           /\ \A q, v : VersionedQueue(q, v) \in Orphaned(rows, k) => ~Used(rows, q, v)
  <1> DEFINE Of(d) == IF d[1] = "exchange"
                        THEN {Made(configs, k, d)} \cup IF DeclaredIn(rows, d) THEN {} ELSE {Router(d[2])}
                        ELSE IF d[1] = "queue" /\ ~Used(rows, d[2], configs[k].actual)
                             THEN {Made(configs, k, d)} ELSE {}
  <1>1. Orphaned(rows, k) = (UNION {Of(d) : d \in Entities(configs, k)}) \ {Nil}
    BY DEF Orphaned
  <1>2. configs[k] \in Row /\ k[2] \in Versions
    BY DEF IInv, TypeInv, Configs, Keys
  <1>3. ASSUME NEW d \in Entities(configs, k)
        PROVE  /\ d \in Declared /\ Made(configs, k, d) \in Names \cup Links \cup {Nil}
               /\ d[1] = "exchange" => Made(configs, k, d) = VersionedExchange(d[2], k[2])
               /\ d[1] = "queue" => Made(configs, k, d) = VersionedQueue(d[2], configs[k].actual)
    BY <1>2, RowFacts DEF Entities, Made, IInv, RowsInv, SoundRow
  <1>4. \A a, b, c, y, z : <<a, b, c>> # <<y, z>>
    OBVIOUS
  <1>5. ASSUME NEW d \in Entities(configs, k), NEW n \in Of(d), n # Nil
        PROVE  n \in Names /\ \A q, v : n = VersionedQueue(q, v) => ~Used(rows, q, v)
    <2>1. CASE d[1] = "exchange"
      <3>1. d[2] \in Exchanges
        BY <1>3, <2>1, DeclaredFacts
      <3>2. n \in {VersionedExchange(d[2], k[2]), Router(d[2])}
        BY <1>3, <1>5, <2>1
      <3> QED
        BY <1>2, <3>1, <3>2, NameFacts DEF VersionedExchange, Router, VersionedQueue
    <2>2. CASE d[1] = "queue" /\ ~Used(rows, d[2], configs[k].actual)
      <3>1. n = VersionedQueue(d[2], configs[k].actual) /\ n \in Names \cup Links
        BY <1>3, <1>5, <2>2
      <3>2. n \notin Links
        <4>1. n \in Links => n = <<n[1], n[2]>>
          BY NameFacts
        <4> QED
          BY <1>4, <3>1, <4>1 DEF VersionedQueue
      <3>3. \A q, v : n = VersionedQueue(q, v) => q = d[2] /\ v = configs[k].actual
        BY <3>1 DEF VersionedQueue
      <3> QED
        BY <2>2, <3>1, <3>2, <3>3
    <2> QED
      BY <1>5, <2>1, <2>2
  <1>6. ASSUME NEW e \in Exchanges, <<"exchange", e>> \in Entities(configs, k)
        PROVE  VersionedExchange(e, k[2]) \in Orphaned(rows, k)
    <2>1. VersionedExchange(e, k[2]) \in Of(<<"exchange", e>>)
      BY <1>3, <1>6
    <2>2. VersionedExchange(e, k[2]) # Nil
      BY <1>2, NameFacts
    <2> HIDE DEF Of
    <2> QED
      BY <1>1, <1>6, <2>1, <2>2
  <1> HIDE DEF Of
  <1>7. \A n \in Orphaned(rows, k) : \E d \in Entities(configs, k) : n \in Of(d) /\ n # Nil
    BY <1>1
  <1> QED
    BY <1>5, <1>6, <1>7

LEMMA DropConfigInv ==
    ASSUME IInv, DropConfig
    PROVE  IInv'
  <1>1. /\ job.op = "status" /\ job.step = "drop" /\ job \in Job
        /\ UNCHANGED <<status, broker, links, dropped, failures>>
    BY DEF DropConfig, At, IInv, TypeInv
  <1>2. PICK v \in job.left, s \in Services :
           LET rows == [configs EXCEPT ![<<s, v>>] = NoConfig] IN
           /\ configs' = rows
           /\ job' = [job EXCEPT !.version = v, !.delete = @ \cup Orphaned(rows, <<s, v>>)]
    BY DEF DropConfig
  <1> DEFINE k == <<s, v>>
             rows == [configs EXCEPT ![k] = NoConfig]
             gone == Orphaned(rows, k)
  <1>3. v \in Versions /\ v \in 0..MaxVersion /\ v # 0 /\ k \in Keys
    BY <1>1, JobFacts DEF Keys, Versions
  <1>4. configs' = rows /\ job' = [job EXCEPT !.version = v, !.delete = @ \cup gone]
    BY <1>2
  <1>5. /\ gone \subseteq Names
        /\ \A e \in Exchanges : <<"exchange", e>> \in Entities(configs, k) => VersionedExchange(e, v) \in gone
        /\ \A q, u : VersionedQueue(q, u) \in gone => ~Used(rows, q, u)
    BY <1>3, OrphanedFacts
  <1>6. rows \in Configs /\ rows[k] = NoConfig /\ \A x \in Keys : x # k => rows[x] = configs[x]
    BY <1>3, RowFacts DEF IInv, TypeInv, Configs
  <1> HIDE DEF gone, rows
  <1>7. /\ job' \in Job /\ job'.op = "status" /\ job'.step = "drop" /\ job'.version = v
        /\ job'.to = job.to /\ job'.delete = job.delete \cup gone /\ job'.bind = job.bind
        /\ job'.failed = job.failed /\ job'.left = job.left
    BY <1>1, <1>3, <1>4, <1>5 DEF Job
  <1>8. TypeInv'
    BY <1>1, <1>4, <1>6, <1>7 DEF IInv, TypeInv
  <1>9. RowsInv'
    BY <1>4, <1>6, RowFacts DEF IInv, RowsInv, SoundRow, Entities, Made
  <1>10. StatusInv' /\ JobInv' /\ QueuesKept' /\ CreateInv' /\ ApplyInv'
    BY <1>1, <1>7 DEF IInv, StatusInv, JobInv, StepsOf, At, QueuesKept, CreateInv, ApplyInv
  <1>11. RouteInv'
    BY <1>1, <1>7 DEF IInv, RouteInv, Routers, Routed, Bound
  <1>12. DropInv'
    <2>1. \A q, u : ~Used(configs, q, u) => ~Used(rows, q, u)
      BY <1>6, RowFacts DEF Used, Entities
    <2>2. ASSUME NEW d \in Declared, NEW u \in 0..MaxVersion, d[1] = "queue", VersionedQueue(d[2], u) \in job'.delete
          PROVE  ~Used(rows, d[2], u)
      BY <1>1, <1>5, <1>7, <2>1, <2>2 DEF IInv, DropInv
    <2>3. job'.delete \subseteq Names
      BY <1>1, <1>5, <1>7 DEF IInv, DropInv
    <2> QED
      BY <1>4, <2>2, <2>3 DEF DropInv
  <1>13. OrphanInv'
    <2>1. ASSUME failures = 0, NEW e \in Exchanges, NEW u \in Versions, VersionedExchange(e, u) \in broker
          PROVE  HasRow(rows, e, u) \/ VersionedExchange(e, u) \in job'.delete
      <3>1. CASE VersionedExchange(e, u) \in job.delete
        BY <1>7, <3>1
      <3>2. CASE HasRow(configs, e, u)
        <4>1. PICK t \in Services : <<"exchange", e>> \in Entities(configs, <<t, u>>)
          BY <3>2 DEF HasRow
        <4>2. <<t, u>> \in Keys
          BY DEF Keys
        <4>3. CASE <<t, u>> = k
          BY <1>5, <1>7, <4>1, <4>3
        <4>4. CASE <<t, u>> # k
          BY <1>6, <4>1, <4>2, <4>4 DEF HasRow, Entities
        <4> QED
          BY <4>3, <4>4
      <3>3. Accounted(e, u)
        BY <2>1 DEF IInv, OrphanInv
      <3> QED
        BY <1>1, <3>1, <3>2, <3>3 DEF Accounted
    <2> QED
      BY <1>1, <1>3, <1>4, <1>7, <2>1 DEF OrphanInv, Accounted, At
  <1> QED
    BY <1>8, <1>9, <1>10, <1>11, <1>12, <1>13 DEF IInv

\* The steps of the listener that only move on.
LEMMA MovesOn ==
    ASSUME IInv, job.op = "status", job.step \in {"drop", "delete"},
           UNCHANGED <<configs, status, broker, links, dropped, failures>>,
           NEW step \in {"drop", "delete", "record"}, NEW version \in 0..MaxVersion, NEW left \in SUBSET Versions,
           job' = [job EXCEPT !.step = step, !.version = version, !.left = left],
           step # "delete" => job.delete = {} \/ failures # 0,
           step = "drop" => version = 0
    PROVE  IInv'
  <1>1. job \in Job
    BY DEF IInv, TypeInv
  <1>2. /\ job' \in Job /\ job'.op = "status" /\ job'.step = step /\ job'.version = version
        /\ job'.to = job.to /\ job'.delete = job.delete /\ job'.bind = job.bind
        /\ job'.failed = job.failed /\ job'.left = left
    BY <1>1 DEF Job
  <1>3. TypeInv' /\ RowsInv' /\ StatusInv'
    BY <1>2 DEF IInv, TypeInv, RowsInv, SoundRow, Entities, Made, StatusInv
  <1>4. JobInv' /\ QueuesKept' /\ CreateInv' /\ ApplyInv'
    BY <1>2 DEF IInv, JobInv, StepsOf, At, QueuesKept, CreateInv, ApplyInv
  <1>5. RouteInv' /\ DropInv'
    BY <1>2 DEF IInv, RouteInv, Routers, Routed, Bound, DropInv, Used, Entities
  <1>6. OrphanInv'
    BY <1>2 DEF IInv, OrphanInv, Accounted, At, HasRow, Entities
  <1> QED
    BY <1>3, <1>4, <1>5, <1>6 DEF IInv

LEMMA DropEntitiesInv ==
    ASSUME IInv, DropEntities
    PROVE  IInv'
  <1>1. job.op = "status" /\ job.step = "drop" /\ UNCHANGED <<configs, status, broker, links, dropped, failures>>
    BY DEF DropEntities, At
  <1>2. PICK v \in job.left : job' = [job EXCEPT !.version = v, !.step = "delete"]
    BY DEF DropEntities
  <1>3. job \in Job /\ v \in 0..MaxVersion /\ job.left \in SUBSET Versions
    BY JobFacts DEF IInv, TypeInv, Versions
  <1>4. job' = [job EXCEPT !.step = "delete", !.version = v, !.left = job.left]
    BY <1>2, <1>3 DEF Job
  <1> QED
    BY <1>1, <1>3, <1>4, MovesOn

LEMMA VersionDroppedInv ==
    ASSUME IInv, VersionDropped
    PROVE  IInv'
  <1>1. /\ job.op = "status" /\ job.step = "delete" /\ job.delete = {}
        /\ UNCHANGED <<configs, status, broker, links, dropped, failures>>
    BY DEF VersionDropped, At
  <1> DEFINE left == job.left \ {job.version}
  <1>2. left \in SUBSET Versions /\ 0 \in 0..MaxVersion
    BY JobFacts, RabbitVersionsAssumption DEF IInv, TypeInv
  <1>3. job' = [job EXCEPT !.step = "drop", !.version = 0, !.left = left]
    BY DEF VersionDropped
  <1> HIDE DEF left
  <1> QED
    BY <1>1, <1>2, <1>3, MovesOn

LEMMA ListenerDoneInv ==
    ASSUME IInv, ListenerDone
    PROVE  IInv'
  <1>1. /\ job.op = "status" /\ job.step = "drop" /\ job.left = {} /\ job' = [job EXCEPT !.step = "record"]
        /\ UNCHANGED <<configs, status, broker, links, dropped, failures>>
    BY DEF ListenerDone, At
  <1>2. job \in Job /\ job.version \in 0..MaxVersion /\ job.left \in SUBSET Versions
    BY JobFacts DEF IInv, TypeInv
  <1>3. job' = [job EXCEPT !.step = "record", !.version = job.version, !.left = job.left]
    BY <1>1, <1>2 DEF Job
  <1>4. job.delete = {} \/ failures # 0
    BY <1>1 DEF IInv, OrphanInv
  <1> QED
    BY <1>1, <1>2, <1>3, <1>4, MovesOn

LEMMA InsertStatusInv ==
    ASSUME IInv, InsertStatus
    PROVE  IInv'
  <1>1. /\ job.op = "status" /\ job.step = "record" /\ job' = NoJob /\ status' = job.to
        /\ dropped' = dropped \cup (All(status) \ All(job.to))
        /\ UNCHANGED <<configs, broker, links, failures>>
    BY DEF InsertStatus, At
  <1>2. job.to \in Statuses /\ job.to.active \in Versions
    BY <1>1, JobFacts DEF IInv, TypeInv, JobInv
  <1>3. dropped' \subseteq Versions
    <2>1. All(status) \subseteq Versions
      BY RabbitVersionsAssumption DEF IInv, TypeInv, Statuses, All, Versions
    <2> QED
      BY <1>1, <2>1 DEF IInv, TypeInv
  <1>4. TypeInv'
    BY <1>1, <1>2, <1>3, NoJobFacts DEF IInv, TypeInv
  <1>5. StatusInv' /\ RowsInv'
    BY <1>1, <1>2, NoJobFacts DEF IInv, StatusInv, RowsInv, SoundRow, Entities, Made, Versions
  <1>6. ASSUME failures' = 0, NEW e \in Exchanges, NEW v \in Versions, VersionedExchange(e, v) \in broker'
        PROVE  HasRow(configs', e, v)
    BY <1>1, <1>6 DEF IInv, OrphanInv, Accounted
  <1> QED
    BY <1>1, <1>4, <1>5, <1>6, Over

LEMMA FailInv ==
    ASSUME IInv, Fail
    PROVE  IInv'
  <1>1. /\ failures' = failures + 1 /\ failures' \in 0..MaxFailures /\ failures' # 0
        /\ UNCHANGED <<configs, status, broker, links, dropped>> /\ job \in Job
    BY RabbitVersionsAssumption DEF Fail, IInv, TypeInv
  <1>2. RowsInv' /\ StatusInv'
    BY <1>1 DEF IInv, RowsInv, SoundRow, Entities, Made, StatusInv
  <1>3. job' \in Job => TypeInv'
    BY <1>1 DEF IInv, TypeInv
  <1>4. CASE job' = NoJob
    BY <1>1, <1>2, <1>3, <1>4, NoJobFacts, Over
  <1>5. CASE At("apply", "activate") /\ job' = [job EXCEPT !.to = [NoStatus EXCEPT !.active = 1], !.step = "copy"]
    <2> DEFINE to == [NoStatus EXCEPT !.active = 1]
    <2>1. to \in Statuses
      <3>1. job.version \in Versions
        BY <1>5 DEF IInv, JobInv, At
      <3> QED
        BY <3>1, RabbitVersionsAssumption DEF NoStatus, Statuses, Versions
    <2>2. job' = [job EXCEPT !.to = to, !.step = "copy"]
      BY <1>5
    <2> HIDE DEF to
    <2>3. job' \in Job
      BY <1>1, <2>1, <2>2 DEF Job
    <2> QED
      BY <1>1, <1>3, <1>5, <2>3, Activated
  <1>6. CASE job.op = "status" /\ job' = [job EXCEPT !.step = "record", !.failed = TRUE]
    <2>1. /\ job' \in Job /\ job'.op = "status" /\ job'.step = "record" /\ job'.failed = TRUE
          /\ job'.to = job.to /\ job'.delete = job.delete
      BY <1>1, <1>6 DEF Job
    <2>2. JobInv' /\ QueuesKept' /\ CreateInv' /\ ApplyInv'
      BY <1>1, <1>6, <2>1 DEF IInv, JobInv, StepsOf, At, QueuesKept, CreateInv, ApplyInv
    <2>3. RouteInv' /\ DropInv' /\ OrphanInv'
      BY <1>1, <1>6, <2>1 DEF IInv, RouteInv, DropInv, Used, Entities, OrphanInv
    <2> QED
      BY <1>2, <1>3, <2>1, <2>2, <2>3 DEF IInv
  <1> QED
    BY <1>4, <1>5, <1>6 DEF Fail

LEMMA NextInv == IInv /\ [Next]_vars => IInv'
  <1>1. ASSUME IInv, Next PROVE IInv'
    <2>1. ASSUME NEW v \in Versions, NEW r \in Requests, \A s \in DOMAIN r : r[s] \in Offers[s], Submit(v, r)
          PROVE  IInv'
      BY <1>1, <2>1, SubmitInv
    <2>2. ASSUME NEW to \in Successors, SubmitStatus(to) PROVE IInv'
      BY <1>1, <2>2, SubmitStatusInv
    <2> QED
      BY <1>1, <2>1, <2>2, SubmitRecoveryInv, ActivateInv, CopyInv, DeleteEntityInv, DeletionDoneInv, NextVersionInv,
         CreateEntitiesInv, BindExchangeInv, CreateBindingInv, CommitInv, VersionRecoveredInv, ListRoutersInv,
         BindActiveInv, UnbindFormerInv, RoutesDoneInv, DropConfigInv, DropEntitiesInv, VersionDroppedInv,
         ListenerDoneInv, InsertStatusInv, FailInv
      DEF Next
  <1>2. ASSUME IInv, UNCHANGED vars PROVE IInv'
    <2>1. UNCHANGED <<configs, status, broker, links, job, dropped, failures>>
      BY <1>2 DEF vars
    <2>2. TypeInv' /\ RowsInv' /\ StatusInv'
      BY <1>2, <2>1 DEF IInv, TypeInv, RowsInv, SoundRow, Entities, Made, StatusInv
    <2>3. JobInv' /\ QueuesKept'
      BY <1>2, <2>1 DEF IInv, JobInv, At, Active, Routers, QueuesKept, Entities
    <2>4. CreateInv' /\ ApplyInv'
      BY <1>2, <2>1 DEF IInv, CreateInv, Rows, Entities, ApplyInv, At, MadeOrLeft
    <2>5. RouteInv' /\ DropInv'
      BY <1>2, <2>1 DEF IInv, RouteInv, Routers, Routed, Bound, DropInv, Used, Entities
    <2>6. OrphanInv'
      BY <1>2, <2>1 DEF IInv, OrphanInv, At, Accounted, HasRow, Entities
    <2> QED
      BY <2>2, <2>3, <2>4, <2>5, <2>6 DEF IInv
  <1> QED
    BY <1>1, <1>2

-----------------------------------------------------------------------------
(* The theorems                                                            *)

\* Every reachable state satisfies the inductive invariant.
THEOREM Inductive == Spec => []IInv
  <1> QED
    BY InitInv, NextInv, PTL DEF Spec

\* Types, and the bindings of the broker have both ends, whatever is deleted
\* under them.
THEOREM TypeCorrect == Spec => []TypeOK
  <1>1. IInv => TypeOK
    <2> SUFFICES ASSUME IInv PROVE TypeOK
      OBVIOUS
    <2>1. ASSUME NEW k \in Keys
          PROVE  /\ configs[k].actual \in 0..MaxVersion
                 /\ Entities(configs, k) \subseteq Declared
                 /\ \A d \in Entities(configs, k) : Made(configs, k, d) \in Names \cup Links \cup {Nil}
      <3>1. configs[k] \in Row
        BY DEF IInv, TypeInv, Configs
      <3> QED
        BY <3>1, RowFacts DEF Entities, Made, Row
    <2> QED
      BY <2>1 DEF IInv, TypeInv, TypeOK, Statuses
  <1> QED
    BY <1>1, Inductive, PTL

\* After a switch whose listener has not failed, messages without version
\* reach the new active version and no other, on every exchange with a router.
THEOREM SwitchIsComplete == Spec => []SwitchReachesActive
  <1>1. IInv => SwitchReachesActive
    <2> SUFFICES ASSUME IInv, At("status", "record"), ~job.failed, job.to.active # status.active, NEW e \in Routers
                 PROVE  DefaultRoutes(e) = {<<Alternate(e), x>> :
                                              x \in broker \cap {VersionedExchange(e, job.to.active)}}
      BY DEF SwitchReachesActive
    <2> DEFINE to == VersionedExchange(e, job.to.active)
    <2>1. Routed(e)
      BY DEF IInv, RouteInv, At
    <2>2. ASSUME NEW l \in DefaultRoutes(e) PROVE l = <<Alternate(e), to>> /\ to \in broker
      <3>1. l \in Links /\ l \in links /\ l[1] = Alternate(e) /\ l[2] \in broker
        BY DEF DefaultRoutes, IInv, TypeInv
      <3>2. l = <<l[1], l[2]>> /\ l[2] = to
        BY <2>1, <3>1, NameFacts DEF Routed
      <3> QED
        BY <3>1, <3>2
    <2>3. to \in broker => <<Alternate(e), to>> \in DefaultRoutes(e)
      BY <2>1 DEF Routed, Bound, DefaultRoutes
    <2> QED
      BY <2>2, <2>3
  <1> QED
    BY <1>1, Inductive, PTL

\* What an apply is about to commit is on the broker, whatever the attempts
\* and the versions before it have left there.
THEOREM ApplyIsComplete == Spec => []AppliedVersionComplete
  <1>1. IInv => AppliedVersionComplete
    <2> SUFFICES ASSUME IInv, job.op = "apply", Created, NEW s \in Services,
                        NEW d \in Entities(job.view, <<s, job.version>>)
                 PROVE  LET c == job.view[<<s, job.version>>]
                            made == CASE d[1] = "exchange" -> VersionedExchange(d[2], job.version)
                                      [] d[1] = "queue" -> VersionedQueue(d[2], c.actual)
                                      [] OTHER -> <<VersionedExchange(d[2], job.version),
                                                    VersionedQueue(d[3], c.actual)>>
                        IN
                        /\ d[1] = "exchange" => <<Router(d[2]), made>> \in links
                        /\ d[1] = "queue" /\ c.actual = job.version => made \in broker
                        /\ d[1] = "binding" /\ {made[1], made[2]} \subseteq broker => made \in links
                        /\ made \in broker \cup links => c.entities[d] = made
      BY DEF AppliedVersionComplete
    <2> DEFINE c == job.view[<<s, job.version>>]
    <2>1. MadeOrLeft(s, d) /\ job.create = {} /\ job.later = {} /\ job.bind = {}
      BY DEF IInv, ApplyInv, At, Created
    <2>2. d[1] \in {"exchange", "queue", "binding"}
      <3>1. job.view[<<s, job.version>>] \in Row
        BY DEF IInv, JobInv, Configs, Keys
      <3> QED
        BY <3>1, RowFacts, DeclaredFacts DEF Entities
    <2>3. CASE d[1] = "exchange"
      BY <2>1, <2>3 DEF MadeOrLeft
    <2>4. CASE d[1] = "queue"
      <3>1. c.actual # job.version => c.entities[d] = VersionedQueue(d[2], c.actual)
        BY <2>4 DEF IInv, QueuesKept
      <3> QED
        BY <2>1, <2>4, <3>1 DEF MadeOrLeft
    <2>5. CASE d[1] = "binding"
      <3> DEFINE link == <<VersionedExchange(d[2], job.version), VersionedQueue(d[3], c.actual)>>
      <3>1. {link[1], link[2]} \subseteq broker => link \in links /\ c.entities[d] = link
        BY <2>1, <2>5 DEF MadeOrLeft
      <3>2. link \in links => {link[1], link[2]} \subseteq broker
        BY DEF IInv, TypeInv
      <3>3. link \notin broker
        <4>1. link \in Names => link = <<link[1], link[2], link[3]>>
          BY NameFacts
        <4>2. \A a, b, x, y, z : <<a, b, x>> # <<y, z>>
          OBVIOUS
        <4> QED
          BY <4>1, <4>2 DEF IInv, TypeInv
      <3> QED
        BY <2>5, <3>1, <3>2, <3>3
    <2> QED
      BY <2>2, <2>3, <2>4, <2>5
  <1> QED
    BY <1>1, Inductive, PTL

\* Without failures, every versioned exchange on the broker has a committed
\* row that tells what it is, so that the version can be dropped.
THEOREM EveryExchangeHasARow == Spec => []NoOrphanExchange
  <1>1. IInv => NoOrphanExchange
    <2> SUFFICES ASSUME IInv, job.op = "none", failures = 0, NEW n \in broker, n[1] = "exchange"
                 PROVE  \E k \in Keys : \E d \in Entities(configs, k) : Made(configs, k, d) = n
      BY DEF NoOrphanExchange
    <2> DEFINE e == n[2]
               v == n[3]
    <2>1. n = VersionedExchange(e, v) /\ e \in Exchanges /\ v \in Versions
      BY NameFacts DEF IInv, TypeInv, VersionedExchange
    <2>2. HasRow(configs, e, v)
      BY <2>1 DEF IInv, OrphanInv, Accounted
    <2>3. PICK s \in Services : <<"exchange", e>> \in Entities(configs, <<s, v>>)
      BY <2>2 DEF HasRow
    <2>4. <<s, v>> \in Keys
      BY <2>1 DEF Keys
    <2>5. Made(configs, <<s, v>>, <<"exchange", e>>) = n
      BY <2>1, <2>3, <2>4 DEF IInv, RowsInv, SoundRow
    <2> QED
      BY <2>3, <2>4, <2>5
  <1> QED
    BY <1>1, Inductive, PTL

\* When versions are dropped, no queue goes that a service of a remaining
\* version was deployed with last.
LEMMA StatusKeepsQueues ==
    ASSUME IInv, Next, job.op = "status", NEW k \in Keys, NEW d \in Entities(configs, k),
           d[1] = "queue", VersionedQueue(d[2], configs[k].actual) \in broker
    PROVE  VersionedQueue(d[2], configs[k].actual) \in broker'
  <1> DEFINE q == VersionedQueue(d[2], configs[k].actual)
  <1>1. d \in Declared /\ configs[k].actual \in 0..MaxVersion /\ d = <<"queue", d[2]>>
    <2>1. configs[k] \in Row
      BY DEF IInv, TypeInv, Configs
    <2> QED
      BY <2>1, RowFacts, DeclaredFacts DEF Entities, Row
  <1>2. Used(configs, d[2], configs[k].actual)
    BY <1>1 DEF Used
  <1>3. q \notin job.delete
    BY <1>1, <1>2 DEF IInv, DropInv
  <1>4. CASE DeleteEntity
    <2>1. PICK n \in job.delete : broker' = broker \ Gone(n)
      BY <1>4 DEF DeleteEntity
    <2>2. q # n /\ \A x : q # Alternate(x)
      BY <1>3 DEF VersionedQueue, Alternate
    <2> QED
      BY <2>1, <2>2 DEF Gone
  <1>5. CASE ~DeleteEntity
    <2>1. job.step # "create"
      BY DEF IInv, JobInv, StepsOf
    <2>2. broker' = broker
      BY <1>5, <2>1 DEF Next, Submit, SubmitStatus, SubmitRecovery, Activate, CopyAndValidate, DeletionDone,
         NextVersion, CreateEntities, BindExchange, CreateBinding, Commit, VersionRecovered, ListRouters,
         BindActive, UnbindFormer, RoutesDone, DropConfig, DropEntities, VersionDropped, ListenerDone,
         InsertStatus, Fail
    <2> QED
      BY <2>2
  <1> QED
    BY <1>4, <1>5

THEOREM QueuesOutliveVersions == Spec => DroppedVersionKeepsQueues
  <1>1. IInv /\ [Next]_vars =>
           [job.op = "status" =>
              \A k \in Keys : \A d \in Entities(configs, k) :
                 d[1] = "queue" /\ k[2] \in All(job.to) =>
                    LET q == VersionedQueue(d[2], configs[k].actual) IN q \in broker => q \in broker']_vars
    BY StatusKeepsQueues
  <1> QED
    BY <1>1, Inductive, PTL DEF Spec, DroppedVersionKeepsQueues

\* While the routes are switched, no step leaves an exchange without default
\* route that had one, if the new version has the exchange.
LEMMA SwitchKeepsRoute ==
    ASSUME IInv, Next, NEW e \in Exchanges, At("status", "route"), DefaultRoutes(e) # {},
           VersionedExchange(e, job.to.active) \in broker
    PROVE  DefaultRoutes(e)' # {}
  <1>1. PICK l \in links : l[1] = Alternate(e)
    BY DEF DefaultRoutes
  <1>2. CASE UnbindFormer
    <2>1. PICK f \in job.bind :
             links' = links \ {x \in DefaultRoutes(f) : x[2] # VersionedExchange(f, job.to.active)}
      BY <1>2 DEF UnbindFormer
    <2>2. CASE f = e
      <3>1. <<Alternate(e), VersionedExchange(e, job.to.active)>> \in links
        BY <2>2 DEF IInv, RouteInv, At, Bound
      <3> QED
        BY <2>1, <2>2, <3>1 DEF DefaultRoutes
    <2>3. CASE f # e
      <3>1. Alternate(f) # Alternate(e)
        BY <2>3 DEF Alternate
      <3> QED
        BY <1>1, <2>1, <3>1 DEF DefaultRoutes
    <2> QED
      BY <2>2, <2>3
  <1>3. CASE BindActive
    <2>1. links \subseteq links'
      BY <1>3 DEF BindActive
    <2> QED
      BY <1>1, <2>1 DEF DefaultRoutes
  <1>4. CASE ~UnbindFormer /\ ~BindActive
    <2>1. links' = links
      BY <1>4 DEF Next, Submit, SubmitStatus, SubmitRecovery, Activate, CopyAndValidate, DeleteEntity, DeletionDone,
         NextVersion, CreateEntities, BindExchange, CreateBinding, Commit, VersionRecovered, ListRouters,
         RoutesDone, DropConfig, DropEntities, VersionDropped, ListenerDone, InsertStatus, Fail, At
    <2> QED
      BY <1>1, <2>1 DEF DefaultRoutes
  <1> QED
    BY <1>2, <1>3, <1>4

THEOREM SwitchNeverUnroutes == Spec => NeverUnrouted
  <1>1. IInv /\ [Next]_vars =>
           [\A e \in Exchanges :
               (/\ At("status", "route") /\ DefaultRoutes(e) # {}
                /\ VersionedExchange(e, job.to.active) \in broker)
                   => DefaultRoutes(e)' # {}]_vars
    BY SwitchKeepsRoute
  <1> QED
    BY <1>1, Inductive, PTL DEF Spec, NeverUnrouted
=============================================================================
