---------------------------- MODULE KafkaTopics ----------------------------
(***************************************************************************)
(* Kafka topic registrations of MaaS: the database rows of kafka_topics    *)
(* and kafka_topic_classifiers on one side, the topics of the brokers on   *)
(* the other, and the requests that several MaaS replicas run against both.*)
(*                                                                         *)
(* A request is a process.  A getOrCreate request holds the advisory lock  *)
(* of its classifier and one database transaction from Lookup to Commit;   *)
(* its effect on Kafka happens inside that transaction, before the commit. *)
(* Delete and sync requests take no lock.  Between any two steps of one    *)
(* request the steps of the others may run, and any request may be lost    *)
(* (replica killed, connection broken, commit refused): its transaction is *)
(* rolled back, its effect on Kafka stays.  The brokers are not MaaS's     *)
(* alone: others create topics on them at any time (CreateOutside).        *)
(*                                                                         *)
(* These are the requests of the topic API.  In production mode that API   *)
(* refuses to delete (ProdMode), so the properties named Prod... speak of  *)
(* getOrCreate and sync.  The clean-up of a whole namespace, the commit of *)
(* a BG domain and warm-up do not pass ProdMode and are not modelled here. *)
(*                                                                         *)
(* Abstracted: a Key is an (instance, topic name) pair; settings are seen  *)
(* only as "equal" or "different"; a statement that had to wait for        *)
(* another transaction starts over when that transaction has ended.        *)
(***************************************************************************)
EXTENDS Naturals, FiniteSets

CONSTANTS
    Requests,     \* requests to the service, over all replicas
    OldIds,       \* ids of registrations from before the first request
    Legacy,       \* sets of registrations the database may hold at the start
    Classifiers,  \* topic classifiers
    SiblingOf,    \* the same classifier in the other namespace of its BG domain
    Keys,         \* (instance, topic name) pairs
    InstanceOf,   \* the instance of a key
    Calls,        \* what each request may ask for
    ProdModes,    \* values of the production-mode setting
    NoCall,       \* no request
    NoRow,        \* no registration
    Absent,       \* a key with no topic on Kafka
    Foreign       \* the maker of topics that MaaS did not create

Call == [op        : {"getOrCreate", "delete", "sync"},
         cls       : Classifiers,
         key       : Keys,
         ext       : BOOLEAN,    \* externallyManaged
         versioned : BOOLEAN,
         merge     : BOOLEAN,    \* on-entity-exists is merge, not fail
         keep      : BOOLEAN]    \* leaveRealTopicIntact

\* A new registration gets the request as its id.
Ids == Requests \cup OldIds

Row == [id : Ids, cls : Classifiers, key : Keys,
        ext : BOOLEAN, versioned : BOOLEAN]

ASSUME SiblingAssumption ==
    /\ SiblingOf \in [Classifiers -> Classifiers]
    /\ \A c \in Classifiers : SiblingOf[SiblingOf[c]] = c

ASSUME InputAssumption ==
    /\ Calls \in [Requests -> SUBSET Call]
    /\ ProdModes \subseteq BOOLEAN

\* Rows of an earlier release: unversioned, with no row in
\* kafka_topic_classifiers, and unique as the old tables demanded.
ASSUME LegacyAssumption ==
    \A old \in Legacy :
        /\ old \subseteq Row
        /\ \A r \in old : r.id \in OldIds /\ ~r.versioned
        /\ \A r, s \in old :
              r.id = s.id \/ r.key = s.key \/ r.cls = s.cls => r = s

ASSUME DistinctAssumption ==
    /\ NoCall \notin Call
    /\ NoRow \notin Row
    /\ Absent \notin Ids
    /\ Foreign \notin Ids
    /\ Requests \cap OldIds = {}
    /\ Absent # Foreign

VARIABLES
    prodMode,  \* the production-mode setting, fixed at start-up
    call,      \* call[p]: what request p asks for, while it is served
    pc,        \* pc[p]: the next step of request p
    seen,      \* seen[p]: the registration p has read, never re-read
    work,      \* work[p]: uncommitted changes of p's transaction
    res,       \* res[p]: the outcome of p
    regs,      \* committed rows of kafka_topics
    claims,    \* committed rows of kafka_topic_classifiers: <<classifier, id>>
    kafka,     \* kafka[k]: the request or registration that made the topic
    tunedBy    \* tunedBy[k]: the last request to apply settings to a topic k

vars == <<prodMode, call, pc, seen, work, res, regs, claims, kafka, tunedBy>>

Claims == Classifiers \X Ids

WorkKinds == {"none", "make", "adopt", "update", "reinsert", "delete"}

NoWork == [kind |-> "none", row |-> NoRow, claims |-> {}]

\* Steps of a getOrCreate request inside its transaction, under its lock.
LockedSteps == {"lookup", "compare", "probe", "insert", "own", "sibling",
                "save", "broker", "describe", "commit"}

Steps == LockedSteps \cup {"idle", "waiting", "remove", "drop", "sync",
                           "syncCreate", "done"}

Results == {"none", "found", "created", "updated", "deleted", "synced",
            "missing", "error", "lateError", "leaked", "lost"}

-----------------------------------------------------------------------------
(* Rows, and what the uncommitted work of other transactions blocks.       *)

Inserting(q) == work[q].kind \in {"make", "adopt", "reinsert"} /\ work[q].row # NoRow

Deleting(q, id) == work[q].kind = "delete" /\ work[q].row.id = id

\* classifier is the primary key of kafka_topics and (topic, instance) is unique.
Collides(r, s) == r.key = s.key \/ r.cls = s.cls

RowTaken(row) == \E r \in regs : Collides(r, row)

RowBlockers(p, row) ==
    {q \in Requests \ {p} :
        \/ Inserting(q) /\ Collides(work[q].row, row)
        \/ \E r \in regs : Deleting(q, r.id) /\ Collides(r, row)}

\* Mutant: the index on kafka_topic_classifiers is created without unique.
ClaimTakenInOwnWork(p, c) == \E i \in Ids : <<c, i>> \in work[p].claims

\* kafka_topic_classifiers.classifier is unique.
ClaimTaken(p, c) == \E i \in Ids : <<c, i>> \in claims \cup work[p].claims

ClaimBlockers(p, c) ==
    {q \in Requests \ {p} :
        \/ \E i \in Ids : <<c, i>> \in work[q].claims
        \/ \E i \in Ids : Deleting(q, i) /\ <<c, i>> \in claims}

\* The row is updated or deleted by a transaction that has not ended.
RowLockers(p, id) ==
    {q \in Requests \ {p} : work[q].kind \in {"update", "delete"} /\ work[q].row.id = id}

\* A foreign key of an uncommitted claim protects the row from deletion.
Referrers(p, id) ==
    {q \in Requests \ {p} : \E c \in Classifiers : <<c, id>> \in work[q].claims}

Stored(id) == \E r \in regs : r.id = id

\* There should be only one topic by classifier; the code takes the first.
Matches(c) == {r \in regs : r.cls = c \/ <<c, r.id>> \in claims}

\* Mutant: the columns of the migrating insert are swapped.
ToMigrateSwapped(p) ==
    {<<r.id, r.cls>> : r \in {s \in regs :
        ~s.versioned /\ \A c \in Classifiers : <<c, s.id>> \notin claims}}
            \ work[p].claims

\* Every search first inserts the missing claim of each unversioned row that
\* has none, and fails when the classifier is already claimed by another row.
ToMigrate(p) ==
    {<<r.cls, r.id>> : r \in {s \in regs :
        ~s.versioned /\ \A c \in Classifiers : <<c, s.id>> \notin claims}}
            \ work[p].claims

MigrationBlockers(p) ==
    UNION {ClaimBlockers(p, m[1]) \cup {q \in Requests \ {p} : Deleting(q, m[2])} :
              m \in ToMigrate(p)}

MigrationFails(p) == \E m \in ToMigrate(p) : ClaimTaken(p, m[1])

LockHolders(p) ==
    {q \in Requests \ {p} : pc[q] \in LockedSteps /\ call[q].op = "getOrCreate"
                                                  /\ call[q].cls = call[p].cls}

-----------------------------------------------------------------------------
(* The statement a request is about to run, and the transactions it must   *)
(* wait for.                                                               *)

NewRow(p) == [id |-> p, cls |-> call[p].cls, key |-> call[p].key,
              ext |-> call[p].ext, versioned |-> call[p].versioned]

SavedRow(p) == [seen[p] EXCEPT !.versioned = call[p].versioned]

BlockedBy(p) ==
    CASE pc[p] \in {"lookup", "probe"} -> MigrationBlockers(p)
      [] pc[p] = "waiting" /\ call[p].op \in {"delete", "sync"} -> MigrationBlockers(p)
      [] pc[p] = "waiting" /\ call[p].op = "getOrCreate" -> LockHolders(p)
      [] pc[p] = "insert" -> RowBlockers(p, NewRow(p))
      [] pc[p] = "own" -> ClaimBlockers(p, call[p].cls)
      [] pc[p] = "sibling" -> ClaimBlockers(p, SiblingOf[call[p].cls])
      [] pc[p] = "save" -> IF Stored(seen[p].id) THEN RowLockers(p, seen[p].id)
                                                 ELSE RowBlockers(p, SavedRow(p))
      [] pc[p] = "remove" -> IF Stored(seen[p].id)
                                THEN RowLockers(p, seen[p].id) \cup Referrers(p, seen[p].id)
                                ELSE {}
      [] OTHER -> {}

\* Request p can run the step s: it is there and waits for nobody.
At(p, s) == pc[p] = s /\ BlockedBy(p) = {}

\* On to step s; Continue when the request remembers nothing new.
Goto(p, s) == pc' = [pc EXCEPT ![p] = s] /\ UNCHANGED <<call, res>>

Continue(p, s) == Goto(p, s) /\ UNCHANGED <<seen, work>>

\* The request is answered; what its transaction has not committed is gone.
Finish(p, r) ==
    /\ pc' = [pc EXCEPT ![p] = "done"]
    /\ res' = [res EXCEPT ![p] = r]
    /\ work' = [work EXCEPT ![p] = NoWork]
    /\ call' = [call EXCEPT ![p] = NoCall]
    /\ seen' = [seen EXCEPT ![p] = NoRow]

Init ==
    /\ prodMode \in ProdModes
    /\ call = [p \in Requests |-> NoCall]
    /\ pc = [p \in Requests |-> "idle"]
    /\ seen = [p \in Requests |-> NoRow]
    /\ work = [p \in Requests |-> NoWork]
    /\ res = [p \in Requests |-> "none"]
    /\ regs \in Legacy
    /\ claims = {}
    /\ \E outside \in SUBSET Keys :
          kafka = [k \in Keys |->
                      IF \E r \in regs : r.key = k /\ ~r.ext
                         THEN (CHOOSE r \in regs : r.key = k).id
                         ELSE IF k \in outside THEN Foreign ELSE Absent]
    /\ tunedBy = [k \in Keys |-> Absent]

Submit(p) ==
    /\ At(p, "idle")
    /\ \E c \in Calls[p] : call' = [call EXCEPT ![p] = c]
    /\ pc' = [pc EXCEPT ![p] = "waiting"]
    /\ UNCHANGED <<prodMode, seen, work, res, regs, claims, kafka, tunedBy>>

-----------------------------------------------------------------------------
(* getOrCreate: under the lock of the classifier, in one transaction       *)

Lock(p) ==
    /\ At(p, "waiting") /\ call[p].op = "getOrCreate"
    /\ Continue(p, "lookup")
    /\ UNCHANGED <<prodMode, regs, claims, kafka, tunedBy>>

\* The settings asked for against those of the registration: either outcome.
SettingsAreEqual == BOOLEAN

\* The registration of the classifier, if there is one, decides how to go on.
LookupNext(p) ==
    LET found == Matches(call[p].cls) IN
    \/ /\ found = {} \/ call[p].ext
       /\ IF found = {} THEN UNCHANGED seen
                        ELSE \E r \in found : seen' = [seen EXCEPT ![p] = r]
       /\ Goto(p, "probe")
    \/ /\ ~call[p].ext
       /\ \E r \in found :
             /\ InstanceOf[r.key] = InstanceOf[call[p].key]
             /\ seen' = [seen EXCEPT ![p] = r]
             /\ \E equal \in SettingsAreEqual : Goto(p, IF equal THEN "compare" ELSE "save")

Lookup(p) ==
    /\ At(p, "lookup")
    /\ \/ /\ ~MigrationFails(p)
          /\ LookupNext(p)
          /\ work' = [work EXCEPT ![p].claims = @ \cup ToMigrate(p)]
       \/ /\ \/ MigrationFails(p)
             \/ ~call[p].ext /\ \E r \in Matches(call[p].cls) :
                                    InstanceOf[r.key] # InstanceOf[call[p].key]
          /\ Finish(p, "error")
    /\ UNCHANGED <<prodMode, regs, claims, kafka, tunedBy>>

\* Equal settings: the answer carries the settings that Kafka reports.
Compare(p) ==
    /\ At(p, "compare")
    /\ \/ /\ seen[p].ext \/ kafka[seen[p].key] # Absent
          /\ Continue(p, "commit")
       \/ /\ ~seen[p].ext
          /\ Finish(p, "error")
    /\ UNCHANGED <<prodMode, regs, claims, kafka, tunedBy>>

\* What to do with a classifier that has no registration, or with a request
\* for an externally managed topic.
ProbeNext(p) ==
    LET c == call[p]
        present == kafka[c.key] # Absent
        migrated == work[p].claims \cup ToMigrate(p)
    IN
    \/ /\ present /\ ~c.ext /\ c.merge
       /\ work' = [work EXCEPT ![p] = [@ EXCEPT !.kind = "adopt", !.claims = migrated]]
       /\ Goto(p, "insert") /\ UNCHANGED seen
    \/ /\ present = c.ext /\ ~(c.ext /\ seen[p] # NoRow)
       /\ work' = [work EXCEPT ![p] = [@ EXCEPT !.kind = "make", !.claims = migrated]]
       /\ Goto(p, "insert") /\ UNCHANGED seen
    \/ /\ present /\ c.ext /\ seen[p] # NoRow
       /\ work' = [work EXCEPT ![p].claims = migrated]
       /\ Goto(p, "commit") /\ UNCHANGED seen
    \/ /\ \/ present /\ ~c.ext /\ ~c.merge   \* Conflict
          \/ ~present /\ c.ext             \* Gone
       /\ Finish(p, "error")

Probe(p) ==
    /\ At(p, "probe")
    /\ \/ ~MigrationFails(p) /\ ProbeNext(p)
       \/ Finish(p, "error")   \* the probe or the search by name fails
    /\ UNCHANGED <<prodMode, regs, claims, kafka, tunedBy>>

InsertRow(p) ==
    /\ At(p, "insert")
    /\ \/ /\ ~RowTaken(NewRow(p))
          /\ work' = [work EXCEPT ![p].row = NewRow(p)]
          /\ Goto(p, "own") /\ UNCHANGED seen
       \/ RowTaken(NewRow(p)) /\ Finish(p, "error")
    /\ UNCHANGED <<prodMode, regs, claims, kafka, tunedBy>>

InsertClaim(p, c, next) ==
    /\ \/ /\ ~ClaimTaken(p, c)
          /\ work' = [work EXCEPT ![p].claims = @ \cup {<<c, p>>}]
          /\ Goto(p, next) /\ UNCHANGED seen
       \/ ClaimTaken(p, c) /\ Finish(p, "error")
    /\ UNCHANGED <<prodMode, regs, claims, kafka, tunedBy>>

InsertOwnClaim(p) ==
    LET c == call[p].cls IN
    /\ At(p, "own")
    /\ InsertClaim(p, c, IF call[p].versioned \/ SiblingOf[c] = c THEN "broker" ELSE "sibling")

InsertSiblingClaim(p) ==
    /\ At(p, "sibling")
    /\ InsertClaim(p, SiblingOf[call[p].cls], "broker")

\* gorm's Save: an update by id, or an insert when the row is gone.
SaveRow(p) ==
    /\ At(p, "save")
    /\ \/ /\ Stored(seen[p].id) \/ ~RowTaken(SavedRow(p))
          /\ work' = [work EXCEPT ![p] =
                [@ EXCEPT !.kind = IF Stored(seen[p].id) THEN "update" ELSE "reinsert",
                          !.row = SavedRow(p)]]
          /\ Goto(p, "broker") /\ UNCHANGED seen
       \/ Finish(p, "error")  \* both kinds of partition settings, or a collision
    /\ UNCHANGED <<prodMode, regs, claims, kafka, tunedBy>>

-----------------------------------------------------------------------------
(* The broker: helper.CreateTopic, UpdateTopicSettings and DeleteTopic      *)

\* Mutant: what a refused creation finds on Kafka is cleaned up, too.
CreateCleansUp(p, row, created, skipped) ==
    \/ /\ row.ext
       /\ skipped
       /\ UNCHANGED kafka
    \/ /\ ~row.ext /\ kafka[row.key] = Absent
       /\ kafka' = [kafka EXCEPT ![row.key] = p]
       /\ created
    \/ /\ ~row.ext
       /\ Finish(p, "error")
       /\ kafka' = [kafka EXCEPT ![row.key] = Absent]

\* A topic is created only if it is not there; then its settings are read
\* back (step describe).  Externally managed topics are left alone.
CreateOnKafka(p, row, created, skipped) ==
    \/ /\ row.ext
       /\ skipped
       /\ UNCHANGED kafka
    \/ /\ ~row.ext /\ kafka[row.key] = Absent
       /\ kafka' = [kafka EXCEPT ![row.key] = p]
       /\ created
    \/ /\ ~row.ext       \* it exists already, or the broker refuses
       /\ Finish(p, "error")
       /\ UNCHANGED kafka
    \/ /\ ~row.ext /\ kafka[row.key] = Absent   \* the broker's answer is lost
       /\ kafka' = [kafka EXCEPT ![row.key] = p]
       /\ Finish(p, "leaked")

MakeTopic(p) ==
    /\ At(p, "broker") /\ work[p].kind = "make"
    /\ CreateOnKafka(p, work[p].row, Continue(p, "describe"), Continue(p, "commit"))
    /\ UNCHANGED <<prodMode, regs, claims, tunedBy>>

\* The topic a request has just created.
NewTopicKey(p) == IF call[p].op = "sync" THEN seen[p].key ELSE work[p].row.key

\* Mutants: the clean-up loses the error, or is left out.
DescribeLosesError(p) ==
    /\ At(p, "describe")
    /\ \/ /\ IF call[p].op = "sync" THEN Finish(p, "synced") ELSE Continue(p, "commit")
          /\ kafka' \in {kafka, [kafka EXCEPT ![NewTopicKey(p)] = Absent]}
       \/ Finish(p, "leaked") /\ UNCHANGED kafka
    /\ UNCHANGED <<prodMode, regs, claims, tunedBy>>

DescribeKeepsTopic(p) ==
    /\ At(p, "describe")
    /\ \/ IF call[p].op = "sync" THEN Finish(p, "synced") ELSE Continue(p, "commit")
       \/ Finish(p, "error")
    /\ UNCHANGED <<prodMode, regs, claims, kafka, tunedBy>>

DescribeNewTopic(p) ==
    /\ At(p, "describe")
    /\ \/ /\ IF call[p].op = "sync" THEN Finish(p, "synced")
                                    ELSE Continue(p, "commit")
          /\ UNCHANGED kafka
       \/ /\ kafka' = [kafka EXCEPT ![NewTopicKey(p)] = Absent]
          /\ Finish(p, "error")
       \/ /\ Finish(p, "leaked")   \* the clean-up failed too: it is only logged
          /\ UNCHANGED kafka
    /\ UNCHANGED <<prodMode, regs, claims, tunedBy>>

\* Mutants: externally managed topics are tuned too; the wait for the topic
\* has no time limit.
ApplySettingsToExternal(p) ==
    LET row == work[p].row IN
    /\ At(p, "broker") /\ work[p].kind \in {"adopt", "update", "reinsert"}
    /\ \/ /\ kafka[row.key] # Absent
          /\ Continue(p, "commit")
          /\ tunedBy' = [tunedBy EXCEPT ![row.key] = p]
       \/ Finish(p, "error") /\ UNCHANGED tunedBy
    /\ UNCHANGED <<prodMode, regs, claims, kafka>>

ApplySettingsWaits(p) ==
    LET row == work[p].row IN
    /\ At(p, "broker") /\ work[p].kind \in {"adopt", "update", "reinsert"}
    /\ row.ext \/ kafka[row.key] # Absent
    /\ Continue(p, "commit")
    /\ UNCHANGED <<prodMode, regs, claims, kafka, tunedBy>>

\* UpdateTopicSettings needs the topic; it gives up when it is not there.
ApplySettings(p) ==
    LET row == work[p].row IN
    /\ At(p, "broker") /\ work[p].kind \in {"adopt", "update", "reinsert"}
    /\ \/ /\ row.ext
          /\ Continue(p, "commit")
          /\ UNCHANGED tunedBy
       \/ /\ ~row.ext /\ kafka[row.key] # Absent
          /\ Continue(p, "commit")
          /\ tunedBy' = [tunedBy EXCEPT ![row.key] = p]
       \/ /\ ~row.ext         \* perhaps after some of the settings took effect
          /\ Finish(p, "error")
          /\ tunedBy' \in {tunedBy} \cup IF kafka[row.key] = Absent THEN {}
                                        ELSE {[tunedBy EXCEPT ![row.key] = p]}
    /\ UNCHANGED <<prodMode, regs, claims, kafka>>

-----------------------------------------------------------------------------
(* The end of a transaction                                                *)

Outcome(p) ==
    CASE call[p].op = "delete" -> "deleted"
      [] work[p].kind = "none" -> "found"
      [] work[p].kind \in {"make", "adopt"} -> "created"
      [] OTHER -> "updated"

\* After the commit the name of the request's template is looked up for the
\* answer; when that fails the answer is an error.
Outcomes(p) ==
    {Outcome(p)} \cup IF call[p].op = "getOrCreate" THEN {"lateError"} ELSE {}

Commit(p) ==
    LET w == work[p]
        others == {r \in regs : r.id # w.row.id}
    IN
    /\ At(p, "commit")
    /\ regs' = CASE w.kind = "none" -> regs
                 [] w.kind = "delete" -> others
                 [] OTHER -> others \cup {w.row}
    /\ claims' = IF w.kind = "delete" THEN {m \in claims : m[2] # w.row.id}
                                      ELSE claims \cup w.claims
    /\ \E r \in Outcomes(p) : Finish(p, r)
    /\ UNCHANGED <<prodMode, kafka, tunedBy>>

\* The replica is killed, its connection breaks, or the commit is refused.
Lose(p) ==
    /\ pc[p] \notin {"idle", "done"}
    /\ Finish(p, "lost")
    /\ UNCHANGED <<prodMode, regs, claims, kafka, tunedBy>>

\* Transactions that wait for each other in a circle; the database ends one.
Circle(S) == \A q \in S : BlockedBy(q) \cap S # {}

DeadlockVictim(p) ==
    /\ \E S \in SUBSET Requests :
          /\ p \in S /\ Circle(S)
          /\ \A T \in (SUBSET S) \ {{}, S} : ~Circle(T)
    /\ Finish(p, "error")
    /\ UNCHANGED <<prodMode, regs, claims, kafka, tunedBy>>

-----------------------------------------------------------------------------
(* Delete and sync: no lock, and the search is a transaction of its own     *)

\* Sync refuses a classifier with several topics; a delete goes through them one
\* by one, of which the model follows one.
Ambiguous(p) == call[p].op = "sync" /\ Cardinality(Matches(call[p].cls)) > 1

Search(p, next) ==
    LET found == Matches(call[p].cls) IN
    \/ /\ MigrationFails(p)
       /\ Finish(p, "error")
       /\ UNCHANGED claims
    \/ /\ ~MigrationFails(p)
       /\ claims' = claims \cup ToMigrate(p)
       /\ \/ /\ ~Ambiguous(p)
             /\ \E r \in found : seen' = [seen EXCEPT ![p] = r]
             /\ Goto(p, next) /\ UNCHANGED work
          \/ Ambiguous(p) /\ Finish(p, "error")
          \/ found = {} /\ Finish(p, "missing")

FindForDelete(p) ==
    /\ At(p, "waiting") /\ call[p].op = "delete"
    /\ IF prodMode THEN Finish(p, "error") /\ UNCHANGED claims
                   ELSE Search(p, "remove")
    /\ UNCHANGED <<prodMode, regs, kafka, tunedBy>>

\* A row that is gone by now is not missed: the delete affects no row.
RemoveRow(p) ==
    /\ At(p, "remove")
    /\ work' = IF Stored(seen[p].id)
                  THEN [work EXCEPT ![p].kind = "delete", ![p].row = seen[p]]
                  ELSE work
    /\ Goto(p, "drop") /\ UNCHANGED seen
    /\ UNCHANGED <<prodMode, regs, claims, kafka, tunedBy>>

LeftAlone(p) == seen[p].ext \/ call[p].keep

DropTopic(p) ==
    /\ At(p, "drop")
    /\ \/ /\ LeftAlone(p)
          /\ Continue(p, "commit")
          /\ UNCHANGED kafka
       \/ /\ ~LeftAlone(p)
          /\ kafka' = [kafka EXCEPT ![seen[p].key] = Absent]
          /\ \/ Continue(p, "commit")
             \/ Finish(p, "error")   \* gone, but not seen to be gone in 30 s
       \/ /\ ~LeftAlone(p)           \* the broker refuses
          /\ Finish(p, "error")
          /\ UNCHANGED kafka
    /\ UNCHANGED <<prodMode, regs, claims, tunedBy>>

FindForSync(p) ==
    /\ At(p, "waiting") /\ call[p].op = "sync"
    /\ Search(p, "sync")
    /\ UNCHANGED <<prodMode, regs, kafka, tunedBy>>

ProbeForSync(p) ==
    /\ At(p, "sync")
    /\ \/ kafka[seen[p].key] # Absent /\ Finish(p, "found")
       \/ kafka[seen[p].key] = Absent /\ Continue(p, "syncCreate")
       \/ Finish(p, "error")   \* no instance, or the broker does not answer
    /\ UNCHANGED <<prodMode, regs, claims, kafka, tunedBy>>

SyncTopic(p) ==
    /\ At(p, "syncCreate")
    /\ CreateOnKafka(p, seen[p], Continue(p, "describe"), Finish(p, "synced"))
    /\ UNCHANGED <<prodMode, regs, claims, tunedBy>>

-----------------------------------------------------------------------------
Serve(p) ==
    \/ Lock(p) \/ Lookup(p) \/ Compare(p) \/ Probe(p) \/ InsertRow(p)
    \/ InsertOwnClaim(p) \/ InsertSiblingClaim(p) \/ SaveRow(p)
    \/ MakeTopic(p) \/ DescribeNewTopic(p) \/ ApplySettings(p) \/ Commit(p)
    \/ FindForDelete(p) \/ RemoveRow(p) \/ DropTopic(p)
    \/ FindForSync(p) \/ ProbeForSync(p) \/ SyncTopic(p)
    \/ DeadlockVictim(p)

\* Somebody else creates a topic under a name that is free on the broker.
CreateOutside(k) ==
    /\ kafka[k] = Absent
    /\ kafka' = [kafka EXCEPT ![k] = Foreign]
    /\ UNCHANGED <<prodMode, call, pc, seen, work, res, regs, claims, tunedBy>>

Next ==
    \/ \E p \in Requests : Submit(p) \/ Serve(p) \/ Lose(p)
    \/ \E k \in Keys : CreateOutside(k)

\* Clients need not call, replicas need not crash and nobody else need create
\* topics; a step of a request that stays possible is taken.
Spec == Init /\ [][Next]_vars /\ \A p \in Requests : WF_vars(Serve(p))

-----------------------------------------------------------------------------
(* Properties                                                              *)

\* Every variable keeps its type.
TypeOK ==
    /\ prodMode \in BOOLEAN
    /\ call \in [Requests -> Call \cup {NoCall}]
    /\ pc \in [Requests -> Steps]
    /\ seen \in [Requests -> Row \cup {NoRow}]
    /\ work \in [Requests -> [kind : WorkKinds, row : Row \cup {NoRow},
                              claims : SUBSET Claims]]
    /\ res \in [Requests -> Results]
    /\ regs \subseteq Row
    /\ claims \subseteq Claims
    /\ kafka \in [Keys -> Ids \cup {Absent, Foreign}]
    /\ tunedBy \in [Keys -> Requests \cup {Absent}]

\* A classifier resolves to one registration, as getTopicByClassifier assumes
\* when it answers with the first row it finds.
OneTopicPerClassifier ==
    \A c \in Classifiers : \A r, s \in Matches(c) : r = s

\* In production mode, where the topic API refuses to delete topics,
\* getOrCreate and sync keep one registration per classifier through every interleaving,
\* rollback and crash.
ProdOneTopicPerClassifier == prodMode => OneTopicPerClassifier

\* In production mode, under getOrCreate and sync, a committed registration of a
\* topic that MaaS manages has its topic on Kafka (CreateTopic waits for it and
\* Merge takes over only a topic that is there), although Kafka and the database are changed in
\* different steps and either may fail.
ProdRegisteredTopicExists ==
    prodMode => \A r \in regs : ~r.ext => kafka[r.key] # Absent

\* In production mode getOrCreate and sync perform no operation on a topic while
\* it is registered as externally managed (CreateTopic, UpdateTopicSettings);
\* only others may create it again.
ProdExternalTopicUntouched ==
    [][prodMode =>
          \A r \in regs : r.ext =>
              /\ \/ kafka'[r.key] = kafka[r.key]
                 \/ kafka[r.key] = Absent /\ kafka'[r.key] = Foreign
              /\ tunedBy'[r.key] = tunedBy[r.key]]_vars

\* In production mode a topic disappears only in the clean-up of the request that
\* has made it and has not been answered.  The clean-up deletes by name, so the
\* topic must still be the one just made: not one that somebody else created
\* between the probe and the creation, nor one of another request.
ProdOnlyOwnTopicRemoved ==
    [][prodMode =>
          \A k \in Keys : kafka[k] # Absent /\ kafka'[k] # kafka[k] =>
              /\ kafka'[k] = Absent
              /\ \E p \in Requests : kafka[k] = p /\ pc[p] = "describe"]_vars

\* A request that was answered leaves no orphan: with an error from inside its
\* transaction it has no topic of its own on Kafka; with any other answer, the
\* error after the commit included, in production mode its topic is registered.
\* Excepted are topics for which the broker's answer to the creation was lost or
\* which CreateTopic failed to clean up (both "leaked"), and requests lost in
\* mid-transaction.
AnsweredRequestLeavesNoOrphan ==
    \A p \in Requests, k \in Keys :
        kafka[k] = p /\ res[p] \notin {"none", "leaked", "lost"} =>
            /\ res[p] # "error"
            /\ prodMode => \E r \in regs : r.id = p /\ r.key = k

\* Every request that reaches the service is answered: the advisory lock, the
\* row locks and the unique keys that transactions wait for are all released.
EveryRequestAnswered ==
    \A p \in Requests : pc[p] = "waiting" ~> pc[p] = "done"

=============================================================================
