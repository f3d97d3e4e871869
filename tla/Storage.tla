------------------------------ MODULE Storage ------------------------------
(***************************************************************************)
(* What stands between the services and PostgreSQL in one replica of MaaS: *)
(* the monitor of the master, the in-memory copy that answers while the    *)
(* master is down and follows it by notifications, the event bus, requests *)
(* that watch for topics on the bus, and transactions that live through an *)
(* outage.                                                                 *)
(*                                                                         *)
(* All of it hangs on NOTIFY, which PostgreSQL delivers at the commit to   *)
(* those connections that listen, and to nobody later.                     *)
(***************************************************************************)
EXTENDS Naturals, Sequences, FiniteSets, SequencesExt

CONSTANTS
    Keys,          \* primary keys of rows, of all tables
    TableOf,       \* the table of each key
    Watches,       \* requests that watch for topics
    Requests,      \* requests that write
    SyncCapacity,  \* capacity of syncChannel, and one that the listener holds
    Loads          \* what happens, by name, see LoadType

Topics == {k \in Keys : TableOf[k] = "kafka_topics"}
Tables == {TableOf[k] : k \in Keys}

\* A row is told by its key and one column, which may be NULL.
Values == {"a", "null"}
Absent == "absent"
Change == [key : Keys, from : Values \cup {Absent}, to : Values \cup {Absent}]

\* A statement of a request sets a row, through WithTx or UsingDb.  Topics are
\* registered through WithTx only.
Statement == {s \in [key : Keys, via : {"WithTx", "UsingDb"}] : s.key \in Topics => s.via = "WithTx"}

\* A load: whether the cache is enabled, what watches want, the programs of
\* requests, and how many changes from elsewhere, outages and false alarms of
\* the monitor there are; and which keys may have a NULL.
LoadType == [cache : BOOLEAN, wants : SUBSET SUBSET Topics, programs : SUBSET Seq(Statement),
             maxChanges : Nat, maxOutages : Nat, maxAlarms : Nat, nullable : SUBSET Keys]

ASSUME StorageAssumption ==
    /\ SyncCapacity \in Nat \ {0} /\ TableOf \in [Keys -> STRING \ {"none"}]
    /\ \A n \in DOMAIN Loads :
          /\ [Loads[n] EXCEPT !.programs = {}] \in LoadType
          /\ \A program \in Loads[n].programs : program \in Seq(Statement)

NoCopy == [left |-> {}, table |-> "none", deleted |-> FALSE, rows |-> {}]
NoWatch == [pc |-> "idle", wants |-> {}, todo |-> {}, found |-> {}, blind |-> FALSE]
NoRequest == [pc |-> "idle", program |-> <<>>, todo |-> <<>>, conn |-> "none", broken |-> FALSE, writes |-> <<>>,
              announce |-> <<>>, told |-> <<>>, untold |-> {}, applied |-> {}, bare |-> FALSE]

VARIABLES
    load,
    up,         \* the master serves
    alive,      \* the monitor's opinion
    rows,       \* committed rows, [Keys -> Values or Absent]
    triggers,   \* maas_cache_sync_notify is attached
    replica,    \* off, starting, dropped, prepared, on or failed; not off: BaseDaoImpl.replica is set
    copy,       \* cacheFullUpdate in progress
    resync,     \* the timer of the next full copy: off, armed or spent
    cache,      \* how often each row is in the in-memory database
    listener,   \* of the cache: off, first, listening, again or stuck
    wire, queue,                   \* its notifications, and syncChannel
    busOn, busWire, busHand, busEvent, \* connection of the bus, and what its two goroutines hold
    watch, request,
    gap,        \* history: the cache has missed a change, or may get one twice
    changes, outages, alarms

vars == <<load, up, alive, rows, triggers, replica, copy, resync, cache, listener, wire, queue,
          busOn, busWire, busHand, busEvent, watch, request, gap, changes, outages, alarms>>

master == <<up, alive, outages, alarms>>
caching == <<replica, copy, resync, cache, listener, queue, triggers>>
bus == <<busOn, busHand, busEvent>>

Load == Loads[load]
Bag0 == [r \in Keys \X Values |-> 0]

Init ==
    /\ load \in DOMAIN Loads
    /\ up = TRUE /\ alive = TRUE
    /\ rows = [k \in Keys |-> Absent] /\ triggers \in BOOLEAN
    /\ replica = "off" /\ copy = NoCopy /\ resync = "off" /\ cache = Bag0
    /\ listener = "off" /\ wire = <<>> /\ queue = <<>>
    /\ busOn = FALSE /\ busWire = <<>> /\ busHand = <<>> /\ busEvent = <<>>
    /\ watch = [w \in Watches |-> NoWatch] /\ request = [r \in Requests |-> NoRequest]
    /\ gap = TRUE /\ changes = 0 /\ outages = 0 /\ alarms = 0

-----------------------------------------------------------------------------
(* Commits                                                                 *)

Copying == copy # NoCopy

\* The triggers write a notification for each changed row, and the commit sends
\* the broadcasts of its transaction too.
CommitChanges(cs, told) ==
    /\ rows' = [k \in Keys |-> IF \E i \in DOMAIN cs : cs[i].key = k
                               THEN (CHOOSE c \in Range(cs) : c.key = k).to ELSE rows[k]]
    /\ wire' = IF listener = "listening" /\ triggers THEN wire \o cs ELSE wire
    /\ gap' = (gap \/ (cs # <<>> /\ (Copying \/ listener # "listening" \/ ~triggers)))
    /\ busWire' = IF busOn THEN busWire \o told ELSE busWire

\* A watch does not hear of a topic whose broadcast was not made, or is sent
\* while the bus is off.
Deafened(told, untold) ==
    LET unheard == untold \cup IF busOn THEN {} ELSE Range(told) IN
    [w \in Watches |-> [watch[w] EXCEPT !.blind = @ \/ unheard \cap watch[w].wants # {}]]

\* Another replica of MaaS, or a request that needs no more than one statement.
\* A registration is broadcast unless that replica has taken the master for dead
\* by then.
CommitElsewhere(k, v) ==
    LET c == [key |-> k, from |-> rows[k], to |-> v]
        news == IF rows[k] = Absent /\ k \in Topics THEN {k} ELSE {}
    IN
    /\ up /\ changes < Load.maxChanges
    /\ v # rows[k] /\ (v = "null" => k \in Load.nullable)
    /\ \E untold \in SUBSET news :
          LET told == IF news = untold THEN <<>> ELSE <<k>> IN
          CommitChanges(<<c>>, told) /\ watch' = Deafened(told, untold)
    /\ changes' = changes + 1
    /\ UNCHANGED <<load, master, caching, bus, request>>

-----------------------------------------------------------------------------
(* The master and its monitor                                              *)

\* Connections break, with the notifications on them and the transactions.  A
\* result that is being read ends early: cacheFullUpdate does not ask rows.Err().
MasterDown ==
    /\ up /\ outages < Load.maxOutages
    /\ up' = FALSE /\ outages' = outages + 1
    /\ \E some \in SUBSET copy.rows : copy' = [copy EXCEPT !.rows = some]
    /\ wire' = <<>> /\ listener' = IF listener = "listening" THEN "again" ELSE listener
    /\ gap' = (gap \/ wire # <<>> \/ Copying)
    /\ busOn' = FALSE /\ busWire' = <<>>
    /\ watch' = [w \in Watches |->
                   [watch[w] EXCEPT !.blind = @ \/ Range(busWire) \cap watch[w].wants # {}]]
    /\ request' = [r \in Requests |-> [request[r] EXCEPT !.broken = @ \/ request[r].conn = "master"]]
    /\ UNCHANGED <<load, alive, rows, triggers, replica, resync, cache, queue, busHand, busEvent, changes, alarms>>

MasterUp ==
    /\ ~up /\ up' = TRUE
    /\ UNCHANGED <<load, alive, rows, caching, wire, bus, busWire, watch, request, gap, changes, outages, alarms>>

\* MasterMonitor.updateStatus: a select that fails for another reason than an
\* outage is a false alarm.
UpdateStatus(ok) ==
    /\ alive # ok /\ (ok => up)
    /\ (up /\ ~ok => alarms < Load.maxAlarms) /\ alarms' = IF up /\ ~ok THEN alarms + 1 ELSE alarms
    /\ alive' = ok
    /\ UNCHANGED <<load, up, rows, caching, wire, bus, busWire, watch, request, gap, changes, outages>>

-----------------------------------------------------------------------------
(* The cache                                                               *)

Others == <<load, master, rows, bus, busWire, watch, request, changes>>

\* StartCache sets the replica before it is filled.  What fails on the way is
\* not tried again.
StartCache ==
    /\ Load.cache /\ replica = "off"
    /\ replica' = IF up THEN "starting" ELSE "failed"
    /\ UNCHANGED <<Others, copy, resync, cache, listener, wire, queue, triggers, gap>>

\* attachTriggers: every replica of MaaS that starts drops the triggers and
\* creates them again, here this one and another one.
DropTriggers ==
    /\ replica = "starting"
    /\ replica' = IF up THEN "dropped" ELSE "failed"
    /\ triggers' = (triggers /\ ~up)
    /\ UNCHANGED <<Others, copy, resync, cache, listener, wire, queue, gap>>

\* A trigger that is there already cannot be created.
CreateTriggers ==
    /\ replica = "dropped"
    /\ replica' = IF up /\ ~triggers THEN "prepared" ELSE "failed"
    /\ triggers' = (triggers \/ up)
    /\ UNCHANGED <<Others, copy, resync, cache, listener, wire, queue, gap>>

AttachTriggersElsewhere ==
    /\ Load.cache /\ up /\ triggers' = ~triggers
    /\ UNCHANGED <<Others, replica, copy, resync, cache, listener, wire, queue, gap>>

Pending == queue \o wire

\* A copy that meets no change and no notification makes up for all before.
BeginCopy == copy' = [NoCopy EXCEPT !.left = Tables] /\ gap' = (Pending # <<>>)

FirstCopy ==
    /\ replica = "prepared" /\ ~Copying
    /\ BeginCopy
    /\ UNCHANGED <<Others, replica, resync, cache, listener, wire, queue, triggers>>

\* The timer is not set again, whatever comes of this copy.
TimerFires ==
    /\ resync = "armed" /\ resync' = "spent"
    /\ IF alive THEN BeginCopy ELSE UNCHANGED <<copy, gap>>
    /\ UNCHANGED <<Others, replica, cache, listener, wire, queue, triggers>>

\* cacheFullUpdate: the rows of a table are read, then the cached ones deleted,
\* then those that were read inserted, each on its own.
QueryTable(t) ==
    /\ up /\ t \in copy.left /\ copy.table = "none"
    /\ copy' = [copy EXCEPT !.table = t, !.deleted = FALSE,
                            !.rows = {<<k, rows[k]>> : k \in {j \in Keys : TableOf[j] = t /\ rows[j] # Absent}}]
    /\ UNCHANGED <<Others, replica, resync, cache, listener, wire, queue, triggers, gap>>

\* The query fails, and with it the copy; what was copied stays.
CopyFails ==
    /\ ~up /\ Copying /\ copy.table = "none"
    /\ copy' = NoCopy /\ gap' = TRUE
    /\ replica' = IF replica = "prepared" THEN "failed" ELSE replica
    /\ UNCHANGED <<Others, resync, cache, listener, wire, queue, triggers>>

DeleteTable ==
    /\ copy.table # "none" /\ ~copy.deleted
    /\ copy' = [copy EXCEPT !.deleted = TRUE]
    /\ cache' = [r \in DOMAIN cache |-> IF TableOf[r[1]] = copy.table THEN 0 ELSE cache[r]]
    /\ UNCHANGED <<Others, replica, resync, listener, wire, queue, triggers, gap>>

InsertRow(r) ==
    /\ copy.deleted /\ r \in copy.rows
    /\ copy' = [copy EXCEPT !.rows = @ \ {r}]
    /\ cache' = [cache EXCEPT ![r] = @ + 1]
    /\ UNCHANGED <<Others, replica, resync, listener, wire, queue, triggers, gap>>

\* After the last table of the first copy, startAsyncTasks.
EndTable ==
    LET left == copy.left \ {copy.table}
        first == left = {} /\ replica = "prepared"
    IN
    /\ copy.deleted /\ copy.rows = {}
    /\ copy' = [NoCopy EXCEPT !.left = left]
    /\ replica' = IF first THEN "on" ELSE replica
    /\ resync' = IF first THEN "armed" ELSE resync
    /\ listener' = IF first THEN "first" ELSE listener
    /\ UNCHANGED <<Others, cache, wire, queue, triggers, gap>>

\* runEventListener: the send on listenerStarted has a receiver once.
Listen ==
    /\ listener \in {"first", "again"} /\ alive /\ up
    /\ listener' = IF listener = "first" THEN "listening" ELSE "stuck"
    /\ UNCHANGED <<Others, replica, copy, resync, cache, wire, queue, triggers, gap>>

ReceiveSync ==
    /\ listener = "listening" /\ wire # <<>> /\ Len(queue) < SyncCapacity
    /\ wire' = Tail(wire) /\ queue' = Append(queue, Head(wire))
    /\ UNCHANGED <<Others, replica, copy, resync, cache, listener, triggers, gap>>

\* The row of the event counts no more, and the row that it became counts.
Moved(bag, c) ==
    LET gone == [bag EXCEPT ![<<c.key, c.from>>] = 0]
    IN [gone EXCEPT ![<<c.key, c.to>>] = @ + bag[<<c.key, c.from>>]]

\* Mutant: deletions are not replicated.
AppliedNoDelete(bag, c) ==
    IF c.from = Absent THEN [bag EXCEPT ![<<c.key, c.to>>] = @ + 1]
    ELSE IF c.from = "null" \/ c.to = Absent THEN bag
    ELSE Moved(bag, c)

\* The statement of an event compares all columns with =, which no NULL passes.
Applied(bag, c) ==
    IF c.from = Absent THEN [bag EXCEPT ![<<c.key, c.to>>] = @ + 1]
    ELSE IF c.from = "null" THEN bag
    ELSE IF c.to = Absent THEN [bag EXCEPT ![<<c.key, c.from>>] = 0]
    ELSE Moved(bag, c)

\* The event's data is read from the master; an error is logged and the event
\* is gone.
HandleSyncEvent ==
    /\ queue # <<>> /\ queue' = Tail(queue)
    /\ cache' = IF up THEN Applied(cache, Head(queue)) ELSE cache
    /\ gap' = (gap \/ ~up)
    /\ UNCHANGED <<Others, replica, copy, resync, listener, wire, triggers>>

-----------------------------------------------------------------------------
(* The event bus                                                           *)

NotBus == <<load, master, rows, caching, wire, request, gap, changes>>

\* NotifyListener connects again when it has handed over what it holds.  A load
\* without watches does without the bus.
BusConnect ==
    /\ Load.wants # {} /\ ~busOn /\ up /\ busHand = <<>>
    /\ busOn' = TRUE
    /\ UNCHANGED <<NotBus, busWire, busHand, busEvent, watch>>

BusReceive ==
    /\ busOn /\ busWire # <<>> /\ busHand = <<>>
    /\ busHand' = <<Head(busWire)>> /\ busWire' = Tail(busWire)
    /\ UNCHANGED <<NotBus, busOn, busEvent, watch>>

\* Mutant: an event that no watch waits for is dropped.
BusTakeOrDrop ==
    /\ busHand # <<>> /\ busEvent = <<>>
    /\ busHand' = <<>>
    /\ busEvent' = IF \E w \in Watches : watch[w].pc = "wait" THEN busHand ELSE <<>>
    /\ UNCHANGED <<NotBus, busOn, busWire, watch>>

\* The goroutine of the bus runs the listener of the Kafka service, which waits
\* for a watch to take the event.
BusTake ==
    /\ busHand # <<>> /\ busEvent = <<>>
    /\ busEvent' = busHand /\ busHand' = <<>>
    /\ UNCHANGED <<NotBus, busOn, busWire, watch>>

-----------------------------------------------------------------------------
(* Watches                                                                 *)

\* Where UsingDb reads: from the master, from the cache, or not at all.
ReadFrom == IF alive THEN "master" ELSE IF replica # "off" THEN "cache" ELSE "nowhere"

\* What a look for topic k ends with.  A broken connection to the master is one
\* more reason to ask the cache, whose tables are not there at first.
Cached(k) == IF replica = "starting" THEN "error"
             ELSE IF \E v \in Values : cache[<<k, v>>] > 0 THEN "found" ELSE "null"
Look(k) ==
    CASE ReadFrom = "master" /\ up -> IF rows[k] # Absent THEN "found" ELSE "null"
      [] ReadFrom = "nowhere" -> "null"
      [] OTHER -> IF replica = "off" THEN "error" ELSE Cached(k)

Answer(w, result) == watch' = [watch EXCEPT ![w] = [NoWatch EXCEPT !.pc = result]]

StartWatch(w, wants) ==
    /\ watch[w].pc = "idle" /\ wants \in Load.wants
    /\ watch' = [watch EXCEPT ![w] = [NoWatch EXCEPT !.pc = "search", !.wants = wants, !.todo = wants]]
    /\ UNCHANGED <<NotBus, bus, busWire>>

SearchTopic(w, k) ==
    LET self == watch[w] IN
    /\ self.pc = "search" /\ k \in self.todo
    /\ IF Look(k) = "error" THEN Answer(w, "error")
       ELSE watch' = [watch EXCEPT ![w].todo = @ \ {k}, ![w].found = IF Look(k) = "found" THEN @ \cup {k} ELSE @,
                                   ![w].blind = @ \/ ReadFrom # "master" \/ ~up]
    /\ UNCHANGED <<NotBus, bus, busWire>>

EndSearch(w) ==
    /\ watch[w].pc = "search" /\ watch[w].todo = {}
    /\ IF watch[w].found # {} THEN Answer(w, "found") ELSE watch' = [watch EXCEPT ![w].pc = "wait"]
    /\ UNCHANGED <<NotBus, bus, busWire>>

\* All watches read one channel: an event that one takes is lost to the others.
\* An event of a watched topic ends the watch, even if the topic has gone.
ReceiveTopic(w) ==
    LET k == busEvent[1]
        took == [v \in Watches |-> [watch[v] EXCEPT !.blind = @ \/ (v # w /\ k \in watch[v].wants)]]
    IN
    /\ watch[w].pc = "wait" /\ busEvent # <<>>
    /\ busEvent' = <<>>
    /\ \/ k \notin watch[w].wants /\ watch' = took
       \/ /\ k \in watch[w].wants
          /\ watch' = [took EXCEPT ![w] = [NoWatch EXCEPT !.pc = Look(k)]]
    /\ UNCHANGED <<NotBus, busOn, busWire, busHand>>

TimeOut(w) ==
    /\ watch[w].pc = "wait"
    /\ Answer(w, "empty")
    /\ UNCHANGED <<NotBus, bus, busWire>>

-----------------------------------------------------------------------------
(* Transactions                                                            *)

NotRequest == <<load, master, caching, bus, busWire, wire, gap, changes>>

Begin(r, program) ==
    /\ request[r].pc = "idle" /\ program \in Load.programs
    /\ request' = [request EXCEPT ![r] = [NoRequest EXCEPT !.pc = "run", !.program = program, !.todo = program]]
    /\ UNCHANGED <<NotRequest, rows, watch>>

\* Mutant: inside a transaction a statement gets a connection of the pool.
PoolConnection(r) ==
    LET via == Head(request[r].todo).via IN
    CASE ReadFrom = "nowhere" -> "nowhere"
      [] via = "WithTx" /\ request[r].conn # "none" -> request[r].conn
      [] ReadFrom = "cache" -> "cache"
      [] OTHER -> IF via = "WithTx" THEN "master" ELSE "pool"

\* The connection of a statement.  UsingDb takes that of the transaction only
\* while the master is alive; WithTx keeps to the transaction once it has begun.
Connection(r) ==
    LET via == Head(request[r].todo).via IN
    CASE ReadFrom = "nowhere" -> "nowhere"
      [] via = "WithTx" /\ request[r].conn # "none" -> request[r].conn
      [] ReadFrom = "cache" -> "cache"
      [] request[r].conn # "none" -> request[r].conn
      [] OTHER -> IF via = "WithTx" THEN "master" ELSE "pool"

\* The request ends with an error, and its transaction is rolled back.
Rollback(r) == request' = [request EXCEPT ![r].pc = "error", ![r].writes = <<>>, ![r].todo = <<>>]

\* The next statement comes after the broadcast of the one before.
HasStatement(r) == request[r].todo # <<>> /\ request[r].announce = <<>>

\* UsingDb does not run the statement, and reports no error, if the master is
\* down and there is no cache.
SkipStatement(r) ==
    /\ HasStatement(r) /\ Connection(r) = "nowhere"
    /\ request' = [request EXCEPT ![r].todo = Tail(@), ![r].bare = TRUE]
    /\ UNCHANGED <<NotRequest, rows, watch>>

\* The cache is read-only, and a broken connection does not come back.
RefuseStatement(r) ==
    /\ HasStatement(r)
    /\ \/ Connection(r) = "cache"
       \/ Connection(r) = "master" /\ (~up \/ request[r].broken)
       \/ Connection(r) = "pool" /\ ~up
    /\ Rollback(r)
    /\ UNCHANGED <<NotRequest, rows, watch>>

RunInTransaction(r) ==
    LET k == Head(request[r].todo).key IN
    /\ HasStatement(r) /\ Connection(r) = "master" /\ up /\ ~request[r].broken
    /\ request' = [request EXCEPT ![r].todo = Tail(@), ![r].conn = "master", ![r].writes = Append(@, k),
                                  ![r].announce = IF k \in Topics THEN <<k>> ELSE <<>>]
    /\ UNCHANGED <<NotRequest, rows, watch>>

\* The broadcast of a registered topic is one more statement, through UsingDb:
\* in the transaction, unless the monitor takes the master for dead meanwhile.
\* Its error is only logged.
Broadcast(r) ==
    LET news == request[r].announce IN
    /\ news # <<>>
    /\ request' = IF ReadFrom = "master" /\ up /\ ~request[r].broken
                  THEN [request EXCEPT ![r].announce = <<>>, ![r].told = @ \o news]
                  ELSE [request EXCEPT ![r].announce = <<>>, ![r].untold = @ \cup Range(news)]
    /\ UNCHANGED <<NotRequest, rows, watch>>

\* Each statement sees what those before it in its transaction have written.
Written(keys) ==
    [i \in DOMAIN keys |->
       [key |-> keys[i], to |-> "a",
        from |-> IF \E j \in 1 .. i - 1 : keys[j] = keys[i] THEN "a" ELSE rows[keys[i]]]]

\* A statement that gets a connection of the pool is committed by itself.
RunAlone(r) ==
    LET k == Head(request[r].todo).key IN
    /\ HasStatement(r) /\ Connection(r) = "pool" /\ up
    /\ CommitChanges(Written(<<k>>), <<>>)
    /\ request' = [request EXCEPT ![r].todo = Tail(@), ![r].applied = @ \cup {k}]
    /\ UNCHANGED <<load, master, caching, bus, watch, changes>>

\* The commit may be lost, or only its answer.
Commit(r) ==
    LET cs == Written(request[r].writes) IN
    /\ request[r].pc = "run" /\ request[r].todo = <<>> /\ request[r].announce = <<>>
    /\ \/ /\ up /\ ~request[r].broken
          /\ CommitChanges(cs, request[r].told)
          /\ watch' = Deafened(request[r].told, request[r].untold)
          /\ \E result \in {"ok"} \cup IF cs # <<>> /\ outages < Load.maxOutages THEN {"error"} ELSE {} :
               request' = [request EXCEPT ![r].pc = result, ![r].applied = @ \cup Range(request[r].writes)]
          /\ UNCHANGED <<load, master, caching, bus, changes>>
       \/ /\ request[r].conn = "master" /\ (~up \/ request[r].broken)
          /\ Rollback(r)
          /\ UNCHANGED <<NotRequest, rows, watch>>
       \/ /\ request[r].conn = "none" /\ ~up
          /\ request' = [request EXCEPT ![r].pc = "ok"]
          /\ UNCHANGED <<NotRequest, rows, watch>>

Next ==
    \/ \E k \in Keys, v \in Values \cup {Absent} : CommitElsewhere(k, v)
    \/ MasterDown \/ MasterUp \/ \E ok \in BOOLEAN : UpdateStatus(ok)
    \/ StartCache \/ DropTriggers \/ CreateTriggers \/ AttachTriggersElsewhere \/ FirstCopy \/ TimerFires
    \/ \E t \in Tables : QueryTable(t)
    \/ CopyFails \/ DeleteTable \/ (\E r \in copy.rows : InsertRow(r)) \/ EndTable
    \/ Listen \/ ReceiveSync \/ HandleSyncEvent
    \/ BusConnect \/ BusReceive \/ BusTake
    \/ \E w \in Watches : \/ \E wants \in Load.wants : StartWatch(w, wants)
                          \/ \E k \in Topics : SearchTopic(w, k)
                          \/ EndSearch(w) \/ ReceiveTopic(w) \/ TimeOut(w)
    \/ \E r \in Requests : \/ \E program \in Load.programs : Begin(r, program)
                           \/ SkipStatement(r) \/ RefuseStatement(r) \/ RunInTransaction(r) \/ RunAlone(r)
                           \/ Broadcast(r) \/ Commit(r)

Spec == Init /\ [][Next]_vars

-----------------------------------------------------------------------------
(* Properties                                                              *)

\* The cache once these changes, all events on the way, are handled.
CacheAfter(bag, cs) ==
    LET upTo[n \in 0 .. Len(cs)] == IF n = 0 THEN bag ELSE Applied(upTo[n - 1], cs[n])
    IN upTo[Len(cs)]

CacheToBe == CacheAfter(cache, Pending)

\* When no change has met a full copy or a time without listener or trigger,
\* and no copy is under way, the cache and the events on their way to it add up
\* to the committed rows, each once: the listener, the queue and the replicator
\* neither lose, repeat nor reorder a change.  Rows with a NULL are left out.
CacheFollows ==
    ~gap /\ ~Copying =>
        \A k \in Keys \ Load.nullable, v \in Values :
            CacheToBe[<<k, v>>] = IF rows[k] = v THEN 1 ELSE 0

OnTheWay == Range(busWire) \cup Range(busHand) \cup Range(busEvent)

\* A watch that has looked on the master and now waits is not waiting in vain:
\* if one of its topics is registered, then the event of that is on its way,
\* though the look came before the wait.  Excepted are events that were taken
\* by another watch of this replica, that were sent while the connection of the
\* bus was broken, and that were not sent, because the monitor of the replica
\* that registered the topic took the master for dead at the broadcast.
WatchHasEvent ==
    \A w \in Watches :
        watch[w].pc = "wait" /\ ~watch[w].blind =>
            \A k \in watch[w].wants : rows[k] # Absent => k \in OnTheWay

Wholly(r) == request[r].applied = {request[r].program[i].key : i \in DOMAIN request[r].program}

\* Through outages, false alarms and the way back, a request that is answered
\* with success has done all its writes on the master, if UsingDb had a database
\* for each; and a request that began its transaction with WithTx has done all
\* or none, whatever its answer.
RequestIsWhole ==
    \A r \in Requests :
        /\ request[r].pc = "ok" /\ ~request[r].bare => Wholly(r)
        /\ request[r].pc \in {"ok", "error"} /\ request[r].program[1].via = "WithTx" /\ ~request[r].bare
             => request[r].applied = {} \/ Wholly(r)
=============================================================================
