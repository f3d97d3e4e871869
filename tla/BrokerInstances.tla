--------------------------- MODULE BrokerInstances ---------------------------
(***************************************************************************)
(* Registrations of Kafka instances, the default among them, the           *)
(* designator of a namespace, and the monitor in each replica of MaaS that *)
(* checks the health of the instances it has listed.                       *)
(*                                                                         *)
(* A change of the registrations is one READ COMMITTED transaction that    *)
(* takes no lock before it reads: it looks, clears the flag of the         *)
(* defaults that its statement sees, and writes; what it writes shows at   *)
(* its commit.                                                             *)
(***************************************************************************)
EXTENDS Naturals, FiniteSets

CONSTANTS Instances, Managers, Replicas, None

ASSUME InstancesAssumption == Instances # {} /\ None \notin Instances

VARIABLES
    instances,    \* kafka_instances
    defaults,     \* those with is_default
    designator,   \* the instance that the designator of the namespace names, or None
    change,       \* the transaction of each manager
    refresh,      \* needBrokerListsRefresh of each replica
    reading,      \* what refreshBrokerList has read and not stored yet, or None
    monitored,    \* kafkaBrokersCache of each replica
    raced,        \* history: changes of registrations have overlapped, and no switch has followed
    deaf,         \* history: replicas that another one has changed the registrations behind
    changesLeft   \* bound

registry == <<instances, defaults, designator, raced>>
monitors == <<refresh, reading, monitored>>
instanceVars == <<instances, defaults, designator, change, refresh, reading, monitored, raced, deaf, changesLeft>>

NoChange == [op |-> "idle", on |-> None, instance |-> None, switch |-> FALSE, at |-> "idle",
             cleared |-> {}, alone |-> TRUE]

\* The state of an installation that has worked for some time with the
\* instances in S, the first of which became the default.
InitInstances(S, first) ==
    /\ instances = S /\ defaults = S \cap {first} /\ designator = None
    /\ change = [m \in Managers |-> NoChange]
    /\ refresh = [r \in Replicas |-> IF S = {} THEN 1 ELSE 0]
    /\ reading = [r \in Replicas |-> None]
    /\ monitored = [r \in Replicas |-> S]
    /\ raced = FALSE /\ deaf = {}

-----------------------------------------------------------------------------
(* Transactions                                                            *)

Active(m) == change[m].op # "idle"

\* A switch of the default takes two statements.
FirstStep(switch) == IF switch THEN "clear" ELSE "commit"

Begin(m, r, op, i, switch, at) ==
    /\ ~Active(m) /\ changesLeft > 0 /\ changesLeft' = changesLeft - 1
    /\ change' = [n \in Managers |->
                    IF n = m THEN [op |-> op, on |-> r, instance |-> i, switch |-> switch,
                                   at |-> at, cleared |-> {},
                                   alone |-> \A k \in Managers : ~Active(k)]
                    ELSE [change[n] EXCEPT !.alone = @ /\ ~Active(n)]]
    /\ UNCHANGED <<registry, monitors, deaf>>

Inserting(i) == \E n \in Managers : change[n].op = "register" /\ change[n].instance = i

\* InsertInstanceRegistration: the count and the insertion. Another insertion
\* of the same id waits for this one, and is refused.
Register(m, r, i, default) ==
    /\ i \notin instances
    /\ ~Inserting(i)
    /\ LET switch == default \/ instances = {} IN Begin(m, r, "register", i, switch, FirstStep(switch))

\* UpdateInstanceRegistration: it may not take the flag from the default.
Update(m, r, i, default) ==
    /\ i \in instances /\ (i \in defaults => default)
    /\ Begin(m, r, "update", i, default, FirstStep(default))

SetDefault(m, r, i) == i \in instances /\ Begin(m, r, "default", i, TRUE, "clear")

\* Any instance may be removed.
RemovableAlways(i) == TRUE

\* RemoveInstanceRegistration: the default goes last.
Removable(i) == i \in defaults => Cardinality(instances) = 1

Remove(m, r, i) == i \in instances /\ Removable(i) /\ Begin(m, r, "remove", i, FALSE, "commit")

\* registerInstance of a deployment: the default that is in the database has
\* precedence over the flag in the file.
Deploy(m, r, i, default) ==
    \/ defaults = {} /\ Begin(m, r, "deploy", i, default, "look")
    \/ \E d \in defaults : Begin(m, r, "deploy", i, i = d, "look")

\* Then it looks for the instance, and registers or updates it.
DeployInstance(m) ==
    LET c == change[m]
        switch == c.switch \/ instances = {} IN
    /\ c.at = "look"
    /\ \/ /\ c.instance \notin instances /\ ~Inserting(c.instance)
          /\ change' = [change EXCEPT ![m] = [c EXCEPT !.op = "register", !.switch = switch, !.at = FirstStep(switch)]]
       \/ /\ c.instance \in instances
          /\ change' = [change EXCEPT ![m] = IF c.instance \in defaults /\ ~c.switch THEN NoChange
                                             ELSE [c EXCEPT !.op = "update", !.at = FirstStep(c.switch)]]
    /\ UNCHANGED <<registry, monitors, deaf, changesLeft>>

\* SetDefaultInstance, first statement: it clears the rows that are committed
\* when it starts. One that another transaction holds is looked at again after
\* that, one that another transaction adds is not seen.
ClearDefaults(m) ==
    /\ change[m].at = "clear"
    /\ change' = [change EXCEPT ![m].at = "commit", ![m].cleared = defaults]
    /\ UNCHANGED <<registry, monitors, deaf, changesLeft>>

Committed(m) ==
    /\ change' = [change EXCEPT ![m] = [@ EXCEPT !.at = "tell", !.cleared = {}]]
    /\ raced' = IF ~change[m].alone THEN TRUE ELSE raced /\ ~change[m].switch
    /\ deaf' = deaf \cup (Replicas \ {change[m].on})
    /\ UNCHANGED <<designator, monitors, changesLeft>>

\* The row is saved as a whole, with the flag that the request gives, also when
\* the instance was removed meanwhile.
CommitSave(m) ==
    LET c == change[m] IN
    /\ c.op \in {"register", "update"} /\ c.at = "commit"
    /\ instances' = instances \cup {c.instance}
    /\ defaults' = IF c.switch THEN (defaults \ c.cleared) \cup {c.instance} ELSE defaults \ {c.instance}
    /\ Committed(m)

CommitDefault(m) ==
    LET c == change[m] IN
    /\ c.op = "default" /\ c.at = "commit" /\ c.instance \in instances
    /\ defaults' = (defaults \ c.cleared) \cup {c.instance}
    /\ Committed(m) /\ UNCHANGED instances

CommitRemove(m, used) ==
    LET c == change[m] IN
    /\ c.op = "remove" /\ c.at = "commit" /\ c.instance \in instances \ used
    /\ instances' = instances \ {c.instance} /\ defaults' = defaults \ {c.instance}
    /\ Committed(m)

\* No row was changed, or rows of other tables refer to the instance.
RefuseChange(m, used) ==
    LET c == change[m] IN
    /\ c.op \in {"default", "remove"} /\ c.at = "commit"
    /\ c.instance \notin instances \/ (c.op = "remove" /\ c.instance \in used)
    /\ change' = [change EXCEPT ![m] = NoChange]
    /\ UNCHANGED <<registry, monitors, deaf, changesLeft>>

\* performOperation and Unregister call the listeners after the transaction.
Tell(m) ==
    /\ change[m].at = "tell"
    /\ change' = [change EXCEPT ![m] = NoChange]
    /\ refresh' = [refresh EXCEPT ![change[m].on] = @ + 1]
    /\ UNCHANGED <<registry, reading, monitored, deaf, changesLeft>>

\* UpsertKafkaInstanceDesignator, one transaction; and its removal.
PutDesignator(i) ==
    /\ changesLeft > 0 /\ changesLeft' = changesLeft - 1
    /\ i \in instances \cup {None} /\ designator' = i /\ i # designator
    /\ UNCHANGED <<instances, defaults, change, monitors, raced, deaf>>

-----------------------------------------------------------------------------
(* The monitor                                                             *)

ReadBrokerList(r) ==
    /\ refresh[r] > 0 /\ reading[r] = None
    /\ reading' = [reading EXCEPT ![r] = instances]
    /\ deaf' = deaf \ {r}
    /\ UNCHANGED <<registry, change, refresh, monitored, changesLeft>>

\* All requested refreshes are counted as done.
RefreshDoneAll(n) == 0

\* One of the requested refreshes is done; those that came meanwhile stay.
RefreshDone(n) == n - 1

StoreBrokerList(r) ==
    /\ reading[r] # None
    /\ monitored' = [monitored EXCEPT ![r] = reading[r]]
    /\ reading' = [reading EXCEPT ![r] = None]
    /\ refresh' = [refresh EXCEPT ![r] = RefreshDone(@)]
    /\ UNCHANGED <<registry, change, deaf, changesLeft>>

-----------------------------------------------------------------------------
(* Properties                                                              *)

\* While instances are registered, exactly one is the default, unless two
\* changes of the registrations overlapped; and then one switch of the default
\* that runs alone restores it, whatever the race had left.
OneDefault == raced \/ instances = {} \/ \E i \in instances : defaults = {i}

\* A monitor with no refresh to do checks the instances that are registered,
\* also when a change was committed between its reading the list and its
\* counting the refresh as done; unless the change came through another
\* replica, which does not tell this one.
MonitorKnowsInstances ==
    \A r \in Replicas \ deaf :
       refresh[r] = 0 /\ (\A m \in Managers : change[m].at = "tell" => change[m].on # r)
       => monitored[r] = instances
=============================================================================
