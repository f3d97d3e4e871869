------------------------- MODULE TenantTopicsProofs -------------------------
(***************************************************************************)
(* The registry of instances, for every number of instances, managers and  *)
(* replicas: there is one default, and a monitor with nothing to do knows  *)
(* the instances.  Then tenants, definitions and templates of a namespace, *)
(* for every number of them and of requests that overlap, beside every     *)
(* change of the instances: what a request has settled that was alone and  *)
(* succeeded.                                                              *)
(***************************************************************************)
EXTENDS TenantTopics, FiniteSetTheorems, TLAPS

-----------------------------------------------------------------------------
(* Instances: the inductive invariant                                      *)

Change == [op : {"idle", "register", "update", "default", "remove", "deploy"},
           on : Replicas \cup {None}, instance : Instances \cup {None}, switch : BOOLEAN,
           at : {"idle", "look", "clear", "commit", "tell"}, cleared : SUBSET Instances,
           alone : BOOLEAN]

InstancesType ==
    /\ instances \subseteq Instances /\ defaults \subseteq Instances
    /\ IsFiniteSet(instances)
    /\ change \in [Managers -> Change]
    /\ \A m \in Managers : (Active(m) <=> change[m].at # "idle")
                            /\ (Active(m) => change[m].on \in Replicas /\ change[m].instance \in Instances)
    /\ deaf \subseteq Replicas
    /\ refresh \in [Replicas -> Nat]
    /\ DOMAIN reading = Replicas /\ DOMAIN monitored = Replicas
    /\ \A r \in Replicas : reading[r] # None => refresh[r] > 0

\* A transaction that no other has overlapped still sees the registrations as
\* they were when it looked.
LooksRight(m) ==
    LET c == change[m] IN
    Active(m) /\ c.alone =>
        /\ \A n \in Managers : n # m => ~Active(n)
        /\ c.at = "clear" => c.switch /\ c.op # "remove"
        /\ c.at = "commit" =>
              /\ c.switch => c.cleared = defaults
              /\ c.op = "default" => c.switch
              /\ c.op = "register" /\ ~c.switch => instances # {} /\ c.instance \notin instances
              /\ c.op = "update" /\ ~c.switch => c.instance \in instances \ defaults
              /\ c.op = "remove" => ~c.switch /\ Removable(c.instance)

\* A monitor that no change is about to tell of knows the instances when it has
\* no refresh to do, and has read them when it is in its last refresh.
Follows(r) ==
    r \notin deaf /\ (\A m \in Managers : change[m].at = "tell" => change[m].on # r) =>
        /\ refresh[r] = 0 => monitored[r] = instances
        /\ refresh[r] = 1 /\ reading[r] # None => reading[r] = instances

InstancesInv ==
    /\ InstancesType
    /\ \A m \in Managers : LooksRight(m)
    /\ OneDefault
    /\ \A r \in Replicas : Follows(r)

LEMMA InitInstancesInv == Init => InstancesInv
<1> SUFFICES ASSUME Init PROVE InstancesInv
  OBVIOUS
<1>1. PICK S \in SUBSET Instances, i \in Instances \cup {None} :
         InitInstances(S, i) /\ (S = {} \/ (S = {i} /\ i \in Instances))
  <2> DEFINE first == CHOOSE i \in Instances : TRUE
  <2>1. first \in Instances
    BY InstancesAssumption
  <2> HIDE DEF first
  <2>2. InitInstances({}, None) \/ InitInstances({first}, first)
    BY DEF Init, first
  <2> QED
    BY <2>1, <2>2
<1>2. IsFiniteSet(instances)
  <2>1. instances = S
    BY <1>1 DEF InitInstances
  <2> QED
    BY <1>1, <2>1, FS_EmptySet, FS_Singleton
<1>3. InstancesType
  <2>1. NoChange \in Change
    BY DEF NoChange, Change
  <2>2. change \in [Managers -> Change]
    BY <1>1, <2>1 DEF InitInstances
  <2>3. \A m \in Managers : change[m].op = "idle" /\ change[m].at = "idle"
    BY <1>1 DEF InitInstances, NoChange
  <2>4. instances \subseteq Instances /\ defaults \subseteq Instances
    BY <1>1 DEF InitInstances
  <2>5. refresh \in [Replicas -> Nat] /\ DOMAIN reading = Replicas /\ DOMAIN monitored = Replicas
        /\ \A r \in Replicas : reading[r] = None
    BY <1>1 DEF InitInstances
  <2>6. deaf \subseteq Replicas
    BY <1>1 DEF InitInstances
  <2> QED
    BY <1>2, <2>2, <2>3, <2>4, <2>5, <2>6 DEF InstancesType, Active
<1>4. \A m \in Managers : LooksRight(m)
  BY <1>1 DEF InitInstances, LooksRight, Active, NoChange
<1>5. OneDefault
  BY <1>1 DEF InitInstances, OneDefault
<1>6. \A r \in Replicas : Follows(r)
  BY <1>1 DEF InitInstances, Follows
<1> QED
  BY <1>3, <1>4, <1>5, <1>6 DEF InstancesInv

-----------------------------------------------------------------------------
(* A change begins, and goes on to its commit                              *)

\* What must hold for a change to go on to its commit.
Ready(op, i, switch) ==
    /\ ~switch /\ op # "default"
    /\ op = "register" => instances # {} /\ i \notin instances
    /\ op = "update" => i \in instances \ defaults
    /\ op = "remove" => Removable(i)

LEMMA BeginKeeps ==
    ASSUME InstancesInv, NEW m \in Managers, NEW r \in Replicas, NEW i \in Instances,
           NEW op \in {"register", "update", "default", "remove", "deploy"},
           NEW switch \in BOOLEAN, NEW at \in {"look", "clear", "commit"},
           at = "commit" => Ready(op, i, switch), at = "clear" => switch /\ op # "remove",
           Begin(m, r, op, i, switch, at)
    PROVE  InstancesInv'
<1>1. InstancesType /\ ~Active(m) /\ UNCHANGED <<registry, monitors, deaf>>
  BY DEF InstancesInv, Begin
<1>2. /\ change'[m] = [op |-> op, on |-> r, instance |-> i, switch |-> switch, at |-> at,
                       cleared |-> {}, alone |-> \A k \in Managers : ~Active(k)]
      /\ DOMAIN change' = Managers
      /\ \A n \in Managers : n # m => change'[n] = [change[n] EXCEPT !.alone = @ /\ ~Active(n)]
  BY DEF Begin
<1>3. ASSUME NEW n \in Managers, n # m
      PROVE  /\ change'[n] \in Change
             /\ change'[n].op = change[n].op /\ change'[n].at = change[n].at
             /\ change'[n].on = change[n].on /\ change'[n].instance = change[n].instance
             /\ change'[n].op # "idle" => change'[n].alone = FALSE
  <2> DEFINE still == change[n].alone /\ ~Active(n)
  <2>1. still \in BOOLEAN /\ (Active(n) => still = FALSE)
    OBVIOUS
  <2>2. change'[n] = [change[n] EXCEPT !.alone = still]
    BY <1>2, <1>3
  <2>3. change[n] \in Change
    BY <1>1 DEF InstancesType
  <2> HIDE DEF still
  <2> QED
    BY <2>1, <2>2, <2>3 DEF Change, Active
<1>4. change' \in [Managers -> Change]
  <2>1. change'[m] \in Change
    BY <1>2 DEF Change
  <2>2. \A n \in Managers : change'[n] \in Change
    BY <1>3, <2>1
  <2>3. change' = [n \in Managers |-> change'[n]]
    BY DEF Begin
  <2> QED
    BY <2>2, <2>3
<1>5. InstancesType'
  <2>1. \A n \in Managers : /\ change'[n].op # "idle" <=> change'[n].at # "idle"
                            /\ change'[n].op # "idle" => /\ change'[n].on \in Replicas
                                                         /\ change'[n].instance \in Instances
    <3>1. change'[m].op = op /\ change'[m].at = at /\ change'[m].on = r /\ change'[m].instance = i
      BY <1>2
    <3>2. ASSUME NEW n \in Managers, n # m
          PROVE  (change'[n].op # "idle" <=> change'[n].at # "idle")
                 /\ (change'[n].op # "idle" => change'[n].on \in Replicas /\ change'[n].instance \in Instances)
      BY <1>1, <1>3, <3>2 DEF InstancesType, Active
    <3> QED
      BY <3>1, <3>2
  <2> QED
    BY <1>1, <1>4, <2>1 DEF InstancesType, Active, registry, monitors
<1>6. \A n \in Managers : LooksRight(n)'
  <2>1. LooksRight(m)'
    <3>1. /\ change'[m].at = at /\ change'[m].switch = switch /\ change'[m].op = op
          /\ change'[m].instance = i
      BY <1>2
    <3>2. change'[m].alone => \A n \in Managers : n # m => change'[n].op = "idle"
      <4> DEFINE quiet == \A k \in Managers : ~Active(k)
      <4>1. change'[m].alone = quiet
        <5>1. change'[m] = [op |-> op, on |-> r, instance |-> i, switch |-> switch, at |-> at,
                            cleared |-> {}, alone |-> quiet]
          BY <1>2
        <5> HIDE DEF quiet
        <5> QED
          BY <5>1
      <4>2. quiet => \A n \in Managers : n # m => change'[n].op = "idle"
        BY <1>3 DEF Active
      <4> HIDE DEF quiet
      <4> QED
        BY <4>1, <4>2
    <3>3. Removable(i)' = Removable(i) /\ instances' = instances /\ defaults' = defaults
      BY <1>1 DEF registry, Removable
    <3> QED
      BY <3>1, <3>2, <3>3 DEF LooksRight, Active, Ready
  <2>2. ASSUME NEW n \in Managers, n # m PROVE LooksRight(n)'
    BY <1>3, <2>2 DEF LooksRight, Active
  <2> QED
    BY <2>1, <2>2
<1>7. \A s \in Replicas : Follows(s)'
  <2>1. \A n \in Managers : change[n].at = "tell" =>
                               change'[n].at = "tell" /\ change'[n].on = change[n].on
    BY <1>1, <1>3 DEF InstancesType, Active
  <2> QED
    BY <1>1, <2>1 DEF InstancesInv, Follows, registry, monitors
<1> QED
  BY <1>1, <1>5, <1>6, <1>7 DEF InstancesInv, OneDefault, registry

LEMMA RegisterKeeps ==
    ASSUME InstancesInv, NEW m \in Managers, NEW r \in Replicas, NEW i \in Instances,
           NEW default \in BOOLEAN, Register(m, r, i, default)
    PROVE  InstancesInv'
<1> DEFINE switch == default \/ instances = {}
<1>1. Begin(m, r, "register", i, switch, FirstStep(switch)) /\ i \notin instances
  BY DEF Register
<1>2. FirstStep(switch) \in {"clear", "commit"} /\ switch \in BOOLEAN
  BY DEF FirstStep
<1>3. /\ FirstStep(switch) = "commit" => Ready("register", i, switch)
      /\ FirstStep(switch) = "clear" => switch
  BY <1>1 DEF FirstStep, Ready
<1> HIDE DEF switch
<1> QED
  BY <1>1, <1>2, <1>3, BeginKeeps

LEMMA UpdateKeeps ==
    ASSUME InstancesInv, NEW m \in Managers, NEW r \in Replicas, NEW i \in Instances,
           NEW default \in BOOLEAN, Update(m, r, i, default)
    PROVE  InstancesInv'
<1>1. FirstStep(default) \in {"clear", "commit"}
  BY DEF FirstStep
<1>2. /\ FirstStep(default) = "commit" => Ready("update", i, default)
      /\ FirstStep(default) = "clear" => default
  BY DEF Update, FirstStep, Ready
<1> QED
  BY <1>1, <1>2, BeginKeeps DEF Update

LEMMA OtherBeginsKeep ==
    ASSUME InstancesInv, NEW m \in Managers, NEW r \in Replicas, NEW i \in Instances,
           NEW default \in BOOLEAN,
           SetDefault(m, r, i) \/ Remove(m, r, i) \/ Deploy(m, r, i, default)
    PROVE  InstancesInv'
<1>1. CASE SetDefault(m, r, i)
  BY <1>1, BeginKeeps DEF SetDefault
<1>2. CASE Remove(m, r, i)
  <2>1. Ready("remove", i, FALSE)
    BY <1>2 DEF Remove, Ready
  <2> QED
    BY <1>2, <2>1, BeginKeeps DEF Remove
<1>3. CASE Deploy(m, r, i, default)
  <2>1. PICK switch \in BOOLEAN : Begin(m, r, "deploy", i, switch, "look")
    BY <1>3 DEF Deploy
  <2> QED
    BY <2>1, BeginKeeps
<1> QED
  BY <1>1, <1>2, <1>3

\* A step that touches one change before its commit.
LEMMA ChangeKeeps ==
    ASSUME InstancesInv, NEW m \in Managers, NEW c \in Change,
           change' = [change EXCEPT ![m] = c],
           UNCHANGED <<registry, monitors, deaf>>,
           c.op # "idle" <=> c.at # "idle",
           c.op # "idle" => c.on \in Replicas /\ c.instance \in Instances,
           Active(m), c.at # "tell", change[m].at # "tell",
           LooksRight(m)'
    PROVE  InstancesInv'
<1>1. /\ InstancesType /\ change'[m] = c
      /\ \A n \in Managers : n # m => change'[n] = change[n]
      /\ instances' = instances /\ defaults' = defaults
  BY DEF InstancesInv, InstancesType, registry
<1>2. InstancesType'
  <2>1. change' \in [Managers -> Change]
    BY <1>1 DEF InstancesType
  <2>2. \A n \in Managers : (change'[n].op # "idle" <=> change'[n].at # "idle")
                            /\ (change'[n].op # "idle" => change'[n].on \in Replicas /\ change'[n].instance \in Instances)
    BY <1>1 DEF InstancesType, Active
  <2> QED
    BY <1>1, <2>1, <2>2 DEF InstancesType, Active, monitors
<1>3. ASSUME NEW n \in Managers, n # m PROVE LooksRight(n)'
  <2>1. ~(Active(n) /\ change[n].alone)
    BY <1>3 DEF InstancesInv, LooksRight
  <2> QED
    BY <1>1, <1>3, <2>1 DEF LooksRight, Active
<1>4. \A s \in Replicas : Follows(s)'
  <2>1. \A n \in Managers : change[n].at = "tell" =>
                               change'[n].at = "tell" /\ change'[n].on = change[n].on
    BY <1>1
  <2> QED
    BY <1>1, <2>1 DEF InstancesInv, Follows, monitors
<1> QED
  BY <1>1, <1>2, <1>3, <1>4 DEF InstancesInv, OneDefault, registry

LEMMA NoChangeType == NoChange \in Change
BY DEF NoChange, Change

LEMMA DeployInstanceKeeps ==
    ASSUME InstancesInv, NEW m \in Managers, DeployInstance(m) PROVE InstancesInv'
<1> DEFINE c == change[m]
           switch == c.switch \/ instances = {}
<1>1. /\ c \in Change /\ c.at = "look" /\ Active(m) /\ c.on \in Replicas /\ c.instance \in Instances
      /\ LooksRight(m)
      /\ DOMAIN change = Managers
      /\ UNCHANGED <<registry, monitors, deaf>>
      /\ instances' = instances /\ defaults' = defaults
  BY DEF DeployInstance, InstancesInv, InstancesType, registry
<1>2. switch \in BOOLEAN /\ c.switch \in BOOLEAN /\ \A b \in BOOLEAN : FirstStep(b) \in {"clear", "commit"}
  BY <1>1 DEF FirstStep, Change
<1>3. \A n \in Managers : n # m /\ c.alone => ~Active(n)
  BY <1>1 DEF LooksRight
<1>4. ASSUME NEW d \in Change, change' = [change EXCEPT ![m] = d], d.op \in {"register", "update"},
             d.at \in {"clear", "commit"}, d.on = c.on, d.instance = c.instance, d.alone = c.alone,
             d.at = "commit" => Ready(d.op, d.instance, d.switch), d.at = "clear" => d.switch
      PROVE  InstancesInv'
  <2>1. LooksRight(m)'
    BY <1>1, <1>3, <1>4 DEF LooksRight, Active, Ready
  <2> QED
    BY <1>1, <1>4, <2>1, ChangeKeeps
<1>5. CASE /\ c.instance \notin instances
           /\ change' = [change EXCEPT ![m] = [c EXCEPT !.op = "register", !.switch = switch,
                                                        !.at = FirstStep(switch)]]
  <2> DEFINE d == [c EXCEPT !.op = "register", !.switch = switch, !.at = FirstStep(switch)]
  <2>1. (switch <=> FirstStep(switch) = "clear")
    BY DEF FirstStep
  <2>2. ~switch => instances # {}
    OBVIOUS
  <2> HIDE DEF switch
  <2>3. /\ d \in Change /\ d.op = "register" /\ d.at \in {"clear", "commit"} /\ d.on = c.on
        /\ d.alone = c.alone /\ d.instance = c.instance /\ d.switch = switch /\ d.at = FirstStep(switch)
    BY <1>1, <1>2 DEF Change
  <2>4. (d.at = "commit" => Ready(d.op, d.instance, d.switch)) /\ (d.at = "clear" => d.switch)
    BY <1>5, <2>1, <2>2, <2>3 DEF Ready
  <2>5. change' = [change EXCEPT ![m] = d]
    BY <1>5
  <2> HIDE DEF d, c
  <2> QED
    BY <1>4, <2>3, <2>4, <2>5
<1>6. CASE /\ c.instance \in instances
           /\ change' = [change EXCEPT ![m] = IF c.instance \in defaults /\ ~c.switch THEN NoChange
                                         ELSE [c EXCEPT !.op = "update", !.at = FirstStep(c.switch)]]
  <2>1. CASE c.instance \in defaults /\ ~c.switch
    <3>1. change' = [change EXCEPT ![m] = NoChange]
      BY <1>6, <2>1
    <3>2. LooksRight(m)'
      BY <1>1, <3>1 DEF LooksRight, Active, NoChange
    <3> QED
      BY <1>1, <3>1, <3>2, NoChangeType, ChangeKeeps DEF NoChange
  <2>2. CASE ~(c.instance \in defaults /\ ~c.switch)
    <3> DEFINE d == [c EXCEPT !.op = "update", !.at = FirstStep(c.switch)]
    <3>1. (c.switch <=> FirstStep(c.switch) = "clear")
      BY DEF FirstStep
    <3>2. /\ d \in Change /\ d.op = "update" /\ d.at \in {"clear", "commit"} /\ d.on = c.on
          /\ d.alone = c.alone /\ d.instance = c.instance /\ d.switch = c.switch
          /\ d.at = FirstStep(c.switch)
      BY <1>1, <1>2 DEF Change
    <3>3. (d.at = "commit" => Ready(d.op, d.instance, d.switch)) /\ (d.at = "clear" => d.switch)
      BY <1>6, <2>2, <3>1, <3>2 DEF Ready
    <3>4. change' = [change EXCEPT ![m] = d]
      BY <1>6, <2>2
    <3> HIDE DEF d, c
    <3> QED
      BY <1>4, <3>2, <3>3, <3>4
  <2> QED
    BY <2>1, <2>2
<1> QED
  BY <1>5, <1>6 DEF DeployInstance

LEMMA ClearDefaultsKeeps ==
    ASSUME InstancesInv, NEW m \in Managers, ClearDefaults(m) PROVE InstancesInv'
<1> DEFINE d == [change[m] EXCEPT !.at = "commit", !.cleared = defaults]
<1>1. /\ change[m] \in Change /\ change[m].at = "clear" /\ Active(m) /\ LooksRight(m)
      /\ change[m].on \in Replicas /\ change[m].instance \in Instances
      /\ defaults \subseteq Instances /\ DOMAIN change = Managers
      /\ UNCHANGED <<registry, monitors, deaf>> /\ defaults' = defaults
  BY DEF ClearDefaults, InstancesInv, InstancesType, registry
<1>2. change' = [change EXCEPT ![m] = d]
  BY DEF ClearDefaults
<1>3. /\ d \in Change /\ d.at = "commit" /\ d.cleared = defaults /\ d.op = change[m].op
      /\ d.on = change[m].on /\ d.alone = change[m].alone /\ d.switch = change[m].switch
      /\ d.instance = change[m].instance
  BY <1>1 DEF Change
<1> HIDE DEF d
<1>4. LooksRight(m)'
  BY <1>1, <1>2, <1>3 DEF LooksRight, Active
<1> QED
  BY <1>1, <1>2, <1>3, <1>4, ChangeKeeps DEF Active

-----------------------------------------------------------------------------
(* A change is committed, refused, and told                                *)

\* Other changes saw a registry that is gone, and none of them is alone.
LEMMA OthersLookRight ==
    ASSUME InstancesInv, NEW m \in Managers, Active(m),
           \A n \in Managers : n # m => change'[n] = change[n]
    PROVE  \A n \in Managers : n # m => LooksRight(n)'
<1> SUFFICES ASSUME NEW n \in Managers, n # m PROVE LooksRight(n)'
  OBVIOUS
<1>1. ~(Active(n) /\ change[n].alone)
  BY DEF InstancesInv, LooksRight
<1> QED
  BY <1>1 DEF LooksRight, Active

\* What every commit does, given that a change that saw the registry as it is
\* leaves one default.
LEMMA CommitKeeps ==
    ASSUME InstancesInv, NEW m \in Managers, Active(m), Committed(m),
           instances' \subseteq Instances, IsFiniteSet(instances'), defaults' \subseteq Instances,
           change[m].alone /\ (change[m].switch \/ ~raced)
              => instances' = {} \/ \E i \in instances' : defaults' = {i}
    PROVE  InstancesInv'
<1> DEFINE d == [change[m] EXCEPT !.at = "tell", !.cleared = {}]
<1>1. /\ change[m] \in Change /\ DOMAIN change = Managers /\ UNCHANGED monitors
      /\ change' = [change EXCEPT ![m] = d]
  BY DEF InstancesInv, InstancesType, Committed
<1>2. /\ d \in Change /\ d.at = "tell" /\ d.op = change[m].op /\ d.on = change[m].on
      /\ d.instance = change[m].instance
  BY <1>1 DEF Change
<1> HIDE DEF d
<1>3. /\ change'[m] = d /\ \A n \in Managers : n # m => change'[n] = change[n]
  BY <1>1
<1>4. InstancesType'
  <2>1. change' \in [Managers -> Change] /\ deaf' \subseteq Replicas
    BY <1>1, <1>2 DEF InstancesInv, InstancesType, Committed
  <2>2. \A n \in Managers : /\ change'[n].op # "idle" <=> change'[n].at # "idle"
                            /\ change'[n].op # "idle" => /\ change'[n].on \in Replicas
                                                         /\ change'[n].instance \in Instances
    BY <1>2, <1>3 DEF InstancesInv, InstancesType, Active
  <2>3. /\ refresh' \in [Replicas -> Nat] /\ DOMAIN reading' = Replicas /\ DOMAIN monitored' = Replicas
        /\ \A s \in Replicas : reading'[s] # None => refresh'[s] > 0
    BY <1>1 DEF InstancesInv, InstancesType, monitors
  <2> QED
    BY <2>1, <2>2, <2>3 DEF InstancesType, Active
<1>5. \A n \in Managers : LooksRight(n)'
  <2>1. LooksRight(m)'
    <3>1. d.alone = change[m].alone
      BY <1>1 DEF d
    <3>2. change[m].alone => \A n \in Managers : n # m => change[n].op = "idle"
      BY DEF InstancesInv, LooksRight, Active
    <3> QED
      BY <1>2, <1>3, <3>1, <3>2 DEF LooksRight, Active
  <2> QED
    BY <1>3, <2>1, OthersLookRight
<1>6. OneDefault'
  <2>1. raced' \/ (change[m].alone /\ (change[m].switch \/ ~raced))
    BY DEF Committed
  <2>2. change[m].alone /\ (change[m].switch \/ ~raced)
           => instances' = {} \/ \E i \in instances' : defaults' = {i}
    OBVIOUS
  <2> QED
    BY <2>1, <2>2 DEF OneDefault
<1>7. \A s \in Replicas : Follows(s)'
  <2>1. deaf' = deaf \cup (Replicas \ {change[m].on})
    BY DEF Committed
  <2> QED
    BY <1>2, <1>3, <2>1 DEF Follows
<1> QED
  BY <1>4, <1>5, <1>6, <1>7 DEF InstancesInv

LEMMA CommitSaveKeeps ==
    ASSUME InstancesInv, NEW m \in Managers, CommitSave(m) PROVE InstancesInv'
<1> DEFINE c == change[m]
<1>1. /\ Active(m) /\ c.instance \in Instances /\ LooksRight(m) /\ OneDefault
      /\ instances \subseteq Instances /\ defaults \subseteq Instances /\ IsFiniteSet(instances)
  BY DEF CommitSave, InstancesInv, InstancesType, Active
<1>2. IsFiniteSet(instances')
  BY <1>1, FS_AddElement DEF CommitSave
<1>3. instances' \subseteq Instances /\ defaults' \subseteq Instances
  BY <1>1 DEF CommitSave
<1>4. ASSUME c.alone, c.switch PROVE c.instance \in instances' /\ defaults' = {c.instance}
  <2>1. c.cleared = defaults
    BY <1>1, <1>4 DEF LooksRight, CommitSave
  <2> QED
    BY <1>4, <2>1 DEF CommitSave
<1>5. ASSUME c.alone, ~c.switch, ~raced PROVE \E i \in instances' : defaults' = {i}
  <2>1. instances # {} /\ c.instance \notin defaults
    BY <1>1, <1>5 DEF LooksRight, CommitSave, OneDefault
  <2>2. PICK i \in instances : defaults = {i}
    BY <1>1, <1>5, <2>1 DEF OneDefault
  <2> QED
    BY <1>5, <2>1, <2>2 DEF CommitSave
<1> QED
  BY <1>1, <1>2, <1>3, <1>4, <1>5, CommitKeeps DEF CommitSave

LEMMA CommitDefaultKeeps ==
    ASSUME InstancesInv, NEW m \in Managers, CommitDefault(m) PROVE InstancesInv'
<1> DEFINE c == change[m]
<1>1. /\ Active(m) /\ LooksRight(m) /\ instances \subseteq Instances /\ defaults \subseteq Instances
      /\ IsFiniteSet(instances)
  BY DEF CommitDefault, InstancesInv, InstancesType, Active
<1>2. c.instance \in instances' /\ instances' = instances /\ defaults' \subseteq Instances
  BY <1>1 DEF CommitDefault
<1>3. c.alone => defaults' = {c.instance}
  BY <1>1 DEF CommitDefault, LooksRight
<1> QED
  BY <1>1, <1>2, <1>3, CommitKeeps DEF CommitDefault

LEMMA CommitRemoveKeeps ==
    ASSUME InstancesInv, NEW m \in Managers, NEW used, CommitRemove(m, used) PROVE InstancesInv'
<1> DEFINE c == change[m]
<1>1. /\ Active(m) /\ LooksRight(m) /\ OneDefault
      /\ instances \subseteq Instances /\ defaults \subseteq Instances /\ IsFiniteSet(instances)
  BY DEF CommitRemove, InstancesInv, InstancesType, Active
<1>2. /\ c.instance \in instances
      /\ instances' = instances \ {c.instance} /\ defaults' = defaults \ {c.instance}
  BY DEF CommitRemove
<1>3. IsFiniteSet(instances')
  BY <1>1, <1>2, FS_RemoveElement
<1>4. ASSUME c.alone, c.switch \/ ~raced
      PROVE  instances' = {} \/ \E i \in instances' : defaults' = {i}
  <2>1. ~c.switch /\ Removable(c.instance)
    BY <1>1, <1>4 DEF CommitRemove, LooksRight
  <2>2. PICK i \in instances : defaults = {i}
    BY <1>1, <1>2, <1>4, <2>1 DEF OneDefault
  <2>3. CASE i = c.instance
    <3>1. Cardinality(instances) = 1
      BY <2>1, <2>2, <2>3 DEF Removable
    <3>2. PICK x : instances = {x}
      BY <1>1, <3>1, FS_Singleton
    <3> QED
      BY <1>2, <3>2
  <2>4. CASE i # c.instance
    BY <1>2, <2>2, <2>4
  <2> QED
    BY <2>3, <2>4
<1> QED
  BY <1>1, <1>2, <1>3, <1>4, CommitKeeps DEF CommitRemove

LEMMA RefuseChangeKeeps ==
    ASSUME InstancesInv, NEW m \in Managers, NEW used, RefuseChange(m, used) PROVE InstancesInv'
<1>1. /\ Active(m) /\ change[m].at = "commit" /\ DOMAIN change = Managers
      /\ change' = [change EXCEPT ![m] = NoChange] /\ UNCHANGED <<registry, monitors, deaf>>
  BY DEF RefuseChange, InstancesInv, InstancesType, Active
<1>2. LooksRight(m)'
  BY <1>1 DEF LooksRight, Active, NoChange
<1> QED
  BY <1>1, <1>2, NoChangeType, ChangeKeeps DEF NoChange

\* The refresh that the change asks for is counted before anyone can take the
\* change for told.
LEMMA TellKeeps ==
    ASSUME InstancesInv, NEW m \in Managers, Tell(m) PROVE InstancesInv'
<1> DEFINE on == change[m].on
<1>1. /\ InstancesType /\ Active(m) /\ on \in Replicas
      /\ instances' = instances /\ defaults' = defaults /\ raced' = raced
      /\ UNCHANGED <<reading, monitored, deaf>>
      /\ refresh' = [refresh EXCEPT ![on] = @ + 1] /\ change' = [change EXCEPT ![m] = NoChange]
  BY DEF Tell, InstancesInv, InstancesType, Active, registry
<1>2. change'[m] = NoChange /\ \A n \in Managers : n # m => change'[n] = change[n]
  BY <1>1 DEF InstancesType
<1>3. InstancesType'
  <2>1. change' \in [Managers -> Change] /\ refresh' \in [Replicas -> Nat]
    BY <1>1, NoChangeType DEF InstancesType
  <2>2. \A n \in Managers : /\ change'[n].op # "idle" <=> change'[n].at # "idle"
                            /\ change'[n].op # "idle" => /\ change'[n].on \in Replicas
                                                         /\ change'[n].instance \in Instances
    BY <1>1, <1>2 DEF InstancesType, Active, NoChange
  <2>3. \A s \in Replicas : reading'[s] # None => refresh'[s] > 0
    BY <1>1 DEF InstancesType
  <2> QED
    BY <1>1, <2>1, <2>2, <2>3 DEF InstancesType, Active
<1>4. \A n \in Managers : LooksRight(n)'
  <2>1. LooksRight(m)'
    BY <1>2 DEF LooksRight, Active, NoChange
  <2> QED
    BY <1>1, <1>2, <2>1, OthersLookRight
<1>5. ASSUME NEW s \in Replicas PROVE Follows(s)'
  <2>1. CASE s = on
    <3>1. /\ refresh[s] \in Nat /\ refresh'[s] = refresh[s] + 1
          /\ reading'[s] # None => refresh'[s] # 1
      BY <1>1, <2>1 DEF InstancesType
    <3> QED
      BY <3>1 DEF Follows
  <2>2. CASE s # on
    <3>1. refresh'[s] = refresh[s]
      BY <1>1, <2>2 DEF InstancesType
    <3>2. (\A n \in Managers : change'[n].at = "tell" => change'[n].on # s)
             => (\A n \in Managers : change[n].at = "tell" => change[n].on # s)
      BY <1>2, <2>2
    <3> QED
      BY <1>1, <3>1, <3>2 DEF InstancesInv, Follows
  <2> QED
    BY <2>1, <2>2
<1> QED
  BY <1>1, <1>3, <1>4, <1>5 DEF InstancesInv, OneDefault

-----------------------------------------------------------------------------
(* The monitor                                                             *)

LEMMA ReadBrokerListKeeps ==
    ASSUME InstancesInv, NEW r \in Replicas, ReadBrokerList(r) PROVE InstancesInv'
<1>1. /\ InstancesType /\ refresh[r] > 0 /\ UNCHANGED <<registry, change, refresh, monitored>>
      /\ reading' = [reading EXCEPT ![r] = instances] /\ deaf' = deaf \ {r}
      /\ instances' = instances /\ defaults' = defaults /\ raced' = raced
  BY DEF ReadBrokerList, InstancesInv, registry
<1>2. InstancesType'
  <2>1. deaf' \subseteq Replicas /\ DOMAIN reading' = Replicas
    BY <1>1 DEF InstancesType
  <2>2. \A s \in Replicas : reading'[s] # None => refresh'[s] > 0
    BY <1>1 DEF InstancesType
  <2> QED
    BY <1>1, <2>1, <2>2 DEF InstancesType, Active
<1>3. \A m \in Managers : LooksRight(m)'
  BY <1>1 DEF InstancesInv, LooksRight, Active, Removable
<1>4. ASSUME NEW s \in Replicas PROVE Follows(s)'
  <2>1. CASE s = r
    BY <1>1, <2>1 DEF InstancesType, Follows
  <2>2. CASE s # r
    <3>1. reading'[s] = reading[s] /\ (s \in deaf' <=> s \in deaf)
      BY <1>1, <2>2 DEF InstancesType
    <3> QED
      BY <1>1, <3>1 DEF InstancesInv, Follows
  <2> QED
    BY <2>1, <2>2
<1> QED
  BY <1>1, <1>2, <1>3, <1>4 DEF InstancesInv, OneDefault

\* A refresh that came while the list was read stays to be done: only the last
\* one must have read what is registered.
LEMMA StoreBrokerListKeeps ==
    ASSUME InstancesInv, NEW r \in Replicas, StoreBrokerList(r) PROVE InstancesInv'
<1>1. /\ InstancesType /\ reading[r] # None /\ UNCHANGED <<registry, change, deaf>>
      /\ monitored' = [monitored EXCEPT ![r] = reading[r]]
      /\ reading' = [reading EXCEPT ![r] = None]
      /\ refresh' = [refresh EXCEPT ![r] = @ - 1]
      /\ instances' = instances /\ defaults' = defaults /\ raced' = raced
  BY DEF StoreBrokerList, RefreshDone, InstancesInv, registry
<1>2. refresh[r] \in Nat /\ refresh[r] > 0
  BY <1>1 DEF InstancesType
<1>3. InstancesType'
  <2>1. refresh' \in [Replicas -> Nat] /\ DOMAIN reading' = Replicas /\ DOMAIN monitored' = Replicas
    BY <1>1, <1>2 DEF InstancesType
  <2>2. \A s \in Replicas : reading'[s] # None => refresh'[s] > 0
    BY <1>1 DEF InstancesType
  <2> QED
    BY <1>1, <2>1, <2>2 DEF InstancesType, Active
<1>4. \A m \in Managers : LooksRight(m)'
  BY <1>1 DEF InstancesInv, LooksRight, Active, Removable
<1>5. ASSUME NEW s \in Replicas PROVE Follows(s)'
  <2>1. CASE s = r
    <3>1. monitored'[s] = reading[s] /\ reading'[s] = None /\ refresh'[s] = refresh[s] - 1
      BY <1>1, <2>1 DEF InstancesType
    <3>2. refresh'[s] = 0 => refresh[s] = 1
      BY <1>2, <2>1, <3>1
    <3> QED
      BY <1>1, <2>1, <3>1, <3>2 DEF InstancesInv, Follows
  <2>2. CASE s # r
    <3>1. monitored'[s] = monitored[s] /\ reading'[s] = reading[s] /\ refresh'[s] = refresh[s]
      BY <1>1, <2>2 DEF InstancesType
    <3> QED
      BY <1>1, <3>1 DEF InstancesInv, Follows
  <2> QED
    BY <2>1, <2>2
<1> QED
  BY <1>1, <1>3, <1>4, <1>5 DEF InstancesInv, OneDefault

-----------------------------------------------------------------------------
(* Requests of the namespace                                               *)

core == <<instances, defaults, change, refresh, reading, monitored, raced, deaf>>

LEMMA UnchangedKeeps == InstancesInv /\ UNCHANGED core => InstancesInv'
<1> SUFFICES ASSUME InstancesInv, UNCHANGED core PROVE InstancesInv'
  OBVIOUS
<1>1. InstancesType'
  BY DEF InstancesInv, core, InstancesType, Active
<1>2. \A m \in Managers : LooksRight(m)'
  BY DEF InstancesInv, core, LooksRight, Active, Removable
<1>3. OneDefault' /\ \A s \in Replicas : Follows(s)'
  BY DEF InstancesInv, core, OneDefault, Follows
<1> QED
  BY <1>1, <1>2, <1>3 DEF InstancesInv

LEMMA EndsKeepInstances ==
    /\ \A r, q : Start(r, q) \/ Goto(r, q) => UNCHANGED core
    /\ \A r : Finish(r) \/ Abort(r) => UNCHANGED core
BY DEF Start, Goto, Finish, Abort, instanceVars, core

\* No step of a request touches the registrations of instances, their changes
\* or the monitors.
LEMMA RequestsKeepInstances ==
    ASSUME NEW r \in Requests,
           \/ \E ts \in SUBSET Tenants \ {{}} : SyncTenants(r, ts)
           \/ ReadDefinitions(r)
           \/ \E t \in Tenants : InsertTenant(r, t)
           \/ \E s \in Requests : BreakDeadlock(r, s)
           \/ CommitTenants(r)
           \/ \E p \in Pairs : Resolve(r, p)
           \/ CreateTopic(r)
           \/ RefuseTopic(r)
           \/ \E d \in Definitions, def \in DefinitionType : ApplyTopicDefinition(r, d, def)
           \/ InsertDefinition(r)
           \/ UpdateDefinition(r)
           \/ \E d \in Definitions : ForgetDefinition(r, d)
           \/ \E d \in Definitions : DeleteTenantTopic(r, d)
           \/ ReadTenants(r)
           \/ \E p \in Pairs : DeletePair(r, p)
           \/ Answer(r)
           \/ \E d \in Definitions, t \in Tenants : GetOrCreateLazyTopic(r, d, t)
           \/ CompatibleLazyTopic(r)
           \/ \E c \in Configs : ApplyTopicTemplate(r, c)
           \/ SameTemplate(r)
           \/ InsertTemplate(r)
           \/ SearchTopics(r)
           \/ MakeTopicsDirty(r)
           \/ \E p \in Pairs : UpdateTopicSettings(r, p)
           \/ UpdateTemplate(r)
           \/ DropTemplate(r)
           \/ DeleteTemplate(r)
           \/ CleanupNamespace(r)
           \/ \E p \in Pairs : CleanTopic(r, p)
           \/ CommitCleanup(r)
           \/ Fail(r)
    PROVE  UNCHANGED core
<1>1. ASSUME NEW q, Start(r, q) \/ Goto(r, q) PROVE UNCHANGED core
  BY <1>1, EndsKeepInstances
<1>2. Finish(r) \/ Abort(r) \/ Rollback(r) => UNCHANGED core
  BY EndsKeepInstances DEF Rollback
<1>3. ASSUME NEW ts, SyncTenants(r, ts) PROVE UNCHANGED core
  BY <1>1, <1>3 DEF SyncTenants
<1>4. CASE ReadDefinitions(r)
  BY <1>1, <1>4 DEF ReadDefinitions
<1>5. ASSUME NEW t, InsertTenant(r, t) PROVE UNCHANGED core
  BY <1>1, <1>2, <1>5 DEF InsertTenant
<1>6. ASSUME NEW s, BreakDeadlock(r, s) PROVE UNCHANGED core
  BY <1>2, <1>6 DEF BreakDeadlock
<1>7. CASE CommitTenants(r)
  BY <1>2, <1>7 DEF CommitTenants
<1>8. ASSUME NEW p, Resolve(r, p) PROVE UNCHANGED core
  BY <1>1, <1>2, <1>8 DEF Resolve
<1>9. CASE CreateTopic(r)
  <2>1. ASSUME NEW p, NEW row, Keep(r, p, row) PROVE UNCHANGED core
    BY <1>1, <2>1 DEF Keep
  <2> QED
    BY <1>2, <1>9, <2>1 DEF CreateTopic
<1>10. CASE RefuseTopic(r)
  BY <1>2, <1>10 DEF RefuseTopic
<1>11. ASSUME NEW d, NEW def, ApplyTopicDefinition(r, d, def) PROVE UNCHANGED core
  BY <1>1, <1>11 DEF ApplyTopicDefinition
<1>12. CASE InsertDefinition(r) \/ UpdateDefinition(r)
  <2>1. Defined(r) => UNCHANGED core
    BY <1>1 DEF Defined
  <2> QED
    BY <1>2, <1>12, <2>1 DEF InsertDefinition, UpdateDefinition
<1>13. ASSUME NEW d, ForgetDefinition(r, d) \/ DeleteTenantTopic(r, d) PROVE UNCHANGED core
  BY <1>1, <1>13 DEF ForgetDefinition, DeleteTenantTopic
<1>14. CASE ReadTenants(r)
  BY <1>1, <1>14 DEF ReadTenants
<1>15. ASSUME NEW p, DeletePair(r, p) PROVE UNCHANGED core
  BY <1>1, <1>15 DEF DeletePair, instanceVars, core
<1>16. CASE Answer(r) \/ SameTemplate(r)
  BY <1>2, <1>16 DEF Answer, SameTemplate
<1>17. ASSUME NEW d, NEW t, GetOrCreateLazyTopic(r, d, t) PROVE UNCHANGED core
  BY <1>1, <1>17 DEF GetOrCreateLazyTopic
<1>18. CASE CompatibleLazyTopic(r)
  BY <1>1, <1>2, <1>18 DEF CompatibleLazyTopic
<1>19. ASSUME NEW c, ApplyTopicTemplate(r, c) PROVE UNCHANGED core
  BY <1>1, <1>19 DEF ApplyTopicTemplate
<1>20. CASE InsertTemplate(r)
  BY <1>2, <1>20 DEF InsertTemplate, instanceVars, core
<1>21. CASE SearchTopics(r) \/ MakeTopicsDirty(r)
  BY <1>1, <1>21 DEF SearchTopics, MakeTopicsDirty
<1>22. ASSUME NEW p, UpdateTopicSettings(r, p) PROVE UNCHANGED core
  BY <1>1, <1>2, <1>22 DEF UpdateTopicSettings
<1>23. CASE UpdateTemplate(r) \/ DeleteTemplate(r)
  BY <1>2, <1>23 DEF UpdateTemplate, DeleteTemplate
<1>24. CASE DropTemplate(r) \/ CleanupNamespace(r)
  BY <1>1, <1>24 DEF DropTemplate, CleanupNamespace
<1>25. ASSUME NEW p, CleanTopic(r, p) PROVE UNCHANGED core
  BY <1>1, <1>25 DEF CleanTopic
<1>26. CASE CommitCleanup(r)
  BY <1>2, <1>26 DEF CommitCleanup, monitors, core
<1>27. CASE Fail(r)
  BY <1>2, <1>27 DEF Fail
<1> QED
  BY <1>3, <1>4, <1>5, <1>6, <1>7, <1>8, <1>9, <1>10, <1>11, <1>12, <1>13, <1>14, <1>15, <1>16,
     <1>17, <1>18, <1>19, <1>20, <1>21, <1>22, <1>23, <1>24, <1>25, <1>26, <1>27

-----------------------------------------------------------------------------
(* Theorems                                                                *)

LEMMA NextKeepsInstances == InstancesInv /\ [Next]_vars => InstancesInv'
<1> SUFFICES ASSUME InstancesInv, [Next]_vars PROVE InstancesInv'
  OBVIOUS
<1>1. CASE UNCHANGED vars
  BY <1>1, UnchangedKeeps DEF vars, instanceVars, core
<1>2. CASE UNCHANGED core
  BY <1>2, UnchangedKeeps
<1>3. ASSUME NEW m \in Managers, NEW r \in Replicas, NEW i \in Instances, NEW default \in BOOLEAN,
             \/ Register(m, r, i, default) \/ Update(m, r, i, default) \/ SetDefault(m, r, i)
             \/ Remove(m, r, i) \/ Deploy(m, r, i, default)
      PROVE  InstancesInv'
  BY <1>3, RegisterKeeps, UpdateKeeps, OtherBeginsKeep
<1>4. ASSUME NEW m \in Managers, NEW r \in Replicas, NEW i \in Instances,
             SetDefault(m, r, i) \/ Remove(m, r, i)
      PROVE  InstancesInv'
  BY <1>3, <1>4
<1>5. ASSUME NEW m \in Managers,
             \/ DeployInstance(m) \/ ClearDefaults(m) \/ CommitSave(m) \/ CommitDefault(m)
             \/ CommitRemove(m, InUse) \/ RefuseChange(m, InUse) \/ Tell(m)
      PROVE  InstancesInv'
  BY <1>5, DeployInstanceKeeps, ClearDefaultsKeeps, CommitSaveKeeps, CommitDefaultKeeps,
     CommitRemoveKeeps, RefuseChangeKeeps, TellKeeps
<1>6. ASSUME NEW i, PutDesignator(i) PROVE InstancesInv'
  <2>1. UNCHANGED core
    BY <1>6 DEF PutDesignator, monitors, core
  <2> QED
    BY <2>1, UnchangedKeeps
<1>7. ASSUME NEW r \in Replicas, ReadBrokerList(r) \/ StoreBrokerList(r) PROVE InstancesInv'
  BY <1>7, ReadBrokerListKeeps, StoreBrokerListKeeps
<1>8. CASE Rest
  BY <1>1, <1>8 DEF Rest
<1>9. CASE Next
  <2>1. CASE Rest
    BY <1>8, <2>1
  <2>2. CASE \/ \E i \in Instances \cup {None} : PutDesignator(i) /\ UNCHANGED topicVars
             \/ \E r \in Replicas : ReadBrokerList(r) /\ UNCHANGED topicVars
             \/ \E r \in Replicas : StoreBrokerList(r) /\ UNCHANGED topicVars
    BY <1>6, <1>7, <2>2
  <2>3. ASSUME NEW m \in Managers,
               \/ \E r \in Replicas, i \in Instances, default \in BOOLEAN : Register(m, r, i, default)
               \/ \E r \in Replicas, i \in Instances, default \in BOOLEAN : Update(m, r, i, default)
               \/ \E r \in Replicas, i \in Instances : SetDefault(m, r, i)
               \/ \E r \in Replicas, i \in Instances : Remove(m, r, i)
               \/ \E r \in Replicas, i \in Instances, default \in BOOLEAN : Deploy(m, r, i, default)
               \/ DeployInstance(m) \/ ClearDefaults(m) \/ CommitSave(m) \/ CommitDefault(m)
               \/ CommitRemove(m, InUse) \/ RefuseChange(m, InUse) \/ Tell(m)
        PROVE  InstancesInv'
    BY <1>3, <1>4, <1>5, <2>3
  <2>4. QED
    BY <1>2, <1>9, <2>1, <2>2, <2>3, RequestsKeepInstances DEF Next
<1> QED
  BY <1>1, <1>9

\* The invariant from which the properties of the registrations and of the
\* monitors follow.
THEOREM Inductive == Spec => []InstancesInv
BY InitInstancesInv, NextKeepsInstances, PTL DEF Spec

\* While instances are registered exactly one is the default, unless changes
\* of the registrations have overlapped; and one switch of the default that
\* runs alone restores it (SetDefaultInstance, InsertInstanceRegistration,
\* RemoveInstanceRegistration), for any number of instances and managers.
THEOREM OneDefaultInstance == Spec => []OneDefault
<1>1. InstancesInv => OneDefault
  BY DEF InstancesInv
<1> QED
  BY <1>1, Inductive, PTL

\* A monitor with no refresh to do checks the instances that are registered,
\* unless another replica has changed them since it read the list
\* (refreshBrokerList), for any number of changes.
THEOREM MonitorFollows == Spec => []MonitorKnowsInstances
<1>1. InstancesInv => MonitorKnowsInstances
  BY DEF InstancesInv, InstancesType, Follows, MonitorKnowsInstances
<1> QED
  BY <1>1, Inductive, PTL

-----------------------------------------------------------------------------
(* Requests: the inductive invariant                                       *)

Ops == {"idle", "tenants", "define", "undefine", "forget", "lazy", "template", "drop", "cleanup"}

StepsOf(op) ==
    CASE op = "idle"     -> {"idle"}
      [] op = "tenants"  -> {"definitions", "insert", "topics", "finish"}
      [] op = "define"   -> {"insert", "update", "tenants", "topics", "finish"}
      [] op = "undefine" -> {"tenants", "delete", "finish"}
      [] op = "forget"   -> {"finish"}
      [] op = "lazy"     -> {"lazy", "topics", "finish"}
      [] op = "template" -> {"create", "same", "search", "dirty", "update", "template"}
      [] op = "drop"     -> {"drop"}
      [] op = "cleanup"  -> {"clean"}

TablesInv ==
    /\ tenants \subseteq Tenants /\ lazy \subseteq Definitions
    /\ definitions \in [Definitions -> DefinitionType \cup {None}]
    /\ template.id \in Nat /\ lastId \in Nat /\ template.id <= lastId
    /\ template.id # 0 => template.configs \in Configs
    /\ rows \in [Pairs -> Row \cup {None}]
    /\ \A p \in Pairs : rows[p] # None => rows[p].template <= lastId
    /\ kafka \in [Instances -> [Pairs -> Configs \cup {None}]]
    /\ designator \in Instances \cup {None}
    /\ settled \subseteq Definitions

\* What a request has at hand at each of its steps.
Shape(q) ==
    /\ DOMAIN q = DOMAIN NoRequest
    /\ q.op \in Ops /\ q.at \in StepsOf(q.op)
    /\ q.todo \subseteq Pairs /\ q.toCreate \subseteq Tenants /\ q.inserted \subseteq Tenants
    /\ q.op # "tenants" => q.toCreate = {} /\ q.inserted = {}
    /\ q.op \notin {"tenants", "cleanup"} => DOMAIN q.mine = {}
    /\ q.topic # None => q.at = "topics" /\ q.topic.pair \in q.todo /\ q.topic.row \in Row
    /\ q.todo # {} => q.op = "cleanup" \/ q.at \in {"topics", "delete", "lazy", "dirty"}
                      \/ (q.op = "template" /\ q.at = "update")

TenantsTask(q) == q.op = "tenants" =>
    /\ DOMAIN q.defs \subseteq Definitions \ lazy
    /\ \A d \in DOMAIN q.defs : q.defs[d] \in DefinitionType
    /\ \A p \in q.todo \cup DOMAIN q.mine : p \in Pairs /\ p[1] \in DOMAIN q.defs /\ p[2] \in q.inserted
    /\ \A p \in DOMAIN q.mine : q.mine[p] \in Row
    /\ IF q.at = "definitions" THEN q.inserted = {} /\ DOMAIN q.mine = {}
       ELSE \A d \in DOMAIN q.defs, t \in q.inserted : <<d, t>> \in q.todo \cup DOMAIN q.mine

DefinitionTask(q) ==
    /\ q.op \in {"define", "undefine", "forget"} => q.name \in Definitions /\ \A p \in q.todo : p[1] = q.name
    /\ q.op = "define" =>
          /\ DOMAIN q.defs = {q.name} /\ q.defs[q.name] \in DefinitionType
          /\ q.at \in {"tenants", "topics"} => q.name \notin lazy
    /\ q.op = "undefine" => q.name \notin lazy
    /\ q.op = "lazy" =>
          /\ q.name \in lazy /\ \A p \in q.todo : p[1] = q.name
          /\ q.at = "topics" => DOMAIN q.defs = {q.name} /\ q.defs[q.name] \in DefinitionType

TemplateTask(q) == q.op = "template" =>
    /\ q.configs \in Configs /\ q.found.id \in Nat
    /\ q.at # "create" => q.found.id # 0
    /\ q.at \in {"dirty", "update"} => \A p \in q.todo : p \in DOMAIN q.snap /\ q.snap[p] \in Row

CleanupTask(q) == q.op = "cleanup" => \A p \in DOMAIN q.mine : p \in Pairs /\ q.mine[p] = None

Sound(q) == Shape(q) /\ TenantsTask(q) /\ DefinitionTask(q) /\ TemplateTask(q) /\ CleanupTask(q)

\* The topics that a transaction has made are on Kafka, and nobody else sees
\* its tenants.
Current(q) ==
    /\ q.known \subseteq tenants /\ q.inserted \cap tenants = {}
    /\ q.op = "template" => q.found.id <= lastId
    /\ q.op = "tenants" => \A p \in DOMAIN q.mine : /\ q.mine[p].template <= lastId
                                                    /\ kafka[q.mine[p].instance][p] # None

\* A tenant is inserted by one transaction, and a row is held by one.
Apart(q, s) == q.inserted \cap s.inserted = {} /\ DOMAIN q.mine \cap DOMAIN s.mine = {}

\* The foreign key of tenant topics.
TenantsInv == \A p \in Pairs : rows[p] # None /\ p[1] \notin lazy => p[2] \in tenants

AloneInv == \A r, s \in Requests : Running(r) /\ request[r].alone /\ r # s => ~Running(s)

About(q, d) == q.op = "cleanup" \/ (q.op \in {"define", "undefine", "forget"} /\ q.name = d)

HasTopic(p) == rows[p] # None /\ kafka[rows[p].instance][p] # None

\* What a request may have at hand while d is settled.
Agrees(q, d) ==
    /\ ~About(q, d)
    /\ q.op = "tenants" /\ q.at # "definitions" => (d \in DOMAIN q.defs <=> definitions[d] # None)
    /\ q.op = "template" => \A p \in q.todo : p[1] = d => rows[p] # None

Served(d) == \A t \in tenants : IF definitions[d] = None THEN rows[<<d, t>>] = None ELSE HasTopic(<<d, t>>)

SettledInv == \A d \in settled \ lazy : Served(d) /\ \A r \in Requests : Agrees(request[r], d)

\* What a request has achieved that is alone.
DefineAlone(q) == q.op = "define" /\ q.name \notin lazy =>
    /\ q.at \in {"tenants", "topics", "finish"} => definitions[q.name] # None
    /\ q.at \in {"topics", "finish"} => \A t \in tenants : <<q.name, t>> \in q.todo \/ HasTopic(<<q.name, t>>)

UndefineAlone(q) == q.op = "undefine" =>
    /\ definitions[q.name] = None
    /\ q.at \in {"delete", "finish"} /\ q.ok =>
          \A t \in tenants : <<q.name, t>> \in q.todo \/ rows[<<q.name, t>>] = None

Has(row, p, c) == row.configs = c /\ Meets(kafka[row.instance][p], c)

TemplateAlone(q) == q.op = "template" =>
    /\ template.id = q.found.id
    /\ q.at = "same" => template.configs = q.configs
    /\ q.at \in {"search", "dirty", "update", "template"} => template.configs # q.configs
    /\ q.at = "dirty" => q.todo = Linked(template.id)
    /\ q.at \in {"update", "template"} => \A p \in Linked(template.id) \ q.todo : Has(rows[p], p, q.configs)

AloneWork(q) == q.alone => DefineAlone(q) /\ UndefineAlone(q) /\ TemplateAlone(q)

OwedInv ==
    /\ owed \in Configs => template.id = 0 \/ owed # template.configs
    /\ \A r \in Requests : request[r].op = "cleanup" => owed = Unknown

\* No change of the template has gone beyond the marks, and the last one was
\* completed.
Early(q) == q.op = "template" => q.alone /\ q.at \in {"create", "same", "search", "dirty"}
Calm == owed = None /\ template.id # 0 /\ \A r \in Requests : Early(request[r])

\* What is committed, and what a request is about to write.
InHand(q) ==
    /\ q.topic # None /\ q.topic.row.template = template.id => q.topic.row.configs = template.configs
    /\ q.op = "tenants" => \A p \in DOMAIN q.mine :
          q.mine[p].template = template.id => Has(q.mine[p], p, template.configs)

TemplateInv == Calm =>
    /\ \A p \in Linked(template.id) : Has(rows[p], p, template.configs)
    /\ \A r \in Requests : InHand(request[r])

RequestsInv ==
    /\ DOMAIN request = Requests
    /\ \A r \in Requests : Sound(request[r]) /\ Current(request[r]) /\ AloneWork(request[r])
    /\ \A r, s \in Requests : r # s => Apart(request[r], request[s])
    /\ AloneInv

IInv == TablesInv /\ RequestsInv /\ TenantsInv /\ SettledInv /\ OwedInv /\ TemplateInv

-----------------------------------------------------------------------------
(* Facts                                                                   *)

LEMMA FieldsIs ==
    DOMAIN NoRequest = {"op", "at", "name", "configs", "found", "defs", "toCreate", "inserted", "todo",
                        "topic", "snap", "mine", "known", "ok", "alone"}
BY DEF NoRequest

LEMMA NoneFacts ==
    /\ \A x \in Row : x # None
    /\ \A x \in DefinitionType : x # None
    /\ \A x \in Configs : x # None /\ x # Unknown
    /\ \A x \in [pair : Pairs, row : Row] : x # None
    /\ None # Unknown /\ None \notin Instances
BY TopicsAssumption, InstancesAssumption

LEMMA AppliedIs ==
    ASSUME NEW actual \in Configs \cup {None}, NEW asked \in Configs
    PROVE  /\ Applied(actual, asked) \in Configs /\ Applied(actual, asked) # None
           /\ Meets(Applied(actual, asked), asked)
BY NoneFacts DEF Applied, Meets

LEMMA PairFacts ==
    /\ \A p \in Pairs : p[1] \in Definitions /\ p[2] \in Tenants /\ p = <<p[1], p[2]>>
    /\ \A d \in Definitions, t \in Tenants : <<d, t>> \in Pairs /\ <<d, t>>[1] = d /\ <<d, t>>[2] = t
BY DEF Pairs

LEMMA HoldsIs ==
    ASSUME NEW f, NEW p, NEW row
    PROVE  /\ DOMAIN Holds(f, p, row) = {p} \cup DOMAIN f
           /\ Holds(f, p, row)[p] = row
           /\ \A x \in DOMAIN f : x # p => Holds(f, p, row)[x] = f[x]
BY DEF Holds

LEMMA FoundIs ==
    ASSUME NEW D \in SUBSET Definitions, TablesInv
    PROVE  /\ DOMAIN FindDefinitions(D) = {e \in D : definitions[e] # None}
           /\ \A d \in DOMAIN FindDefinitions(D) : /\ FindDefinitions(D)[d] = definitions[d]
                                                   /\ definitions[d] \in DefinitionType
BY DEF FindDefinitions, TablesInv

\* The end of a request settles nothing, or what it was about.
LEMMA SettlesIs ==
    ASSUME NEW q, NEW ok \in BOOLEAN, Settles(q, ok)
    PROVE  /\ \A d \in settled' \ settled : ok /\ q.ok /\ q.alone /\
                 \/ q.op \in {"define", "undefine"} /\ d = q.name
                 \/ q.op = "cleanup" /\ d \in Definitions
           /\ q.op \notin {"template", "cleanup"} => owed' = owed
           /\ q.op = "template" /\ ~q.alone => owed' = Unknown
           /\ q.op = "template" /\ q.alone /\ ok =>
                 owed' = IF q.at = "template" \/ owed = q.configs THEN None ELSE owed
           /\ q.op = "template" /\ q.alone /\ ~ok =>
                 owed' = IF q.at \in {"update", "template"} THEN q.configs ELSE owed
           /\ q.op = "cleanup" => owed' = IF ok /\ q.alone THEN None ELSE Unknown
<1>1. settled' = IF ~(ok /\ q.ok /\ q.alone) THEN settled
                 ELSE CASE q.op \in {"define", "undefine"} -> settled \cup {q.name}
                        [] q.op = "cleanup" -> Definitions
                        [] OTHER -> settled
  BY DEF Settles
<1>2. owed' = CASE q.op = "template" ->
                      IF ~q.alone THEN Unknown
                      ELSE IF ok THEN IF q.at = "template" \/ owed = q.configs THEN None ELSE owed
                      ELSE IF q.at \in {"update", "template"} THEN q.configs ELSE owed
                 [] q.op = "cleanup" -> IF ok /\ q.alone THEN None ELSE Unknown
                 [] OTHER -> owed
  BY DEF Settles
<1>3. \A d \in settled' \ settled : ok /\ q.ok /\ q.alone /\
         \/ q.op \in {"define", "undefine"} /\ d = q.name
         \/ q.op = "cleanup" /\ d \in Definitions
  BY <1>1
<1> QED
  BY <1>2, <1>3

LEMMA NoRequestIs ==
    /\ Sound(NoRequest) /\ NoRequest.op = "idle" /\ NoRequest.topic = None /\ NoRequest.todo = {}
    /\ NoRequest.inserted = {} /\ NoRequest.known = {} /\ DOMAIN NoRequest.mine = {}
<1>1. /\ NoRequest.op = "idle" /\ NoRequest.at = "idle" /\ NoRequest.topic = None /\ NoRequest.todo = {}
      /\ NoRequest.inserted = {} /\ NoRequest.toCreate = {} /\ NoRequest.known = {}
      /\ DOMAIN NoRequest.mine = {}
  BY DEF NoRequest
<1>2. Shape(NoRequest)
  BY <1>1 DEF Shape, Ops, StepsOf
<1> QED
  BY <1>1, <1>2 DEF Sound, TenantsTask, DefinitionTask, TemplateTask, CleanupTask

\* A request that is not under way has nothing at hand.
LEMMA IdleIs ==
    ASSUME NEW q, q.op = "idle", Shape(q)
    PROVE  /\ q.inserted = {} /\ DOMAIN q.mine = {} /\ q.todo = {} /\ q.topic = None /\ q.at = "idle"
           /\ AloneWork(q) /\ Early(q) /\ InHand(q) /\ \A d : Agrees(q, d)
<1>1. q.inserted = {} /\ DOMAIN q.mine = {} /\ q.todo = {} /\ q.topic = None /\ q.at = "idle"
  BY DEF Shape, StepsOf
<1> QED
  BY <1>1 DEF AloneWork, DefineAlone, UndefineAlone, TemplateAlone, Early, InHand, Agrees, About

\* What holds of the requests that a step of r does not touch.
LEMMA OthersKeep ==
    ASSUME TablesInv, RequestsInv, NEW r \in Requests, Running(r), NEW s \in Requests, s # r,
           request'[s] = request[s], UNCHANGED lazy, lastId' \in Nat, lastId <= lastId',
           request[s].known \subseteq tenants', request[s].inserted \cap tenants' = {},
           \A p \in DOMAIN request[s].mine, i \in Instances : kafka'[i][p] = kafka[i][p]
    PROVE  Sound(request[s])' /\ Current(request[s])' /\ AloneWork(request[s])'
<1> DEFINE q == request[s]
<1>1. Sound(q) /\ Current(q) /\ ~(Running(s) /\ q.alone)
  BY DEF RequestsInv, AloneInv
<1>2. Sound(q)'
  BY <1>1 DEF Sound, Shape, TenantsTask, DefinitionTask, TemplateTask, CleanupTask
<1>3. Current(q)'
  <2>1. q.op = "template" => q.found.id <= lastId'
    <3>1. q.op = "template" => q.found.id \in Nat /\ q.found.id <= lastId
      BY <1>1 DEF Sound, TemplateTask, Current
    <3> QED
      BY <3>1 DEF TablesInv
  <2>2. ASSUME q.op = "tenants", NEW p \in DOMAIN q.mine
        PROVE  q.mine[p].template <= lastId' /\ kafka'[q.mine[p].instance][p] # None
    <3>1. q.mine[p] \in Row /\ q.mine[p].template <= lastId /\ kafka[q.mine[p].instance][p] # None
      BY <1>1, <2>2 DEF Sound, TenantsTask, Current
    <3> QED
      BY <3>1 DEF Row, TablesInv
  <2> QED
    BY <2>1, <2>2 DEF Current
<1>4. AloneWork(q)'
  <2>1. CASE q.op = "idle"
    BY <1>2, <2>1, IdleIs DEF Sound, AloneWork, DefineAlone, UndefineAlone, TemplateAlone
  <2>2. CASE q.op # "idle"
    BY <1>1, <2>2 DEF Running, AloneWork
  <2> QED
    BY <2>1, <2>2
<1> QED
  BY <1>2, <1>3, <1>4

LEMMA HeldAreTopics ==
    ASSUME RequestsInv
    PROVE  \A s \in Requests : \A p \in DOMAIN request[s].mine : p \in Pairs
<1> SUFFICES ASSUME NEW s \in Requests
             PROVE  \A p \in DOMAIN request[s].mine : p \in Pairs
  OBVIOUS
<1>1. Sound(request[s])
  BY DEF RequestsInv
<1> QED
  BY <1>1 DEF Sound, Shape, TenantsTask, CleanupTask

\* A step of r leaves r with n at hand.
LEMMA StepKeeps ==
    ASSUME TablesInv, RequestsInv, NEW r \in Requests, Running(r),
           NEW n, request' = [request EXCEPT ![r] = n],
           UNCHANGED lazy, lastId' \in Nat, lastId <= lastId',
           \A s \in Requests \ {r} : /\ request[s].known \subseteq tenants'
                                     /\ request[s].inserted \cap tenants' = {}
                                     /\ \A p \in DOMAIN request[s].mine, i \in Instances : kafka'[i][p] = kafka[i][p],
           Sound(n), Current(n)', AloneWork(n)',
           n.op # "idle" => n.alone = request[r].alone,
           \A s \in Requests \ {r} : Apart(n, request[s])
    PROVE  RequestsInv'
<1>1. /\ DOMAIN request = Requests /\ DOMAIN request' = Requests /\ request'[r] = n
      /\ \A s \in Requests \ {r} : request'[s] = request[s]
  BY DEF RequestsInv
<1>2. Sound(request[r])' /\ Current(request[r])' /\ AloneWork(request[r])'
  <2>1. Sound(request[r])'
    BY <1>1 DEF Sound, Shape, TenantsTask, DefinitionTask, TemplateTask, CleanupTask
  <2>2. Current(request[r])'
    BY <1>1 DEF Current
  <2>3. AloneWork(request[r])'
    BY <1>1 DEF AloneWork, DefineAlone, UndefineAlone, TemplateAlone, HasTopic, Linked
  <2> QED
    BY <2>1, <2>2, <2>3
<1>3. ASSUME NEW s \in Requests
      PROVE  Sound(request[s])' /\ Current(request[s])' /\ AloneWork(request[s])'
  <2>1. CASE s # r
    BY <1>1, <2>1, OthersKeep
  <2> QED
    BY <1>2, <2>1
<1>4. ASSUME NEW s \in Requests, NEW u \in Requests, s # u
      PROVE  Apart(request[s], request[u])'
  <2>1. s # r /\ u # r => Apart(request[s], request[u])
    BY <1>4 DEF RequestsInv
  <2> QED
    BY <1>1, <1>4, <2>1 DEF Apart
<1>5. AloneInv'
  BY <1>1 DEF RequestsInv, AloneInv, Running
<1> QED
  BY <1>1, <1>3, <1>4, <1>5 DEF RequestsInv

LEMMA EndKeeps ==
    ASSUME TablesInv, RequestsInv, NEW r \in Requests, Running(r),
           request' = [request EXCEPT ![r] = NoRequest],
           UNCHANGED lazy, lastId' \in Nat, lastId <= lastId',
           \A s \in Requests \ {r} : /\ request[s].known \subseteq tenants'
                                     /\ request[s].inserted \cap tenants' = {}
                                     /\ \A p \in DOMAIN request[s].mine, i \in Instances : kafka'[i][p] = kafka[i][p]
    PROVE  RequestsInv'
<1>1. PICK n : n = NoRequest
  OBVIOUS
<1>2. Sound(n) /\ Current(n)' /\ AloneWork(n)'
  BY <1>1, NoRequestIs DEF Current, AloneWork, DefineAlone, UndefineAlone, TemplateAlone
<1>3. \A s \in Requests \ {r} : Apart(n, request[s])
  BY <1>1, NoRequestIs DEF Apart
<1>4. n.op = "idle" /\ request' = [request EXCEPT ![r] = n]
  BY <1>1, NoRequestIs
<1> QED
  BY <1>2, <1>3, <1>4, StepKeeps

\* Of a definition that stays settled, and of one that r has settled.
LEMMA SettledKeeps ==
    ASSUME RequestsInv, SettledInv, NEW r \in Requests, NEW n, request' = [request EXCEPT ![r] = n],
           UNCHANGED lazy,
           \A d \in settled' \ lazy : Served(d)',
           \A d \in settled' \ lazy : d \in settled =>
               /\ definitions'[d] = definitions[d] /\ Agrees(n, d)'
               /\ \A p \in Pairs : p[1] = d /\ rows[p] # None => rows'[p] # None,
           settled' \subseteq settled \/ (n = NoRequest /\ Running(r) /\ request[r].alone)
    PROVE  SettledInv'
<1>1. /\ DOMAIN request = Requests /\ DOMAIN request' = Requests /\ request'[r] = n
      /\ \A s \in Requests \ {r} : request'[s] = request[s]
  BY DEF RequestsInv
<1>2. ASSUME NEW d \in settled' \ lazy, NEW s \in Requests
      PROVE  Agrees(request[s], d)'
  <2>1. CASE d \in settled
    <3>1. CASE s = r
      BY <1>1, <2>1, <3>1 DEF Agrees, About
    <3>2. CASE s # r
      <4>1. Agrees(request[s], d) /\ Sound(request[s])
        BY <1>2, <2>1 DEF SettledInv, RequestsInv
      <4>2. request[s].todo \subseteq Pairs
        BY <4>1 DEF Sound, Shape
      <4>3. /\ definitions'[d] = definitions[d]
            /\ \A p \in Pairs : p[1] = d /\ rows[p] # None => rows'[p] # None
        BY <1>2, <2>1
      <4> QED
        BY <1>1, <3>2, <4>1, <4>2, <4>3 DEF Agrees, About
    <3> QED
      BY <3>1, <3>2
  <2>2. CASE d \notin settled
    <3>1. n = NoRequest /\ Running(r) /\ request[r].alone
      BY <1>2, <2>2
    <3>2. request'[s].op = "idle"
      BY <1>1, <3>1, NoRequestIs DEF RequestsInv, AloneInv, Running
    <3>3. Shape(request'[s])
      <4>1. Shape(request[s]) /\ Shape(NoRequest)
        BY NoRequestIs DEF RequestsInv, Sound
      <4> QED
        BY <1>1, <3>1, <4>1
    <3>4. request'[s].todo = {}
      BY <3>2, <3>3, IdleIs
    <3> QED
      BY <3>2, <3>4 DEF Agrees, About
  <2> QED
    BY <2>1, <2>2
<1> QED
  BY <1>2 DEF SettledInv

LEMMA OwedKeeps ==
    ASSUME RequestsInv, OwedInv, NEW r \in Requests, NEW n, request' = [request EXCEPT ![r] = n],
           UNCHANGED <<owed, template>>, n.op = "cleanup" => request[r].op = "cleanup"
    PROVE  OwedInv'
BY DEF OwedInv, RequestsInv

LEMMA TemplateKeeps ==
    ASSUME RequestsInv, TemplateInv, NEW r \in Requests, NEW n, request' = [request EXCEPT ![r] = n],
           UNCHANGED <<owed, template>>, Early(n) => Early(request[r]),
           \A s \in Requests \ {r}, i \in Instances :
               \A p \in DOMAIN request[s].mine : kafka'[i][p] = kafka[i][p],
           Calm /\ Early(n) => InHand(n)',
           Calm /\ Early(n) => \A p \in Linked(template.id)' : Has(rows[p], p, template.configs)'
    PROVE  TemplateInv'
<1>1. /\ DOMAIN request = Requests /\ DOMAIN request' = Requests /\ request'[r] = n
      /\ \A s \in Requests \ {r} : request'[s] = request[s]
  BY DEF RequestsInv
<1> SUFFICES ASSUME Calm'
             PROVE  /\ \A p \in Linked(template.id)' : Has(rows[p], p, template.configs)'
                    /\ \A s \in Requests : InHand(request[s])'
  BY DEF TemplateInv
<1>2. \A s \in Requests : Early(request'[s])
  BY DEF Calm, Early
<1>3. Early(n) /\ Calm
  BY <1>1, <1>2 DEF Calm
<1>4. ASSUME NEW s \in Requests, s # r
      PROVE  InHand(request[s])'
  <2>1. InHand(request[s]) /\ Sound(request[s])
    BY <1>3 DEF TemplateInv, RequestsInv
  <2>2. ASSUME request[s].op = "tenants", NEW p \in DOMAIN request[s].mine, request[s].mine[p].template = template.id
        PROVE  Has(request[s].mine[p], p, template.configs)'
    <3>1. Has(request[s].mine[p], p, template.configs) /\ request[s].mine[p] \in Row
      BY <2>1, <2>2 DEF InHand, Sound, TenantsTask
    <3> QED
      BY <1>1, <1>4, <3>1 DEF Has, Row
  <2> QED
    BY <1>1, <1>4, <2>1, <2>2 DEF InHand
<1>5. InHand(request[r])'
  BY <1>1, <1>3 DEF InHand, Has
<1> QED
  BY <1>3, <1>4, <1>5

-----------------------------------------------------------------------------
(* Steps that change no table                                              *)

LEMMA TablesKeep ==
    ASSUME TablesInv, UNCHANGED <<tables, lazy, kafka, designator>>, settled' \subseteq Definitions
    PROVE  TablesInv' /\ (TenantsInv => TenantsInv')
BY DEF TablesInv, TenantsInv, tables

LEMMA ServedStays ==
    ASSUME NEW d, Served(d), UNCHANGED <<tenants, definitions, rows, kafka>>
    PROVE  Served(d)'
BY DEF Served, HasTopic

\* r has read something.
LEMMA ReadKeeps ==
    ASSUME IInv, NEW r \in Requests, Running(r), NEW n, request' = [request EXCEPT ![r] = n],
           UNCHANGED <<tables, lazy, kafka, settled, owed, designator>>,
           Sound(n), Current(n), AloneWork(n), n.op = request[r].op, n.alone = request[r].alone,
           \A s \in Requests \ {r} : Apart(n, request[s]),
           \A d \in settled \ lazy : Agrees(n, d),
           Early(n) => Early(request[r]) /\ (Calm => InHand(n))
    PROVE  IInv'
<1> USE DEF IInv
<1>1. UNCHANGED <<tenants, definitions, template, lastId, rows>>
  BY DEF tables
<1>2. TablesInv' /\ TenantsInv'
  BY TablesKeep DEF TablesInv
<1>3. RequestsInv'
  <2>1. PICK m : m = n
    OBVIOUS
  <2>2. Sound(m) /\ (\A s \in Requests \ {r} : Apart(m, request[s]))
    BY <2>1
  <2>3. Current(m)'
    BY <1>1, <2>1 DEF Current
  <2>4. AloneWork(m)'
    BY <1>1, <2>1 DEF AloneWork, DefineAlone, UndefineAlone, TemplateAlone, HasTopic, Has, Linked
  <2>5. \A s \in Requests \ {r} : request[s].known \subseteq tenants /\ request[s].inserted \cap tenants = {}
    BY DEF RequestsInv, Current
  <2>6. lastId' \in Nat /\ lastId <= lastId'
    BY <1>1 DEF TablesInv
  <2> QED
    BY <1>1, <2>1, <2>2, <2>3, <2>4, <2>5, <2>6, StepKeeps
<1>4. SettledInv'
  <2>1. \A d \in settled \ lazy : Served(d)'
    BY <1>1, ServedStays DEF SettledInv
  <2>2. \A d \in settled \ lazy : Agrees(n, d)'
    BY <1>1 DEF Agrees, About
  <2> QED
    BY <1>1, <2>1, <2>2, SettledKeeps
<1>5. OwedInv'
  BY <1>1, OwedKeeps
<1>6. TemplateInv'
  <2>1. Calm /\ Early(n) => InHand(n)'
    BY <1>1 DEF InHand, Has
  <2>2. Calm => \A p \in Linked(template.id)' : Has(rows[p], p, template.configs)'
    BY <1>1 DEF TemplateInv, Has, Linked
  <2> QED
    BY <1>1, <2>1, <2>2, TemplateKeeps
<1> QED
  BY <1>2, <1>3, <1>4, <1>5, <1>6

\* r has failed: what is committed stays.
LEMMA RollbackKeeps ==
    ASSUME IInv, NEW r \in Requests, Running(r), Rollback(r)
    PROVE  IInv'
<1> USE DEF IInv
<1> DEFINE q == request[r]
<1>1. /\ UNCHANGED <<tenants, definitions, template, lastId, rows, kafka, lazy, designator>>
      /\ request' = [request EXCEPT ![r] = NoRequest] /\ Settles(q, FALSE)
  BY DEF Rollback, Abort, tables, instanceVars
<1>2. /\ settled' \subseteq settled
      /\ q.op \notin {"template", "cleanup"} => owed' = owed
      /\ q.op = "template" => owed' = IF ~q.alone THEN Unknown
                                      ELSE IF q.at \in {"update", "template"} THEN q.configs ELSE owed
      /\ q.op = "cleanup" => owed' = Unknown
  BY <1>1, SettlesIs
<1>3. TablesInv' /\ TenantsInv'
  BY <1>1, <1>2, TablesKeep DEF TablesInv, tables
<1>4. Sound(q) /\ Current(q) /\ AloneWork(q)
  BY DEF RequestsInv
<1>5. RequestsInv'
  <2>1. \A s \in Requests \ {r} : request[s].known \subseteq tenants /\ request[s].inserted \cap tenants = {}
    BY DEF RequestsInv, Current
  <2>2. lastId' \in Nat /\ lastId <= lastId'
    BY <1>1 DEF TablesInv
  <2> QED
    BY <1>1, <2>1, <2>2, EndKeeps
<1>6. SettledInv'
  <2>1. \A d \in settled' \ lazy : Served(d)'
    BY <1>1, <1>2, ServedStays DEF SettledInv
  <2>2. \A d \in settled' \ lazy : Agrees(NoRequest, d)'
    BY <1>1, NoRequestIs DEF Agrees, About
  <2> QED
    BY <1>1, <1>2, <2>1, <2>2, SettledKeeps
<1>7. CASE q.op \notin {"template", "cleanup"} \/ (q.op = "template" /\ q.alone /\ q.at \notin {"update", "template"})
  <2>1. owed' = owed /\ Early(q)
    BY <1>2, <1>4, <1>7 DEF Early, Sound, Shape, StepsOf
  <2>2. OwedInv'
    BY <1>1, <2>1, NoRequestIs, OwedKeeps
  <2>3. InHand(NoRequest)'
    BY NoRequestIs DEF InHand
  <2>4. Calm => \A p \in Linked(template.id)' : Has(rows[p], p, template.configs)'
    BY <1>1 DEF TemplateInv, Has, Linked
  <2>5. TemplateInv'
    BY <1>1, <2>1, <2>3, <2>4, TemplateKeeps
  <2> QED
    BY <1>3, <1>5, <1>6, <2>2, <2>5
<1>8. CASE q.op = "cleanup" \/ (q.op = "template" /\ ~q.alone)
  <2>1. owed' = Unknown
    BY <1>2, <1>8
  <2>2. OwedInv' /\ TemplateInv'
    BY <2>1, NoneFacts, <1>1 DEF OwedInv, TemplateInv, Calm
  <2> QED
    BY <1>3, <1>5, <1>6, <2>2
<1>9. CASE q.op = "template" /\ q.alone /\ q.at \in {"update", "template"}
  <2>1. owed' = q.configs /\ q.configs \in Configs /\ template.configs # q.configs
    BY <1>2, <1>4, <1>9 DEF Sound, TemplateTask, AloneWork, TemplateAlone
  <2>2. TemplateInv'
    BY <2>1, NoneFacts DEF TemplateInv, Calm
  <2>3. \A s \in Requests : request'[s].op # "cleanup"
    BY <1>1, <1>9, NoRequestIs DEF RequestsInv, AloneInv, Running
  <2>4. OwedInv'
    BY <1>1, <2>1, <2>3 DEF OwedInv
  <2> QED
    BY <1>3, <1>5, <1>6, <2>2, <2>4
<1> QED
  BY <1>7, <1>8, <1>9

\* r has failed after it has changed a topic on Kafka, which is there still.
LEMMA TornKeeps ==
    ASSUME IInv, NEW r \in Requests, NEW p \in Pairs, Running(r), Abort(r), settled' \subseteq settled,
           kafka' \in [Instances -> [Pairs -> Configs \cup {None}]],
           \A i \in Instances, e \in Pairs : e # p => kafka'[i][e] = kafka[i][e],
           \A i \in Instances : kafka[i][p] # None => kafka'[i][p] # None,
           \A s \in Requests \ {r} : p \notin DOMAIN request[s].mine,
           OwedInv', Calm' => Calm /\ p \notin Linked(template.id)
    PROVE  IInv'
<1> USE DEF IInv
<1>1. /\ UNCHANGED <<tenants, definitions, template, lastId, rows, lazy, designator>>
      /\ request' = [request EXCEPT ![r] = NoRequest]
  BY DEF Abort, tables, instanceVars
<1>2. TablesInv' /\ TenantsInv'
  BY <1>1 DEF TablesInv, TenantsInv
<1>3. \A s \in Requests \ {r} : \A e \in DOMAIN request[s].mine : e \in Pairs /\ e # p
  BY HeldAreTopics
<1>4. \A s \in Requests \ {r} : \A e \in DOMAIN request[s].mine, i \in Instances : kafka'[i][e] = kafka[i][e]
  BY <1>3
<1>5. RequestsInv'
  <2>1. \A s \in Requests \ {r} : request[s].known \subseteq tenants /\ request[s].inserted \cap tenants = {}
    BY DEF RequestsInv, Current
  <2>2. lastId' \in Nat /\ lastId <= lastId'
    BY <1>1 DEF TablesInv
  <2> QED
    BY <1>1, <1>4, <2>1, <2>2, EndKeeps
<1>6. \A e \in Pairs : HasTopic(e) => HasTopic(e)'
  <2>1. \A e \in Pairs : rows[e] # None => rows[e].instance \in Instances
    BY DEF TablesInv, Row
  <2> QED
    BY <1>1, <2>1 DEF HasTopic
<1>7. SettledInv'
  <2>1. ASSUME NEW d \in settled' \ lazy PROVE Served(d)'
    <3>1. Served(d) /\ \A t \in tenants : <<d, t>> \in Pairs
      BY PairFacts DEF SettledInv, TablesInv
    <3> QED
      BY <1>1, <1>6, <3>1 DEF Served
  <2>2. \A d \in settled' \ lazy : Agrees(NoRequest, d)'
    BY <1>1, NoRequestIs DEF Agrees, About
  <2> QED
    BY <1>1, <2>1, <2>2, SettledKeeps
<1>8. TemplateInv'
  <2> SUFFICES ASSUME Calm'
               PROVE  /\ \A e \in Linked(template.id)' : Has(rows[e], e, template.configs)'
                      /\ \A s \in Requests : InHand(request[s])'
    BY DEF TemplateInv
  <2>1. ASSUME NEW e \in Linked(template.id)' PROVE Has(rows[e], e, template.configs)'
    <3>1. e \in Linked(template.id) /\ e \in Pairs /\ e # p /\ rows[e] \in Row
      BY <1>1 DEF Linked, TablesInv
    <3>2. Has(rows[e], e, template.configs)
      BY <3>1 DEF TemplateInv
    <3> QED
      BY <1>1, <3>1, <3>2 DEF Has, Row
  <2>2. ASSUME NEW s \in Requests PROVE InHand(request[s])'
    <3>1. CASE s = r
      <4>1. request'[r] = NoRequest
        BY <1>1 DEF RequestsInv
      <4> QED
        BY <3>1, <4>1, NoRequestIs DEF InHand
    <3>2. CASE s # r
      <4>1. InHand(request[s]) /\ Sound(request[s]) /\ request'[s] = request[s]
        BY <1>1, <3>2 DEF TemplateInv, RequestsInv
      <4>2. ASSUME request[s].op = "tenants", NEW e \in DOMAIN request[s].mine, request[s].mine[e].template = template.id
            PROVE  Has(request[s].mine[e], e, template.configs)'
        <5>1. Has(request[s].mine[e], e, template.configs) /\ request[s].mine[e] \in Row
          BY <4>1, <4>2 DEF InHand, Sound, TenantsTask
        <5> QED
          BY <1>1, <1>4, <3>2, <5>1 DEF Has, Row
      <4> QED
        BY <1>1, <4>1, <4>2 DEF InHand
    <3> QED
      BY <3>1, <3>2
  <2> QED
    BY <2>1, <2>2
<1> QED
  BY <1>2, <1>5, <1>7, <1>8

-----------------------------------------------------------------------------
(* A request starts                                                        *)

LEMMA StartKeeps ==
    ASSUME IInv, NEW r \in Requests, NEW n, Start(r, n), UNCHANGED <<tenants, template, lastId, rows, kafka>>,
           definitions' \in [Definitions -> DefinitionType \cup {None}],
           Sound(n), n.known = {}, n.inserted = {}, DOMAIN n.mine = {}, n.topic = None,
           n.op = "template" => n.found.id <= lastId,
           DefineAlone(n)', UndefineAlone(n)', TemplateAlone(n)',
           settled' \subseteq settled,
           \A d \in settled' \ lazy : definitions'[d] = definitions[d] /\ Agrees(n, d)',
           owed' = Unknown \/ (owed' = owed /\ n.op # "cleanup")
    PROVE  IInv'
<1> USE DEF IInv
<1>1. /\ UNCHANGED <<lazy, designator>> /\ DOMAIN request = Requests /\ DOMAIN request' = Requests
      /\ ~Running(r) /\ request'[r] = [n EXCEPT !.alone = \A s \in Requests : ~Running(s)]
      /\ \A s \in Requests \ {r} : request'[s] = [request[s] EXCEPT !.alone = @ /\ ~Running(s)]
  BY DEF Start, instanceVars, RequestsInv
<1> DEFINE m == request'[r]
<1>2. /\ DOMAIN n = DOMAIN NoRequest /\ DOMAIN m = DOMAIN NoRequest
      /\ m.op = n.op /\ m.at = n.at /\ m.name = n.name /\ m.configs = n.configs /\ m.found = n.found
      /\ m.defs = n.defs /\ m.toCreate = n.toCreate /\ m.inserted = {} /\ m.todo = n.todo
      /\ m.topic = None /\ m.snap = n.snap /\ m.mine = n.mine /\ m.known = {} /\ m.ok = n.ok
      /\ (m.alone <=> \A s \in Requests : ~Running(s))
  <2>1. DOMAIN n = DOMAIN NoRequest
    BY DEF Sound, Shape
  <2> QED
    BY <1>1, <2>1, FieldsIs
<1>3. ASSUME NEW s \in Requests, s # r
      PROVE  LET q == request[s]  u == request'[s] IN
             /\ DOMAIN u = DOMAIN q
             /\ u.op = q.op /\ u.at = q.at /\ u.name = q.name /\ u.configs = q.configs /\ u.found = q.found
             /\ u.defs = q.defs /\ u.toCreate = q.toCreate /\ u.inserted = q.inserted /\ u.todo = q.todo
             /\ u.topic = q.topic /\ u.snap = q.snap /\ u.mine = q.mine /\ u.known = q.known /\ u.ok = q.ok
             /\ u.alone = (q.alone /\ ~Running(s))
  <2>1. DOMAIN request[s] = DOMAIN NoRequest
    BY DEF RequestsInv, Sound, Shape
  <2>2. request'[s] = [request[s] EXCEPT !.alone = request[s].alone /\ ~Running(s)]
    BY <1>1, <1>3
  <2> QED
    BY <2>1, <2>2, FieldsIs
<1>4. Sound(request[r])' /\ Current(request[r])' /\ AloneWork(request[r])'
  <2>1. Sound(request[r])'
    <3>1. Sound(m)
      BY <1>2 DEF Sound, Shape, TenantsTask, DefinitionTask, TemplateTask, CleanupTask
    <3> QED
      BY <1>1, <3>1 DEF Sound, Shape, TenantsTask, DefinitionTask, TemplateTask, CleanupTask
  <2>2. Current(request[r])'
    BY <1>2 DEF Current
  <2>3. AloneWork(request[r])'
    BY <1>2 DEF AloneWork, DefineAlone, UndefineAlone, TemplateAlone, HasTopic, Linked
  <2> QED
    BY <2>1, <2>2, <2>3
<1>5. ASSUME NEW s \in Requests, s # r
      PROVE  Sound(request[s])' /\ Current(request[s])' /\ AloneWork(request[s])'
  <2>1. Sound(request[s]) /\ Current(request[s])
    BY DEF RequestsInv
  <2>2. Sound(request[s])'
    BY <1>1, <1>3, <1>5, <2>1 DEF Sound, Shape, TenantsTask, DefinitionTask, TemplateTask, CleanupTask
  <2>3. Current(request[s])'
    BY <1>1, <1>3, <1>5, <2>1 DEF Current
  <2>4. AloneWork(request[s])'
    <3>1. request'[s].alone => request'[s].op = "idle"
      BY <1>3, <1>5 DEF Running
    <3> QED
      BY <3>1 DEF AloneWork, DefineAlone, UndefineAlone, TemplateAlone
  <2> QED
    BY <2>2, <2>3, <2>4
<1>6. RequestsInv'
  <2>1. ASSUME NEW s \in Requests, NEW u \in Requests, s # u
        PROVE  Apart(request[s], request[u])'
    <3>1. Apart(request[s], request[u])
      BY <2>1 DEF RequestsInv
    <3> QED
      BY <1>2, <1>3, <2>1, <3>1 DEF Apart
  <2>2. ASSUME NEW s \in Requests, NEW u \in Requests, Running(s)', request'[s].alone, s # u
        PROVE  ~Running(u)'
    <3>1. CASE s = r
      <4>1. ~Running(u)
        BY <1>2, <2>2, <3>1
      <4> QED
        BY <1>3, <2>2, <3>1, <4>1 DEF Running
    <3>2. CASE s # r
      BY <1>3, <2>2, <3>2 DEF Running
    <3> QED
      BY <3>1, <3>2
  <2> QED
    BY <1>1, <1>4, <1>5, <2>1, <2>2 DEF RequestsInv, AloneInv
<1>7. TablesInv' /\ TenantsInv'
  BY <1>1 DEF TablesInv, TenantsInv
<1>8. SettledInv'
  <2>1. ASSUME NEW d \in settled' \ lazy
        PROVE  Served(d)' /\ \A s \in Requests : Agrees(request[s], d)'
    <3>1. d \in settled \ lazy /\ definitions'[d] = definitions[d] /\ Agrees(n, d)'
      BY <2>1
    <3>2. Served(d) /\ \A s \in Requests : Agrees(request[s], d)
      BY <3>1 DEF SettledInv
    <3>3. Served(d)'
      BY <3>1, <3>2 DEF Served, HasTopic
    <3>4. Agrees(request[r], d)'
      BY <1>2, <3>1 DEF Agrees, About
    <3>5. \A s \in Requests \ {r} : Agrees(request[s], d)'
      BY <1>3, <3>1, <3>2 DEF Agrees, About
    <3> QED
      BY <3>3, <3>4, <3>5
  <2> QED
    BY <1>1, <2>1 DEF SettledInv
<1>9. OwedInv'
  <2>1. owed \in Configs => template.id = 0 \/ owed # template.configs
    BY DEF OwedInv
  <2>2. ASSUME NEW s \in Requests, request'[s].op = "cleanup"
        PROVE  owed' = Unknown
    BY <1>2, <1>3, <2>2 DEF OwedInv
  <2> QED
    BY <2>1, <2>2, NoneFacts DEF OwedInv
<1>10. TemplateInv'
  <2> SUFFICES ASSUME Calm'
               PROVE  /\ \A p \in Linked(template.id)' : Has(rows[p], p, template.configs)'
                      /\ \A s \in Requests : InHand(request[s])'
    BY DEF TemplateInv
  <2>1. owed' = owed /\ owed = None /\ template.id # 0
    BY NoneFacts DEF Calm
  <2>2. ASSUME NEW s \in Requests
        PROVE  Early(request[s])
    <3>1. CASE s = r
      BY <1>1, <3>1 DEF Running, Early
    <3>2. CASE s # r
      <4>1. Early(request'[s])
        BY DEF Calm, Early
      <4> QED
        BY <1>3, <3>2, <4>1 DEF Early, Running
    <3> QED
      BY <3>1, <3>2
  <2>3. /\ \A p \in Linked(template.id) : Has(rows[p], p, template.configs)
        /\ \A s \in Requests : InHand(request[s])
    BY <2>1, <2>2 DEF TemplateInv, Calm
  <2>4. \A p \in Linked(template.id)' : Has(rows[p], p, template.configs)'
    BY <2>3 DEF Linked, Has
  <2>5. InHand(request[r])'
    BY <1>2 DEF InHand
  <2>6. \A s \in Requests \ {r} : InHand(request[s])'
    BY <1>3, <2>3 DEF InHand, Has
  <2> QED
    BY <2>4, <2>5, <2>6
<1> QED
  BY <1>6, <1>7, <1>8, <1>9, <1>10

\* What a request has that has just started, but for what it is about.
Blank(n) ==
    /\ DOMAIN n = DOMAIN NoRequest
    /\ n.inserted = {} /\ n.known = {} /\ n.topic = None /\ DOMAIN n.mine = {}

LEMMA SyncTenantsKeeps ==
    ASSUME IInv, NEW r \in Requests, NEW ts \in SUBSET Tenants, SyncTenants(r, ts)
    PROVE  IInv'
<1>1. PICK n : n = [NoRequest EXCEPT !.op = "tenants", !.at = "definitions", !.toCreate = SubstractTenants(ts)]
  OBVIOUS
<1>2. Start(r, n) /\ UNCHANGED <<tenants, template, lastId, rows, kafka, definitions, settled, owed>>
  BY <1>1 DEF SyncTenants, tables, history
<1>3. Blank(n) /\ n.op = "tenants" /\ n.at = "definitions" /\ n.toCreate \subseteq Tenants /\ n.todo = {} /\ DOMAIN n.defs = {}
  BY <1>1, FieldsIs DEF NoRequest, SubstractTenants, Blank
<1>4. Sound(n)
  BY <1>3, NoneFacts DEF Blank, Sound, Shape, Ops, StepsOf, TenantsTask, DefinitionTask, TemplateTask, CleanupTask
<1>5. DefineAlone(n)' /\ UndefineAlone(n)' /\ TemplateAlone(n)' /\ \A d : Agrees(n, d)'
  BY <1>3 DEF DefineAlone, UndefineAlone, TemplateAlone, Agrees, About
<1> QED
  BY <1>2, <1>3, <1>4, <1>5, StartKeeps DEF Blank, IInv, TablesInv

LEMMA GetOrCreateLazyTopicKeeps ==
    ASSUME IInv, NEW r \in Requests, NEW d \in Definitions, NEW t \in Tenants, GetOrCreateLazyTopic(r, d, t)
    PROVE  IInv'
<1>1. PICK n : n = [NoRequest EXCEPT !.op = "lazy", !.at = "lazy", !.name = d, !.todo = {<<d, t>>}]
  OBVIOUS
<1>2. Start(r, n) /\ UNCHANGED <<tenants, template, lastId, rows, kafka, definitions, settled, owed>> /\ d \in lazy
  BY <1>1 DEF GetOrCreateLazyTopic, tables, history
<1>3. Blank(n) /\ n.op = "lazy" /\ n.at = "lazy" /\ n.toCreate = {} /\ n.name = d /\ n.todo = {<<d, t>>}
  BY <1>1, FieldsIs DEF NoRequest, Blank
<1>4. Sound(n)
  BY <1>2, <1>3, NoneFacts, PairFacts
     DEF Blank, Sound, Shape, Ops, StepsOf, TenantsTask, DefinitionTask, TemplateTask, CleanupTask
<1>5. DefineAlone(n)' /\ UndefineAlone(n)' /\ TemplateAlone(n)' /\ \A e : Agrees(n, e)'
  BY <1>3 DEF DefineAlone, UndefineAlone, TemplateAlone, Agrees, About
<1> QED
  BY <1>2, <1>3, <1>4, <1>5, StartKeeps DEF Blank, IInv, TablesInv

LEMMA ApplyTopicDefinitionKeeps ==
    ASSUME IInv, NEW r \in Requests, NEW d \in Definitions, NEW def \in DefinitionType, ApplyTopicDefinition(r, d, def)
    PROVE  IInv'
<1>1. PICK n : n = [NoRequest EXCEPT !.op = "define", !.name = d, !.defs = [e \in {d} |-> def],
                                     !.at = IF definitions[d] = None THEN "insert" ELSE "update"]
  OBVIOUS
<1>2. /\ Start(r, n) /\ UNCHANGED <<tenants, template, lastId, rows, kafka, definitions, owed>>
      /\ settled' = settled \ {d}
  BY <1>1 DEF ApplyTopicDefinition, tables, Unsettle
<1>3. /\ Blank(n) /\ n.op = "define" /\ n.at \in {"insert", "update"} /\ n.toCreate = {} /\ n.name = d /\ n.todo = {}
      /\ DOMAIN n.defs = {d} /\ n.defs[d] = def
  BY <1>1, FieldsIs DEF NoRequest, Blank
<1>4. Sound(n)
  BY <1>3, NoneFacts DEF Blank, Sound, Shape, Ops, StepsOf, TenantsTask, DefinitionTask, TemplateTask, CleanupTask
<1>5. DefineAlone(n)' /\ UndefineAlone(n)' /\ TemplateAlone(n)' /\ \A e : e # d => Agrees(n, e)'
  BY <1>3 DEF DefineAlone, UndefineAlone, TemplateAlone, Agrees, About
<1> QED
  BY <1>2, <1>3, <1>4, <1>5, StartKeeps DEF Blank, IInv, TablesInv

LEMMA UndefineKeeps ==
    ASSUME IInv, NEW r \in Requests, NEW d \in Definitions, DeleteTenantTopic(r, d) \/ ForgetDefinition(r, d)
    PROVE  IInv'
<1>1. /\ definitions' = [definitions EXCEPT ![d] = None]
      /\ settled' = settled \ {d} /\ UNCHANGED <<tenants, template, lastId, rows, kafka, owed>>
  BY DEF DeleteTenantTopic, ForgetDefinition, DeleteDefinition, Unsettle
<1>2. /\ definitions' \in [Definitions -> DefinitionType \cup {None}] /\ definitions'[d] = None
      /\ \A e \in Definitions \ {d} : definitions'[e] = definitions[e]
  BY <1>1 DEF IInv, TablesInv
<1>3. ASSUME NEW n, Start(r, n), Blank(n), n.name = d, n.toCreate = {}, n.todo = {},
             (n.op = "undefine" /\ n.at = "tenants" /\ d \notin lazy) \/ (n.op = "forget" /\ n.at = "finish")
      PROVE  IInv'
  <2>1. Sound(n)
    BY <1>3, NoneFacts DEF Blank, Sound, Shape, Ops, StepsOf, TenantsTask, DefinitionTask, TemplateTask, CleanupTask
  <2>2. DefineAlone(n)' /\ UndefineAlone(n)' /\ TemplateAlone(n)' /\ \A e : e # d => Agrees(n, e)'
    BY <1>2, <1>3 DEF DefineAlone, UndefineAlone, TemplateAlone, Agrees, About
  <2>3. \A e \in settled' \ lazy : definitions'[e] = definitions[e] /\ Agrees(n, e)'
    BY <1>1, <1>2, <2>2 DEF IInv, TablesInv
  <2> QED
    BY <1>1, <1>2, <1>3, <2>1, <2>2, <2>3, StartKeeps DEF Blank
<1>4. CASE DeleteTenantTopic(r, d)
  <2>1. PICK n : n = [NoRequest EXCEPT !.op = "undefine", !.at = "tenants", !.name = d]
    OBVIOUS
  <2>2. Blank(n) /\ n.op = "undefine" /\ n.at = "tenants" /\ n.name = d /\ n.toCreate = {} /\ n.todo = {}
    BY <2>1, FieldsIs DEF NoRequest, Blank
  <2>3. Start(r, n) /\ d \notin lazy
    BY <1>4, <2>1 DEF DeleteTenantTopic
  <2> QED
    BY <1>3, <2>2, <2>3
<1>5. CASE ForgetDefinition(r, d)
  <2>1. PICK n : n = [NoRequest EXCEPT !.op = "forget", !.at = "finish", !.name = d]
    OBVIOUS
  <2>2. Blank(n) /\ n.op = "forget" /\ n.at = "finish" /\ n.name = d /\ n.toCreate = {} /\ n.todo = {}
    BY <2>1, FieldsIs DEF NoRequest, Blank
  <2>3. Start(r, n)
    BY <1>5, <2>1 DEF ForgetDefinition
  <2> QED
    BY <1>3, <2>2, <2>3
<1> QED
  BY <1>4, <1>5

LEMMA ApplyTopicTemplateKeeps ==
    ASSUME IInv, NEW r \in Requests, NEW c \in Configs, ApplyTopicTemplate(r, c)
    PROVE  IInv'
<1>1. PICK n : n = [NoRequest EXCEPT !.op = "template", !.configs = c, !.found = template,
                                     !.at = IF template.id = 0 THEN "create"
                                            ELSE IF template.configs = c THEN "same" ELSE "search"]
  OBVIOUS
<1>2. Start(r, n) /\ UNCHANGED <<tenants, template, lastId, rows, kafka, definitions, settled, owed>>
  BY <1>1 DEF ApplyTopicTemplate, tables, history
<1>3. /\ Blank(n) /\ n.op = "template" /\ n.toCreate = {} /\ n.todo = {} /\ n.configs = c /\ n.found = template
      /\ n.at = IF template.id = 0 THEN "create" ELSE IF template.configs = c THEN "same" ELSE "search"
  BY <1>1, FieldsIs DEF NoRequest, Blank
<1>4. /\ n.at \in {"create", "same", "search"} /\ (n.at # "create" => template.id # 0)
      /\ (n.at = "same" => template.configs = c) /\ (n.at = "search" => template.configs # c)
  BY <1>3
<1>5. template.id \in Nat /\ template.id <= lastId
  BY DEF IInv, TablesInv
<1>6. Sound(n)
  BY <1>3, <1>4, <1>5, NoneFacts
     DEF Blank, Sound, Shape, Ops, StepsOf, TenantsTask, DefinitionTask, TemplateTask, CleanupTask
<1>7. DefineAlone(n)' /\ UndefineAlone(n)' /\ TemplateAlone(n)' /\ \A d : Agrees(n, d)'
  BY <1>2, <1>3, <1>4 DEF DefineAlone, UndefineAlone, TemplateAlone, Agrees, About
<1> QED
  BY <1>2, <1>3, <1>5, <1>6, <1>7, StartKeeps DEF Blank, IInv, TablesInv

LEMMA DropTemplateKeeps ==
    ASSUME IInv, NEW r \in Requests, DropTemplate(r)
    PROVE  IInv'
<1>1. PICK n : n = [NoRequest EXCEPT !.op = "drop", !.at = "drop", !.found = template]
  OBVIOUS
<1>2. Start(r, n) /\ UNCHANGED <<tenants, template, lastId, rows, kafka, definitions, settled, owed>>
  BY <1>1 DEF DropTemplate, tables, history
<1>3. Blank(n) /\ n.op = "drop" /\ n.at = "drop" /\ n.toCreate = {} /\ n.todo = {}
  BY <1>1, FieldsIs DEF NoRequest, Blank
<1>4. Sound(n)
  BY <1>3, NoneFacts DEF Blank, Sound, Shape, Ops, StepsOf, TenantsTask, DefinitionTask, TemplateTask, CleanupTask
<1>5. DefineAlone(n)' /\ UndefineAlone(n)' /\ TemplateAlone(n)' /\ \A d : Agrees(n, d)'
  BY <1>3 DEF DefineAlone, UndefineAlone, TemplateAlone, Agrees, About
<1> QED
  BY <1>2, <1>3, <1>4, <1>5, StartKeeps DEF Blank, IInv, TablesInv

LEMMA CleanupNamespaceKeeps ==
    ASSUME IInv, NEW r \in Requests, CleanupNamespace(r)
    PROVE  IInv'
<1>1. PICK n : n = [NoRequest EXCEPT !.op = "cleanup", !.at = "clean", !.todo = Registered]
  OBVIOUS
<1>2. /\ Start(r, n) /\ UNCHANGED <<tenants, template, lastId, rows, kafka, definitions>>
      /\ settled' = {} /\ owed' = Unknown
  BY <1>1 DEF CleanupNamespace, tables
<1>3. Blank(n) /\ n.op = "cleanup" /\ n.at = "clean" /\ n.toCreate = {} /\ n.todo \subseteq Pairs
  BY <1>1, FieldsIs DEF NoRequest, Blank, Registered
<1>4. Sound(n)
  BY <1>3, NoneFacts DEF Blank, Sound, Shape, Ops, StepsOf, TenantsTask, DefinitionTask, TemplateTask, CleanupTask
<1>5. DefineAlone(n)' /\ UndefineAlone(n)' /\ TemplateAlone(n)'
  BY <1>3 DEF DefineAlone, UndefineAlone, TemplateAlone
<1> QED
  BY <1>2, <1>3, <1>4, <1>5, StartKeeps DEF Blank, IInv, TablesInv

-----------------------------------------------------------------------------
(* A request reads                                                         *)

\* What a request has at hand but for what its step writes.
Rests(n, q, fields) == DOMAIN n = DOMAIN NoRequest /\ \A f \in DOMAIN NoRequest \ fields : n[f] = q[f]

LEMMA ReadDefinitionsKeeps ==
    ASSUME IInv, NEW r \in Requests, ReadDefinitions(r)
    PROVE  IInv'
<1> DEFINE q == request[r]
<1>1. PICK n : n = [q EXCEPT !.defs = FindDefinitions(Definitions \ lazy), !.at = AfterTopics(q)]
  OBVIOUS
<1>2. /\ q.op = "tenants" /\ q.at = "definitions" /\ request' = [request EXCEPT ![r] = n]
      /\ UNCHANGED <<tables, lazy, kafka, settled, owed, designator>>
  BY <1>1 DEF ReadDefinitions, Goto, history, instanceVars
<1>3. Sound(q) /\ Current(q) /\ TablesInv
  BY DEF IInv, RequestsInv
<1>4. /\ Rests(n, q, {"defs", "at"}) /\ n.defs = FindDefinitions(Definitions \ lazy)
      /\ n.at = AfterTopics(q)
  BY <1>1, <1>3, FieldsIs DEF Sound, Shape, Rests
<1>5. /\ n.op = "tenants" /\ n.todo = q.todo /\ n.toCreate = q.toCreate /\ n.inserted = q.inserted /\ n.mine = q.mine
      /\ n.topic = q.topic /\ n.known = q.known /\ n.alone = q.alone
  BY <1>2, <1>4, FieldsIs DEF Rests
<1>6. /\ \A d : d \in DOMAIN n.defs <=> d \in Definitions \ lazy /\ definitions[d] # None
      /\ \A d \in DOMAIN n.defs : n.defs[d] \in DefinitionType
  BY <1>3, <1>4 DEF FindDefinitions, TablesInv
<1>7. n.at \in {"insert", "finish"} /\ n.todo = {} /\ n.inserted = {} /\ DOMAIN n.mine = {} /\ n.topic = None
  BY <1>2, <1>3, <1>4, <1>5 DEF AfterTopics, Sound, Shape, TenantsTask
<1>8. Sound(n)
  <2>1. Shape(n)
    BY <1>2, <1>3, <1>4, <1>5, <1>7 DEF Sound, Shape, Ops, StepsOf, Rests
  <2>2. TenantsTask(n)
    BY <1>5, <1>6, <1>7 DEF TenantsTask
  <2> QED
    BY <1>5, <2>1, <2>2 DEF Sound, DefinitionTask, TemplateTask, CleanupTask
<1>9. Current(n) /\ AloneWork(n) /\ InHand(n) /\ (Early(n) => Early(q))
  BY <1>2, <1>3, <1>5, <1>7 DEF Current, AloneWork, DefineAlone, UndefineAlone, TemplateAlone, InHand, Early
<1>10. \A d \in settled \ lazy : Agrees(n, d)
  BY <1>3, <1>5, <1>6 DEF TablesInv, Agrees, About
<1>11. \A s \in Requests \ {r} : Apart(n, request[s])
  BY <1>7 DEF Apart
<1> QED
  BY <1>2, <1>5, <1>8, <1>9, <1>10, <1>11, ReadKeeps DEF Running

LEMMA InsertTenantKeeps ==
    ASSUME IInv, NEW r \in Requests, NEW t \in Tenants, InsertTenant(r, t)
    PROVE  IInv'
<1> DEFINE q == request[r]
           pairs == (DOMAIN q.defs) \X {t}
           next == [q EXCEPT !.toCreate = @ \ {t}, !.inserted = @ \cup {t}, !.todo = pairs]
           at == IF pairs = {} THEN AfterTopics(next) ELSE "topics"
<1> HIDE DEF pairs
<1>1. Sound(q) /\ Current(q) /\ TablesInv
  BY DEF IInv, RequestsInv
<1>2. q.at = "insert" /\ t \in q.toCreate /\ ~Waits(r, t) /\ q.op = "tenants"
  BY <1>1 DEF InsertTenant, Sound, Shape
<1>3. CASE t \in tenants
  BY <1>2, <1>3, RollbackKeeps DEF InsertTenant, Running
<1>4. CASE t \notin tenants
  <2>1. Goto(r, [next EXCEPT !.at = at]) /\ UNCHANGED <<tables, kafka>>
    BY <1>4 DEF InsertTenant, pairs
  <2>2. /\ Rests(next, q, {"toCreate", "inserted", "todo"})
        /\ next.toCreate = q.toCreate \ {t} /\ next.inserted = q.inserted \cup {t} /\ next.todo = pairs
    BY <1>1, FieldsIs DEF Sound, Shape, Rests
  <2> HIDE DEF next
  <2>3. PICK n : n = [next EXCEPT !.at = at]
    OBVIOUS
  <2>4. /\ request' = [request EXCEPT ![r] = n]
        /\ UNCHANGED <<tables, lazy, kafka, settled, owed, designator>>
    BY <2>1, <2>3 DEF Goto, history, instanceVars
  <2>5. /\ Rests(n, q, {"toCreate", "inserted", "todo", "at"})
        /\ n.toCreate = q.toCreate \ {t} /\ n.inserted = q.inserted \cup {t} /\ n.todo = pairs /\ n.at = at
    BY <2>2, <2>3, FieldsIs DEF Rests
  <2>6. /\ n.op = "tenants" /\ n.defs = q.defs /\ n.mine = q.mine
        /\ n.topic = q.topic /\ n.known = q.known /\ n.alone = q.alone
    BY <1>2, <2>5, FieldsIs DEF Rests
  <2>7. n.at \in {"insert", "topics", "finish"} /\ (n.todo # {} => n.at = "topics")
    BY <2>5 DEF AfterTopics
  <2>8. q.todo = {} /\ q.topic = None
    BY <1>1, <1>2 DEF Sound, Shape
  <2>9. Shape(n)
    <3>1. n.todo \subseteq Pairs
      BY <1>1, <1>2, <2>5 DEF Sound, TenantsTask, Pairs, pairs
    <3> QED
      BY <1>1, <2>5, <2>6, <2>7, <2>8, <3>1 DEF Sound, Shape, Ops, StepsOf, Rests
  <2>10. TenantsTask(n)
    <3>1. \A p \in pairs : p[1] \in DOMAIN q.defs /\ p[2] = t
      BY DEF pairs
    <3>2. \A d \in DOMAIN q.defs : <<d, t>> \in pairs
      BY DEF pairs
    <3>3. ASSUME NEW d \in DOMAIN n.defs, NEW u \in n.inserted
          PROVE  <<d, u>> \in n.todo \cup DOMAIN n.mine
      <4>1. CASE u = t
        BY <2>5, <2>6, <3>2, <4>1
      <4>2. CASE u \in q.inserted
        BY <1>1, <1>2, <2>6, <2>8, <4>2 DEF Sound, TenantsTask
      <4> QED
        BY <2>5, <4>1, <4>2
    <3>4. \A p \in n.todo \cup DOMAIN n.mine : p \in Pairs /\ p[1] \in DOMAIN n.defs /\ p[2] \in n.inserted
      BY <1>1, <1>2, <2>5, <2>6, <2>9, <3>1 DEF Sound, Shape, TenantsTask
    <3> QED
      BY <1>1, <1>2, <2>6, <2>7, <3>3, <3>4 DEF Sound, TenantsTask
  <2>11. Sound(n)
    BY <2>6, <2>9, <2>10 DEF Sound, DefinitionTask, TemplateTask, CleanupTask
  <2>12. Current(n) /\ AloneWork(n) /\ (Calm => InHand(n)) /\ (Early(n) => Early(q))
    <3>1. Current(n)
      BY <1>1, <1>2, <1>4, <2>5, <2>6 DEF Current
    <3>2. AloneWork(n) /\ (Early(n) => Early(q))
      BY <1>2, <2>6 DEF AloneWork, DefineAlone, UndefineAlone, TemplateAlone, Early
    <3>3. Calm => InHand(q)
      BY DEF IInv, TemplateInv
    <3>4. Calm => InHand(n)
      BY <1>2, <2>6, <3>3 DEF InHand
    <3> QED
      BY <3>1, <3>2, <3>4
  <2>13. \A d \in settled \ lazy : Agrees(n, d)
    BY <1>2, <2>6, <2>7 DEF IInv, SettledInv, Agrees, About
  <2>14. \A s \in Requests \ {r} : Apart(n, request[s])
    BY <1>2, <2>5, <2>6 DEF Waits, IInv, RequestsInv, Apart
  <2> QED
    BY <1>2, <2>4, <2>6, <2>11, <2>12, <2>13, <2>14, ReadKeeps DEF Running
<1> QED
  BY <1>3, <1>4

LEMMA CompatibleLazyTopicKeeps ==
    ASSUME IInv, NEW r \in Requests, CompatibleLazyTopic(r)
    PROVE  IInv'
<1> DEFINE q == request[r]
<1>1. Sound(q) /\ Current(q) /\ TablesInv
  BY DEF IInv, RequestsInv
<1>2. q.at = "lazy" /\ q.op = "lazy" /\ q.name \in lazy
  BY <1>1 DEF CompatibleLazyTopic, Sound, Shape, StepsOf, Ops, DefinitionTask
<1>3. CASE definitions[q.name] = None
  BY <1>2, <1>3, RollbackKeeps DEF CompatibleLazyTopic, Running
<1>4. CASE definitions[q.name] # None
  <2>1. PICK n : n = [q EXCEPT !.defs = FindDefinitions({q.name}), !.at = "topics"]
    OBVIOUS
  <2>2. /\ request' = [request EXCEPT ![r] = n]
        /\ UNCHANGED <<tables, lazy, kafka, settled, owed, designator>>
    BY <1>4, <2>1 DEF CompatibleLazyTopic, Goto, history, instanceVars
  <2>3. Rests(n, q, {"defs", "at"}) /\ n.defs = FindDefinitions({q.name}) /\ n.at = "topics"
    BY <1>1, <2>1, FieldsIs DEF Sound, Shape, Rests
  <2>4. /\ n.op = "lazy" /\ n.name = q.name /\ n.todo = q.todo /\ n.toCreate = q.toCreate /\ n.inserted = q.inserted
        /\ n.mine = q.mine /\ n.topic = q.topic /\ n.known = q.known /\ n.alone = q.alone
    BY <1>2, <2>3, FieldsIs DEF Rests
  <2>5. DOMAIN n.defs = {n.name} /\ n.defs[n.name] \in DefinitionType
    BY <1>1, <1>2, <1>4, <2>3, <2>4 DEF FindDefinitions, TablesInv
  <2>6. q.topic = None
    BY <1>1, <1>2 DEF Sound, Shape
  <2>7. Sound(n)
    <3>1. Shape(n)
      BY <1>1, <1>2, <2>3, <2>4, <2>6 DEF Sound, Shape, Ops, StepsOf, Rests
    <3>2. DefinitionTask(n)
      BY <1>1, <1>2, <2>3, <2>4, <2>5 DEF Sound, DefinitionTask
    <3> QED
      BY <2>4, <3>1, <3>2 DEF Sound, TenantsTask, TemplateTask, CleanupTask
  <2>8. Current(n) /\ AloneWork(n) /\ InHand(n) /\ (Early(n) => Early(q))
    BY <1>1, <1>2, <2>4, <2>6 DEF Current, AloneWork, DefineAlone, UndefineAlone, TemplateAlone, InHand, Early
  <2>9. \A d \in settled \ lazy : Agrees(n, d)
    BY <2>4 DEF Agrees, About
  <2>10. \A s \in Requests \ {r} : Apart(n, request[s])
    BY <2>4 DEF IInv, RequestsInv, Apart
  <2> QED
    BY <1>2, <2>2, <2>4, <2>7, <2>8, <2>9, <2>10, ReadKeeps DEF Running
<1> QED
  BY <1>3, <1>4

LEMMA ReadTenantsKeeps ==
    ASSUME IInv, NEW r \in Requests, ReadTenants(r)
    PROVE  IInv'
<1> DEFINE q == request[r]
           pairs == {q.name} \X tenants
           at == IF tenants = {} THEN "finish" ELSE IF q.op = "define" THEN "topics" ELSE "delete"
<1> HIDE DEF pairs, at
<1>1. Sound(q) /\ Current(q) /\ AloneWork(q) /\ TablesInv
  BY DEF IInv, RequestsInv
<1>2. q.at = "tenants" /\ q.op \in {"define", "undefine"} /\ q.name \in Definitions \ lazy
  BY <1>1 DEF ReadTenants, Sound, Shape, StepsOf, Ops, DefinitionTask
<1>3. PICK n : n = [q EXCEPT !.todo = pairs, !.known = tenants, !.at = at]
  OBVIOUS
<1>4. /\ request' = [request EXCEPT ![r] = n]
      /\ UNCHANGED <<tables, lazy, kafka, settled, owed, designator>>
  BY <1>3 DEF ReadTenants, Goto, history, instanceVars, pairs, at
<1>5. Rests(n, q, {"todo", "known", "at"}) /\ n.todo = pairs /\ n.known = tenants /\ n.at = at
  BY <1>1, <1>3, FieldsIs DEF Sound, Shape, Rests
<1>6. /\ n.op = q.op /\ n.name = q.name /\ n.defs = q.defs /\ n.toCreate = q.toCreate /\ n.inserted = q.inserted
      /\ n.mine = q.mine /\ n.topic = q.topic /\ n.ok = q.ok /\ n.alone = q.alone
  BY <1>5, FieldsIs DEF Rests
<1>7. /\ pairs \subseteq Pairs /\ (\A p \in pairs : p[1] = q.name) /\ (\A t \in tenants : <<q.name, t>> \in pairs)
      /\ n.at \in {"finish", IF q.op = "define" THEN "topics" ELSE "delete"}
      /\ (n.at = "finish" => pairs = {} /\ tenants = {})
  BY <1>1, <1>2, <1>5 DEF pairs, at, Pairs, TablesInv
<1>8. q.topic = None
  BY <1>1, <1>2 DEF Sound, Shape
<1>9. Sound(n)
  <2>1. Shape(n)
    BY <1>1, <1>2, <1>5, <1>6, <1>7, <1>8 DEF Sound, Shape, Ops, StepsOf, Rests
  <2>2. DefinitionTask(n)
    BY <1>1, <1>2, <1>5, <1>6, <1>7 DEF Sound, DefinitionTask
  <2> QED
    BY <1>2, <1>6, <2>1, <2>2 DEF Sound, TenantsTask, TemplateTask, CleanupTask
<1>10. AloneWork(n)
  BY <1>1, <1>2, <1>5, <1>6, <1>7 DEF AloneWork, DefineAlone, UndefineAlone, TemplateAlone
<1>11. Current(n) /\ InHand(n) /\ (Early(n) => Early(q))
  BY <1>1, <1>2, <1>5, <1>6, <1>8 DEF Current, InHand, Early
<1>12. \A d \in settled \ lazy : Agrees(n, d)
  BY <1>2, <1>6 DEF IInv, SettledInv, Agrees, About
<1>13. \A s \in Requests \ {r} : Apart(n, request[s])
  BY <1>6 DEF IInv, RequestsInv, Apart
<1> QED
  BY <1>2, <1>4, <1>6, <1>9, <1>10, <1>11, <1>12, <1>13, ReadKeeps DEF Running

LEMMA SearchTopicsKeeps ==
    ASSUME IInv, NEW r \in Requests, SearchTopics(r)
    PROVE  IInv'
<1> DEFINE q == request[r]
           snap == [p \in Linked(q.found.id) |-> rows[p]]
<1> HIDE DEF snap
<1>1. Sound(q) /\ Current(q) /\ AloneWork(q) /\ TablesInv
  BY DEF IInv, RequestsInv
<1>2. q.at = "search" /\ q.op = "template"
  BY DEF SearchTopics
<1>3. PICK n : n = [q EXCEPT !.snap = snap, !.todo = Linked(q.found.id), !.known = tenants, !.at = "dirty"]
  OBVIOUS
<1>4. /\ request' = [request EXCEPT ![r] = n]
      /\ UNCHANGED <<tables, lazy, kafka, settled, owed, designator>>
  BY <1>3 DEF SearchTopics, Goto, history, instanceVars, snap
<1>5. /\ Rests(n, q, {"snap", "todo", "known", "at"})
      /\ n.snap = snap /\ n.todo = Linked(q.found.id) /\ n.known = tenants /\ n.at = "dirty"
  BY <1>1, <1>3, FieldsIs DEF Sound, Shape, Rests
<1>6. /\ n.op = "template" /\ n.configs = q.configs /\ n.found = q.found /\ n.toCreate = q.toCreate
      /\ n.inserted = q.inserted /\ n.mine = q.mine /\ n.topic = q.topic /\ n.alone = q.alone
  BY <1>2, <1>5, FieldsIs DEF Rests
<1>7. \A p \in n.todo : p \in Pairs /\ p \in DOMAIN n.snap /\ n.snap[p] = rows[p] /\ rows[p] \in Row
  BY <1>1, <1>5 DEF snap, Linked, TablesInv
<1>8. q.topic = None
  BY <1>1, <1>2 DEF Sound, Shape
<1>9. Sound(n)
  <2>1. Shape(n)
    BY <1>1, <1>2, <1>5, <1>6, <1>7, <1>8 DEF Sound, Shape, Ops, StepsOf, Rests
  <2>2. TemplateTask(n)
    BY <1>1, <1>2, <1>5, <1>6, <1>7 DEF Sound, TemplateTask
  <2> QED
    BY <1>6, <2>1, <2>2 DEF Sound, TenantsTask, DefinitionTask, CleanupTask
<1>10. AloneWork(n)
  BY <1>1, <1>2, <1>5, <1>6 DEF AloneWork, DefineAlone, UndefineAlone, TemplateAlone
<1>11. Current(n) /\ InHand(n) /\ (Early(n) => Early(q))
  BY <1>1, <1>2, <1>5, <1>6, <1>8 DEF Current, InHand, Early
<1>12. \A d \in settled \ lazy : Agrees(n, d)
  BY <1>6, <1>7, NoneFacts DEF Agrees, About
<1>13. \A s \in Requests \ {r} : Apart(n, request[s])
  BY <1>6 DEF IInv, RequestsInv, Apart
<1> QED
  BY <1>2, <1>4, <1>6, <1>9, <1>10, <1>11, <1>12, <1>13, ReadKeeps DEF Running

LEMMA ResolveKeeps ==
    ASSUME IInv, defaults \subseteq Instances, NEW r \in Requests, NEW p \in Pairs, Resolve(r, p)
    PROVE  IInv'
<1> DEFINE q == request[r]
<1>1. Sound(q) /\ Current(q) /\ AloneWork(q) /\ TablesInv
  BY DEF IInv, RequestsInv
<1>2. q.at = "topics" /\ q.topic = None /\ p \in q.todo /\ q.op \in {"tenants", "define", "lazy"}
  BY <1>1 DEF Resolve, Sound, Shape, StepsOf, Ops
<1>3. CASE Rollback(r)
  BY <1>2, <1>3, RollbackKeeps DEF Running
<1>4. ASSUME NEW i \in Candidates,
             Goto(r, [q EXCEPT !.topic = [pair |-> p, row |-> Resolved(q.defs[p[1]], i)]]),
             UNCHANGED <<tables, kafka>>
      PROVE  IInv'
  <2>1. q.defs[p[1]] \in DefinitionType
    BY <1>1, <1>2 DEF Sound, TenantsTask, DefinitionTask
  <2>2. PICK row : row = Resolved(q.defs[p[1]], i)
    OBVIOUS
  <2>3. row \in Row /\ (row.template # 0 => row.template = template.id /\ row.configs = template.configs)
    <3>1. i \in Instances
      BY <1>1 DEF Candidates, TablesInv
    <3> QED
      BY <1>1, <2>1, <2>2, <3>1 DEF Resolved, Row, DefinitionType, TablesInv
  <2>4. PICK n : n = [q EXCEPT !.topic = [pair |-> p, row |-> row]]
    OBVIOUS
  <2>5. /\ request' = [request EXCEPT ![r] = n]
        /\ UNCHANGED <<tables, lazy, kafka, settled, owed, designator>>
    BY <1>4, <2>2, <2>4 DEF Goto, history, instanceVars
  <2>6. Rests(n, q, {"topic"}) /\ n.topic = [pair |-> p, row |-> row]
    BY <1>1, <2>4, FieldsIs DEF Sound, Shape, Rests
  <2>7. /\ n.op = q.op /\ n.at = q.at /\ n.name = q.name /\ n.defs = q.defs /\ n.toCreate = q.toCreate
        /\ n.inserted = q.inserted /\ n.todo = q.todo /\ n.mine = q.mine /\ n.known = q.known
        /\ n.ok = q.ok /\ n.alone = q.alone
    BY <2>6, FieldsIs DEF Rests
  <2>8. Sound(n)
    <3>1. Shape(n)
      BY <1>1, <1>2, <2>3, <2>6, <2>7 DEF Sound, Shape, Ops, StepsOf, Rests
    <3>2. TenantsTask(n)
      BY <1>1, <2>7 DEF Sound, TenantsTask
    <3>3. DefinitionTask(n)
      BY <1>1, <2>7 DEF Sound, DefinitionTask
    <3> QED
      BY <1>2, <2>7, <3>1, <3>2, <3>3 DEF Sound, TemplateTask, CleanupTask
  <2>9. AloneWork(n)
    BY <1>1, <1>2, <2>7 DEF AloneWork, DefineAlone, UndefineAlone, TemplateAlone
  <2>10. Current(n) /\ (Early(n) => Early(q))
    BY <1>1, <1>2, <2>7 DEF Current, Early
  <2>11. Calm => InHand(n)
    <3>1. Calm => InHand(q)
      BY DEF IInv, TemplateInv
    <3> QED
      BY <2>3, <2>6, <2>7, <3>1 DEF InHand, Calm
  <2>12. \A d \in settled \ lazy : Agrees(n, d)
    BY <1>2, <2>7 DEF IInv, SettledInv, Agrees, About
  <2>13. \A s \in Requests \ {r} : Apart(n, request[s])
    BY <2>7 DEF IInv, RequestsInv, Apart
  <2> QED
    BY <1>2, <2>5, <2>7, <2>8, <2>9, <2>10, <2>11, <2>12, <2>13, ReadKeeps DEF Running
<1> QED
  BY <1>3, <1>4 DEF Resolve

-----------------------------------------------------------------------------
(* A request ends, and has nothing more to write                           *)

LEMMA EndQuietKeeps ==
    ASSUME IInv, NEW r \in Requests, Running(r), request' = [request EXCEPT ![r] = NoRequest],
           UNCHANGED <<tables, lazy, kafka, designator>>,
           settled' \subseteq Definitions,
           settled' \subseteq settled \/ request[r].alone,
           \A d \in settled' \ lazy : Served(d),
           owed' = Unknown \/ (owed' = owed /\ Early(request[r]))
    PROVE  IInv'
<1> USE DEF IInv
<1>1. UNCHANGED <<tenants, definitions, template, lastId, rows>> /\ lastId \in Nat
  BY DEF tables, TablesInv
<1>2. TablesInv' /\ TenantsInv'
  BY TablesKeep
<1>3. RequestsInv'
  <2>1. \A s \in Requests \ {r} : request[s].known \subseteq tenants /\ request[s].inserted \cap tenants = {}
    BY DEF RequestsInv, Current
  <2>2. lastId' \in Nat /\ lastId <= lastId'
    BY <1>1
  <2> QED
    BY <1>1, <2>1, <2>2, EndKeeps
<1>4. SettledInv'
  <2>1. \A d \in settled' \ lazy : Served(d)'
    BY <1>1, ServedStays
  <2>2. \A d \in settled' \ lazy : Agrees(NoRequest, d)'
    BY NoRequestIs DEF Agrees, About
  <2> QED
    BY <1>1, <2>1, <2>2, SettledKeeps
<1>5. CASE owed' = Unknown
  BY <1>1, <1>2, <1>3, <1>4, <1>5, NoneFacts DEF OwedInv, TemplateInv, Calm
<1>6. CASE owed' = owed /\ Early(request[r])
  <2>1. OwedInv'
    BY <1>1, <1>6, NoRequestIs, OwedKeeps
  <2>2. InHand(NoRequest)'
    BY NoRequestIs DEF InHand
  <2>3. Calm => \A p \in Linked(template.id)' : Has(rows[p], p, template.configs)'
    BY <1>1 DEF TemplateInv, Has, Linked
  <2>4. TemplateInv'
    BY <1>1, <1>6, <2>2, <2>3, TemplateKeeps
  <2> QED
    BY <1>2, <1>3, <1>4, <2>1, <2>4
<1> QED
  BY <1>5, <1>6

LEMMA AnswerKeeps ==
    ASSUME IInv, NEW r \in Requests, Answer(r)
    PROVE  IInv'
<1> DEFINE q == request[r]
<1>1. Sound(q) /\ AloneWork(q) /\ settled \subseteq Definitions
  BY DEF IInv, RequestsInv, TablesInv
<1>2. /\ q.op \in {"define", "undefine", "forget", "lazy"} /\ q.at = "finish" /\ Settles(q, TRUE)
      /\ request' = [request EXCEPT ![r] = NoRequest] /\ UNCHANGED <<tables, lazy, kafka, designator>>
  BY DEF Answer, Finish, Succeed, instanceVars
<1>3. /\ owed' = owed
      /\ \A d \in settled' \ settled : q.ok /\ q.alone /\ q.op \in {"define", "undefine"} /\ d = q.name
  BY <1>2, SettlesIs
<1>4. q.todo = {}
  BY <1>1, <1>2 DEF Sound, Shape
<1>5. ASSUME NEW d \in settled' \ lazy
      PROVE  Served(d) /\ d \in Definitions
  <2>1. CASE d \in settled
    BY <1>1, <1>5, <2>1 DEF IInv, SettledInv
  <2>2. CASE d \notin settled
    <3>1. q.ok /\ q.alone /\ d = q.name /\ d \in Definitions
      BY <1>1, <1>3, <1>5, <2>2 DEF Sound, DefinitionTask
    <3>2. CASE q.op = "define"
      BY <1>1, <1>2, <1>4, <1>5, <3>1, <3>2 DEF AloneWork, DefineAlone, Served
    <3>3. CASE q.op = "undefine"
      BY <1>1, <1>2, <1>4, <3>1, <3>3 DEF AloneWork, UndefineAlone, Served
    <3> QED
      BY <1>3, <1>5, <2>2, <3>1, <3>2, <3>3
  <2> QED
    BY <2>1, <2>2
<1>6. settled' \subseteq Definitions /\ (settled' \subseteq settled \/ q.alone)
  BY <1>1, <1>3 DEF Sound, DefinitionTask
<1> QED
  BY <1>2, <1>3, <1>5, <1>6, EndQuietKeeps DEF Early, Running

LEMMA SameTemplateKeeps ==
    ASSUME IInv, NEW r \in Requests, SameTemplate(r)
    PROVE  IInv'
<1> DEFINE q == request[r]
<1>1. Sound(q) /\ AloneWork(q) /\ settled \subseteq Definitions
  BY DEF IInv, RequestsInv, TablesInv
<1>2. /\ q.op = "template" /\ q.at = "same" /\ Settles(q, TRUE)
      /\ request' = [request EXCEPT ![r] = NoRequest] /\ UNCHANGED <<tables, lazy, kafka, designator>>
  BY DEF SameTemplate, Finish, Succeed, instanceVars
<1>3. /\ settled' \subseteq settled
      /\ ~q.alone => owed' = Unknown
      /\ q.alone => owed' = IF owed = q.configs THEN None ELSE owed
  BY <1>2, SettlesIs
<1>4. ASSUME q.alone
      PROVE  owed' = owed /\ Early(q)
  <2>1. template.id # 0 /\ template.configs = q.configs /\ q.configs \in Configs
    BY <1>1, <1>2, <1>4 DEF Sound, TemplateTask, AloneWork, TemplateAlone
  <2>2. owed # q.configs
    BY <2>1 DEF IInv, OwedInv
  <2> QED
    BY <1>2, <1>3, <1>4, <2>2 DEF Early
<1>5. \A d \in settled' \ lazy : Served(d)
  BY <1>3 DEF IInv, SettledInv
<1> QED
  BY <1>1, <1>2, <1>3, <1>4, <1>5, EndQuietKeeps DEF Running

\* An error, or a deadlock.
LEMMA FailKeeps ==
    ASSUME IInv, NEW r \in Requests, NEW s \in Requests, Fail(r) \/ RefuseTopic(r) \/ BreakDeadlock(r, s)
    PROVE  IInv'
<1>1. Rollback(r)
  BY DEF Fail, RefuseTopic, BreakDeadlock
<1>2. Running(r)
  <2>1. CASE RefuseTopic(r) \/ Fail(r)
    BY <2>1 DEF RefuseTopic, Fail, Running
  <2>2. CASE BreakDeadlock(r, s)
    <3>1. Shape(request[r])
      BY DEF IInv, RequestsInv, Sound
    <3> QED
      BY <2>2, <3>1 DEF BreakDeadlock, WaitsFor, Shape, StepsOf, Running
  <2> QED
    BY <2>1, <2>2
<1> QED
  BY <1>1, <1>2, RollbackKeeps

-----------------------------------------------------------------------------
(* A request makes a topic                                                 *)

\* The row of a topic that CreateTopic makes or updates, and what is there for
\* it then, if the row is committed or not.
LEMMA MadeIs ==
    ASSUME IInv, NEW r \in Requests, CreateTopic(r), ~Rollback(r),
           NEW p, p = request[r].topic.pair
    PROVE  \E new \in Row :
              /\ Keep(r, p, new) \/ (Doubt(p) /\ Abort(r))
              /\ new.template <= lastId
              /\ kafka' \in [Instances -> [Pairs -> Configs \cup {None}]]
              /\ \A i \in Instances, e \in Pairs : e # p => kafka'[i][e] = kafka[i][e]
              /\ kafka'[new.instance][p] # None
              /\ \A i \in Instances : kafka[i][p] # None => kafka'[i][p] # None
              /\ Calm /\ new.template = template.id => Has(new, p, template.configs)'
              /\ rows[p] = None => HasTenant(request[r], p) \/ p \in DOMAIN request[r].mine
<1> DEFINE q == request[r]
           row == q.topic.row
           old == Visible(r, p)
           made == IF old = None THEN row ELSE [old EXCEPT !.template = row.template, !.configs = row.configs]
<1>1. Sound(q) /\ Current(q) /\ TablesInv
  BY DEF IInv, RequestsInv
<1>2. /\ q.topic # None /\ p \in q.todo /\ p \in Pairs /\ row \in Row
      /\ q.op \in {"tenants", "define", "lazy"}
  <2>1. q.topic # None
    BY DEF CreateTopic
  <2> QED
    BY <1>1, <2>1 DEF Sound, Shape, StepsOf, Ops
<1>3. old = (IF p \in DOMAIN q.mine THEN q.mine[p] ELSE rows[p])
  BY DEF Visible
<1>4. /\ old # None => old.instance = row.instance /\ kafka[old.instance][p] # None
      /\ old # made => Referable(made) /\ (old = None => HasTenant(q, p))
      /\ Keep(r, p, made) \/ (Doubt(p) /\ Abort(r))
      /\ kafka' = IF old # made
                  THEN [kafka EXCEPT ![made.instance][p] = Applied(kafka[made.instance][p], made.configs)]
                  ELSE kafka
  BY DEF CreateTopic
<1>5. PICK new :
         /\ old = None => new = row
         /\ old # None => new = [old EXCEPT !.template = row.template, !.configs = row.configs]
         /\ old # None => old.instance = row.instance /\ kafka[old.instance][p] # None
         /\ old # new => Referable(new) /\ (old = None => HasTenant(q, p))
         /\ Keep(r, p, new) \/ (Doubt(p) /\ Abort(r))
         /\ kafka' = IF old # new
                     THEN [kafka EXCEPT ![new.instance][p] = Applied(kafka[new.instance][p], new.configs)]
                     ELSE kafka
  <2>1. /\ old = None => made = row
        /\ old # None => made = [old EXCEPT !.template = row.template, !.configs = row.configs]
    OBVIOUS
  <2> HIDE DEF old, made
  <2> QED
    BY <1>4, <2>1
<1> HIDE DEF old, made
<1>6. old # None => old \in Row /\ old.template <= lastId
  <2>2. CASE p \in DOMAIN q.mine
    <3>1. q.op = "tenants"
      BY <1>1, <1>2, <2>2 DEF Sound, Shape
    <3> QED
      BY <1>1, <1>3, <2>2, <3>1 DEF Sound, TenantsTask, Current
  <2>3. CASE p \notin DOMAIN q.mine
    BY <1>1, <1>2, <1>3, <2>3 DEF TablesInv
  <2> QED
    BY <2>2, <2>3
<1>7. /\ new \in Row /\ new.template = row.template /\ new.configs = row.configs /\ new.instance = row.instance
  <2>1. CASE old = None
    BY <1>2, <1>5, <2>1
  <2>2. CASE old # None
    BY <1>2, <1>5, <1>6, <2>2 DEF Row
  <2> QED
    BY <2>1, <2>2
<1>8. new.template <= lastId
  <2>1. CASE old # new
    BY <1>1, <1>5, <1>7, <2>1 DEF Referable, TablesInv, Row
  <2>2. CASE old = new
    BY <1>6, <1>7, <2>2, NoneFacts
  <2> QED
    BY <2>1, <2>2
<1>9. PICK applied : applied = Applied(kafka[new.instance][p], new.configs)
  OBVIOUS
<1>10. /\ applied \in Configs /\ applied # None /\ Meets(applied, new.configs)
       /\ new.instance \in Instances
  <2>1. new.instance \in Instances /\ new.configs \in Configs
    BY <1>7 DEF Row
  <2>2. kafka[new.instance][p] \in Configs \cup {None}
    BY <1>1, <1>2, <2>1 DEF TablesInv
  <2> QED
    BY <1>9, <2>1, <2>2, AppliedIs
<1>11. /\ kafka' \in [Instances -> [Pairs -> Configs \cup {None}]]
       /\ \A i \in Instances, e \in Pairs : e # p => kafka'[i][e] = kafka[i][e]
       /\ \A i \in Instances : kafka[i][p] # None => kafka'[i][p] # None
  BY <1>1, <1>2, <1>5, <1>9, <1>10 DEF TablesInv
<1>12. old # new => kafka'[new.instance][p] = applied
  BY <1>1, <1>2, <1>5, <1>9, <1>10 DEF TablesInv
<1>13. kafka'[new.instance][p] # None
  BY <1>5, <1>7, <1>12, <1>10, NoneFacts
<1>14. ASSUME Calm, new.template = template.id
       PROVE  Has(new, p, template.configs)'
  <2>1. template' = template
    BY <1>5 DEF Keep, Abort, tables
  <2>2. InHand(q) /\ template.id # 0 /\ \A e \in Linked(template.id) : Has(rows[e], e, template.configs)
    BY <1>14 DEF IInv, TemplateInv, Calm
  <2>3. row.configs = template.configs
    BY <1>2, <1>7, <1>14, <2>2 DEF InHand
  <2>4. CASE old # new
    BY <1>7, <1>12, <1>10, <2>1, <2>3, <2>4 DEF Has
  <2>5. CASE old = new
    <3>1. Has(old, p, template.configs)
      <4>1. CASE p \in DOMAIN q.mine
        <5>1. q.op = "tenants"
          BY <1>1, <1>2, <4>1 DEF Sound, Shape
        <5> QED
          BY <1>3, <1>14, <2>2, <2>5, <4>1, <5>1 DEF InHand
      <4>2. CASE p \notin DOMAIN q.mine
        BY <1>2, <1>3, <1>7, <1>14, <2>2, <2>5, <4>2, NoneFacts DEF Linked
      <4> QED
        BY <4>1, <4>2
    <3> QED
      BY <1>5, <2>1, <2>5, <3>1 DEF Has
  <2> QED
    BY <2>4, <2>5
<1>15. rows[p] = None => HasTenant(q, p) \/ p \in DOMAIN q.mine
  BY <1>3, <1>5, <1>7, NoneFacts
<1>16. new \in Row
  BY <1>7
<1> WITNESS new \in Row
<1> QED
  BY <1>5, <1>8, <1>11, <1>13, <1>14, <1>15

LEMMA CreateTopicKeeps ==
    ASSUME IInv, NEW r \in Requests, CreateTopic(r)
    PROVE  IInv'
<1> DEFINE q == request[r]
<1>1. Sound(q) /\ Current(q) /\ AloneWork(q) /\ TablesInv
  BY DEF IInv, RequestsInv
<1>2. q.topic # None /\ \A s \in Requests \ {r} : q.topic.pair \notin DOMAIN request[s].mine
  BY DEF CreateTopic, Free
<1>3. /\ q.topic.pair \in q.todo /\ q.topic.pair \in Pairs /\ q.topic.row \in Row
      /\ q.op \in {"tenants", "define", "lazy"} /\ q.at = "topics"
  BY <1>1, <1>2 DEF Sound, Shape, StepsOf, Ops
<1>4. PICK p : p = q.topic.pair
  OBVIOUS
<1>5. CASE Rollback(r)
  BY <1>3, <1>5, RollbackKeeps DEF Running
<1>6. CASE ~Rollback(r) /\ Doubt(p) /\ Abort(r)
  <2>1. /\ kafka' \in [Instances -> [Pairs -> Configs \cup {None}]]
        /\ \A i \in Instances, e \in Pairs : e # p => kafka'[i][e] = kafka[i][e]
        /\ \A i \in Instances : kafka[i][p] # None => kafka'[i][p] # None
    BY <1>4, <1>6, MadeIs
  <2>2. /\ settled' = settled /\ owed' = IF p \in Linked(template.id) THEN Unknown ELSE owed
        /\ template' = template /\ request' = [request EXCEPT ![r] = NoRequest]
    BY <1>6 DEF Doubt, Abort, tables
  <2>3. OwedInv'
    BY <2>2, NoRequestIs, NoneFacts DEF IInv, RequestsInv, OwedInv
  <2>4. Calm' => Calm /\ p \notin Linked(template.id)
    <3>1. \A s \in Requests : s # r => request'[s] = request[s]
      BY <2>2 DEF IInv, RequestsInv
    <3>2. Early(q)
      BY <1>3 DEF Early
    <3> QED
      BY <2>2, <3>1, <3>2, NoneFacts DEF Calm, Early
  <2> QED
    BY <1>2, <1>3, <1>4, <1>6, <2>1, <2>2, <2>3, <2>4, TornKeeps DEF Running
<1>7. CASE ~Rollback(r) /\ ~(Doubt(p) /\ Abort(r))
  <2>1. PICK new \in Row :
              /\ Keep(r, p, new) /\ new.template <= lastId
              /\ kafka' \in [Instances -> [Pairs -> Configs \cup {None}]]
              /\ \A i \in Instances, e \in Pairs : e # p => kafka'[i][e] = kafka[i][e]
              /\ kafka'[new.instance][p] # None
              /\ Calm /\ new.template = template.id => Has(new, p, template.configs)'
              /\ rows[p] = None => HasTenant(q, p) \/ p \in DOMAIN q.mine
    BY <1>4, <1>7, MadeIs
  <2> DEFINE left == q.todo \ {p}
             at == IF left = {} THEN AfterTopics(q) ELSE "topics"
             next == [q EXCEPT !.todo = left, !.topic = None, !.at = at]
             mine == Holds(q.mine, p, new)
  <2> HIDE DEF left, at
  <2>2. /\ UNCHANGED <<lazy, settled, owed, tenants, definitions, template, lastId, designator>>
        /\ q.op = "tenants" => rows' = rows /\ request' = [request EXCEPT ![r] = [next EXCEPT !.mine = mine]]
        /\ q.op # "tenants" => rows' = [rows EXCEPT ![p] = new] /\ request' = [request EXCEPT ![r] = next]
    <3>1. next.mine = q.mine
      BY <1>1, FieldsIs DEF Sound, Shape
    <3> HIDE DEF next
    <3>2. Keep(r, p, new) <=> IF q.op = "tenants"
                              THEN Goto(r, [next EXCEPT !.mine = Holds(next.mine, p, new)]) /\ UNCHANGED tables
                              ELSE Goto(r, next) /\ rows' = [rows EXCEPT ![p] = new]
                                   /\ UNCHANGED <<tenants, definitions, template, lastId>>
      BY DEF Keep, next, at, left
    <3> QED
      BY <2>1, <3>1, <3>2 DEF Goto, tables, history, instanceVars
  <2>3. /\ Rests(next, q, {"todo", "topic", "at"}) /\ next.todo = left /\ next.topic = None
        /\ next.at = at
    BY <1>1, FieldsIs DEF Sound, Shape, Rests
  <2> HIDE DEF next
  <2>4. PICK n : n = IF q.op = "tenants" THEN [next EXCEPT !.mine = mine] ELSE next
    OBVIOUS
  <2>5. /\ Rests(n, q, {"todo", "topic", "at", "mine"}) /\ n.todo = left /\ n.topic = None
        /\ n.at = at
        /\ n.mine = IF q.op = "tenants" THEN mine ELSE q.mine
    BY <2>3, <2>4, FieldsIs DEF Rests
  <2> USE DEF left
  <2>6. /\ n.op = q.op /\ n.name = q.name /\ n.defs = q.defs /\ n.toCreate = q.toCreate
        /\ n.inserted = q.inserted /\ n.known = q.known /\ n.ok = q.ok /\ n.alone = q.alone
    BY <2>5, FieldsIs DEF Rests
  <2>7. /\ DOMAIN mine = {p} \cup DOMAIN q.mine /\ mine[p] = new
        /\ \A e \in DOMAIN q.mine : e # p => mine[e] = q.mine[e]
    BY DEF Holds
  <2> HIDE DEF mine
  <2>8. /\ n.at \in {"topics", "insert", "finish"} /\ (n.todo # {} => n.at = "topics")
        /\ (n.op # "tenants" => n.at # "insert" /\ DOMAIN n.mine = {})
    BY <1>1, <1>3, <2>5, <2>6 DEF at, AfterTopics, Sound, Shape
  <2>9. Sound(n)
    <3>1. Shape(n)
      BY <1>1, <1>3, <2>5, <2>6, <2>8 DEF Sound, Shape, Ops, StepsOf, Rests
    <3>2. CASE q.op = "tenants"
      <4>1. p \in Pairs /\ p[1] \in DOMAIN q.defs /\ p[2] \in q.inserted
        BY <1>1, <1>3, <1>4, <3>2 DEF Sound, TenantsTask
      <4>2. TenantsTask(n)
        <5>1. n.todo \cup DOMAIN n.mine = q.todo \cup DOMAIN q.mine
          BY <1>3, <1>4, <2>5, <2>7, <3>2
        <5>2. \A e \in DOMAIN n.mine : n.mine[e] \in Row
          BY <1>1, <2>1, <2>5, <2>7, <3>2 DEF Sound, TenantsTask
        <5> QED
          BY <1>1, <1>3, <2>6, <2>8, <3>2, <5>1, <5>2 DEF Sound, TenantsTask
      <4> QED
        BY <2>6, <3>1, <3>2, <4>2 DEF Sound, DefinitionTask, TemplateTask, CleanupTask
    <3>3. CASE q.op # "tenants"
      <4>1. DefinitionTask(n)
        BY <1>1, <1>3, <2>5, <2>6, <2>8, <3>3 DEF Sound, DefinitionTask
      <4> QED
        BY <1>3, <2>6, <3>1, <3>3, <4>1 DEF Sound, TenantsTask, TemplateTask, CleanupTask
    <3> QED
      BY <3>2, <3>3
  <2>10. request' = [request EXCEPT ![r] = n]
    BY <2>2, <2>4
  <2>11. /\ \A e \in Pairs : e # p => rows'[e] = rows[e]
         /\ \A e \in Pairs, i \in Instances : e # p => kafka'[i][e] = kafka[i][e]
    BY <1>1, <2>1, <2>2 DEF TablesInv
  <2>12. /\ rows' \in [Pairs -> Row \cup {None}]
         /\ q.op # "tenants" => rows'[p] = new
         /\ q.op = "tenants" => rows' = rows /\ rows[p] = None /\ p[2] \notin tenants
    <3>1. q.op = "tenants" => p[1] \notin lazy /\ p[2] \notin tenants
      BY <1>1, <1>3, <1>4 DEF Sound, TenantsTask, Current
    <3>2. q.op = "tenants" => rows[p] = None
      BY <1>3, <1>4, <3>1 DEF IInv, TenantsInv
    <3> QED
      BY <1>1, <1>3, <1>4, <2>1, <2>2, <3>1, <3>2 DEF TablesInv
  <2>13. TablesInv'
    BY <1>1, <2>1, <2>2, <2>11, <2>12 DEF TablesInv
  <2>14. TenantsInv'
    <3>1. ASSUME NEW e \in Pairs, rows'[e] # None, e[1] \notin lazy
          PROVE  e[2] \in tenants
      <4>1. CASE rows[e] # None
        BY <3>1, <4>1 DEF IInv, TenantsInv
      <4>2. CASE rows[e] = None
        <5>1. e = p /\ q.op # "tenants"
          BY <1>1, <2>11, <2>12, <3>1, <4>2
        <5>2. p \notin DOMAIN q.mine /\ q.inserted = {}
          BY <1>1, <1>3, <5>1 DEF Sound, Shape
        <5> QED
          BY <1>1, <2>1, <3>1, <4>2, <5>1, <5>2 DEF HasTenant, Current
      <4> QED
        BY <4>1, <4>2
    <3> QED
      BY <2>2, <3>1 DEF TenantsInv
  <2>15. \A s \in Requests \ {r} : /\ p \notin DOMAIN request[s].mine
                                   /\ \A e \in DOMAIN request[s].mine : e \in Pairs
    BY <1>2, <1>4, HeldAreTopics DEF IInv
  <2>16. HasTopic(p)' \/ q.op = "tenants"
    BY <2>1, <2>12, NoneFacts DEF HasTopic
  <2>17. \A e \in Pairs : e # p /\ HasTopic(e) => HasTopic(e)'
    BY <1>1, <2>11, NoneFacts DEF HasTopic, TablesInv, Row
  <2>18. Current(n)'
    <3>1. ASSUME q.op = "tenants", NEW e \in DOMAIN n.mine
          PROVE  n.mine[e].template <= lastId /\ kafka'[n.mine[e].instance][e] # None
      <4>1. CASE e = p
        BY <2>1, <2>5, <2>7, <3>1, <4>1
      <4>2. CASE e # p
        <5>1. e \in DOMAIN q.mine /\ n.mine[e] = q.mine[e] /\ e \in Pairs /\ q.mine[e] \in Row
          BY <1>1, <2>5, <2>7, <3>1, <4>2 DEF Sound, TenantsTask
        <5> QED
          BY <1>1, <2>11, <3>1, <4>2, <5>1 DEF Current, Row
      <4> QED
        BY <4>1, <4>2
    <3> QED
      BY <1>1, <1>3, <2>2, <2>6, <3>1 DEF Current
  <2>19. AloneWork(n)'
    <3>1. ASSUME q.alone, q.op = "define", q.name \notin lazy
          PROVE  DefineAlone(n)'
      <4>1. /\ definitions[q.name] # None
            /\ \A t \in tenants : <<q.name, t>> \in q.todo \/ HasTopic(<<q.name, t>>)
        BY <1>1, <1>3, <3>1 DEF AloneWork, DefineAlone
      <4>2. ASSUME NEW t \in tenants
            PROVE  <<n.name, t>> \in n.todo \/ HasTopic(<<n.name, t>>)'
        <5>1. <<n.name, t>> \in Pairs
          BY <1>1, <2>6, <3>1, PairFacts DEF Sound, DefinitionTask, TablesInv
        <5>2. CASE <<n.name, t>> = p
          BY <2>16, <3>1, <5>2
        <5>3. CASE <<n.name, t>> # p
          BY <2>5, <2>6, <2>17, <4>1, <5>1, <5>3
        <5> QED
          BY <5>2, <5>3
      <4> QED
        BY <2>2, <2>6, <4>1, <4>2 DEF DefineAlone
    <3> QED
      BY <1>3, <2>2, <2>6, <3>1 DEF AloneWork, DefineAlone, UndefineAlone, TemplateAlone
  <2>20. \A s \in Requests \ {r} : Apart(n, request[s])
    BY <2>5, <2>6, <2>7, <2>15 DEF IInv, RequestsInv, Apart
  <2>21. RequestsInv'
    <3>1. \A s \in Requests \ {r} : request[s].known \subseteq tenants' /\ request[s].inserted \cap tenants' = {}
      BY <2>2 DEF IInv, RequestsInv, Current
    <3>2. \A s \in Requests \ {r} : \A e \in DOMAIN request[s].mine, i \in Instances : kafka'[i][e] = kafka[i][e]
      BY <2>11, <2>15
    <3>3. lastId' \in Nat /\ lastId <= lastId' /\ Running(r)
      BY <1>1, <1>3, <2>2 DEF TablesInv, Running
    <3> QED
      BY <1>1, <2>2, <2>6, <2>9, <2>10, <2>18, <2>19, <2>20, <3>1, <3>2, <3>3, StepKeeps DEF IInv
  <2>22. SettledInv'
    <3>1. ASSUME NEW d \in settled \ lazy
          PROVE  /\ Served(d)' /\ Agrees(n, d)'
                 /\ \A e \in Pairs : e[1] = d /\ rows[e] # None => rows'[e] # None
      <4>1. Served(d) /\ Agrees(q, d) /\ d \in Definitions
        BY <1>1 DEF IInv, SettledInv, TablesInv
      <4>2. Agrees(n, d)'
        BY <1>3, <2>2, <2>6, <4>1 DEF Agrees, About
      <4>3. ASSUME NEW t \in tenants
            PROVE  IF definitions[d] = None THEN rows'[<<d, t>>] = None ELSE HasTopic(<<d, t>>)'
        <5>1. <<d, t>> \in Pairs /\ <<d, t>>[1] = d /\ <<d, t>>[2] = t
          BY <1>1, <4>1, PairFacts DEF TablesInv
        <5>2. <<d, t>> # p
          <6>1. q.op = "define" => p[1] = q.name /\ q.name # d
            BY <1>1, <1>3, <1>4, <4>1 DEF Sound, DefinitionTask, Agrees, About
          <6>2. q.op = "lazy" => p[1] \in lazy
            BY <1>1, <1>3, <1>4 DEF Sound, DefinitionTask
          <6> QED
            BY <1>3, <2>12, <3>1, <5>1, <6>1, <6>2
        <5> QED
          BY <2>11, <2>17, <4>1, <5>1, <5>2 DEF Served
      <4>4. \A e \in Pairs : e[1] = d /\ rows[e] # None => rows'[e] # None
        BY <2>1, <2>11, <2>12, NoneFacts
      <4> QED
        BY <2>2, <4>2, <4>3, <4>4 DEF Served
    <3> QED
      BY <2>2, <2>10, <3>1, SettledKeeps DEF IInv
  <2>23. OwedInv'
    BY <1>3, <2>2, <2>6, <2>10, OwedKeeps DEF IInv
  <2>24. TemplateInv'
    <3>1. Calm => InHand(n)'
      <4> SUFFICES ASSUME Calm, q.op = "tenants", NEW e \in DOMAIN n.mine, n.mine[e].template = template.id
                   PROVE  Has(n.mine[e], e, template.configs)'
        BY <2>2, <2>5, <2>6 DEF InHand
      <4>1. CASE e = p
        BY <2>1, <2>5, <2>7, <4>1 DEF Has
      <4>2. CASE e # p
        <5>1. e \in DOMAIN q.mine /\ n.mine[e] = q.mine[e] /\ e \in Pairs /\ q.mine[e] \in Row
          BY <1>1, <2>5, <2>7, <4>2 DEF Sound, TenantsTask
        <5>2. Has(q.mine[e], e, template.configs)
          BY <5>1 DEF IInv, TemplateInv, InHand
        <5> QED
          BY <2>2, <2>11, <4>2, <5>1, <5>2 DEF Has, Row
      <4> QED
        BY <4>1, <4>2
    <3>2. ASSUME Calm, NEW e \in Linked(template.id)'
          PROVE  Has(rows[e], e, template.configs)'
      <4>1. e \in Pairs /\ rows'[e] # None /\ rows'[e].template = template.id
        BY <2>2 DEF Linked
      <4>2. CASE e = p /\ q.op # "tenants"
        BY <2>1, <2>2, <2>12, <3>2, <4>1, <4>2 DEF Has
      <4>3. CASE e # p \/ q.op = "tenants"
        <5>1. e # p
          BY <2>12, <4>1, <4>3
        <5>2. rows'[e] = rows[e] /\ e \in Linked(template.id) /\ rows[e] \in Row
          BY <1>1, <2>11, <4>1, <5>1 DEF Linked, TablesInv
        <5>3. Has(rows[e], e, template.configs)
          BY <3>2, <5>2 DEF IInv, TemplateInv
        <5> QED
          BY <2>2, <2>11, <4>1, <5>1, <5>2, <5>3 DEF Has, Row
      <4> QED
        BY <4>2, <4>3
    <3>3. \A s \in Requests \ {r}, i \in Instances : \A e \in DOMAIN request[s].mine : kafka'[i][e] = kafka[i][e]
      BY <2>11, <2>15
    <3>4. Early(n) => Early(q)
      BY <1>3, <2>6 DEF Early
    <3> QED
      BY <2>2, <2>10, <3>1, <3>2, <3>3, <3>4, TemplateKeeps DEF IInv
  <2> QED
    BY <2>13, <2>14, <2>21, <2>22, <2>23, <2>24 DEF IInv
<1> QED
  BY <1>5, <1>7, <1>6

-----------------------------------------------------------------------------
(* A definition is stored, and the topics of one that is deleted go         *)

LEMMA DefinedKeeps ==
    ASSUME IInv, NEW r \in Requests, InsertDefinition(r) \/ UpdateDefinition(r)
    PROVE  IInv'
<1> DEFINE q == request[r]
<1>1. Sound(q) /\ Current(q) /\ TablesInv
  BY DEF IInv, RequestsInv
<1>2. q.op = "define" /\ q.at \in {"insert", "update"} /\ (Defined(r) \/ Rollback(r)) /\ UNCHANGED faultsLeft
  BY DEF InsertDefinition, UpdateDefinition
<1>3. CASE Rollback(r)
  BY <1>2, <1>3, RollbackKeeps DEF Running
<1>4. CASE Defined(r)
  <2> DEFINE d == q.name
  <2>1. d \in Definitions /\ q.defs[d] \in DefinitionType
    BY <1>1, <1>2 DEF Sound, DefinitionTask
  <2>2. PICK n : n = [q EXCEPT !.at = IF d \in lazy THEN "finish" ELSE "tenants"]
    OBVIOUS
  <2>3. /\ request' = [request EXCEPT ![r] = n] /\ definitions' = [definitions EXCEPT ![d] = q.defs[d]]
        /\ UNCHANGED <<tenants, template, lastId, rows, kafka, lazy, settled, owed, designator>>
    BY <1>4, <2>2 DEF Defined, Goto, history, instanceVars
  <2>4. Rests(n, q, {"at"}) /\ n.at = IF d \in lazy THEN "finish" ELSE "tenants"
    BY <1>1, <2>2, FieldsIs DEF Sound, Shape, Rests
  <2>5. /\ n.op = "define" /\ n.name = d /\ n.defs = q.defs /\ n.toCreate = q.toCreate /\ n.inserted = q.inserted
        /\ n.todo = q.todo /\ n.topic = q.topic /\ n.mine = q.mine /\ n.known = q.known /\ n.alone = q.alone
    BY <1>2, <2>4, FieldsIs DEF Rests
  <2>6. q.todo = {} /\ q.topic = None
    BY <1>1, <1>2 DEF Sound, Shape
  <2>7. Sound(n)
    <3>1. Shape(n)
      BY <1>1, <1>2, <2>4, <2>5, <2>6 DEF Sound, Shape, Ops, StepsOf, Rests
    <3>2. DefinitionTask(n)
      BY <1>1, <1>2, <2>4, <2>5 DEF Sound, DefinitionTask
    <3> QED
      BY <2>5, <3>1, <3>2 DEF Sound, TenantsTask, TemplateTask, CleanupTask
  <2>8. /\ definitions' \in [Definitions -> DefinitionType \cup {None}] /\ definitions'[d] # None
        /\ \A e \in Definitions \ {d} : definitions'[e] = definitions[e]
    BY <1>1, <2>1, <2>3, NoneFacts DEF TablesInv
  <2>9. TablesInv' /\ TenantsInv'
    BY <1>1, <2>3, <2>8 DEF TablesInv, TenantsInv, IInv
  <2>10. Current(n)' /\ AloneWork(n)'
    BY <1>1, <1>2, <2>3, <2>4, <2>5, <2>8 DEF Current, AloneWork, DefineAlone, UndefineAlone, TemplateAlone
  <2>11. \A s \in Requests \ {r} : Apart(n, request[s])
    BY <2>5 DEF IInv, RequestsInv, Apart
  <2>12. RequestsInv'
    <3>1. \A s \in Requests \ {r} : request[s].known \subseteq tenants /\ request[s].inserted \cap tenants = {}
      BY DEF IInv, RequestsInv, Current
    <3>2. lastId' \in Nat /\ lastId <= lastId' /\ Running(r)
      BY <1>1, <1>2, <2>3 DEF TablesInv, Running
    <3> QED
      BY <1>1, <2>3, <2>5, <2>7, <2>10, <2>11, <3>1, <3>2, StepKeeps DEF IInv
  <2>13. SettledInv'
    <3>1. ASSUME NEW e \in settled \ lazy
          PROVE  definitions'[e] = definitions[e] /\ Served(e)' /\ Agrees(n, e)'
      <4>1. Served(e) /\ Agrees(q, e) /\ e \in Definitions
        BY <1>1 DEF IInv, SettledInv, TablesInv
      <4>2. e # d
        BY <1>2, <4>1 DEF Agrees, About
      <4>3. definitions'[e] = definitions[e]
        BY <2>8, <4>1, <4>2
      <4>4. Served(e)'
        BY <2>3, <4>1, <4>3 DEF Served, HasTopic
      <4>5. Agrees(n, e)'
        BY <2>5, <4>2 DEF Agrees, About
      <4> QED
        BY <4>3, <4>4, <4>5
    <3> QED
      BY <2>3, <3>1, SettledKeeps DEF IInv
  <2>14. OwedInv'
    BY <2>3, <2>5, OwedKeeps DEF IInv
  <2>15. TemplateInv'
    <3>1. InHand(n)'
      BY <2>5, <2>6 DEF InHand
    <3>2. Calm => \A p \in Linked(template.id)' : Has(rows[p], p, template.configs)'
      BY <2>3 DEF IInv, TemplateInv, Has, Linked
    <3> QED
      BY <1>2, <2>3, <2>5, <3>1, <3>2, TemplateKeeps DEF IInv, Early
  <2> QED
    BY <2>9, <2>12, <2>13, <2>14, <2>15 DEF IInv
<1> QED
  BY <1>2, <1>3, <1>4

LEMMA DeletePairKeeps ==
    ASSUME IInv, NEW r \in Requests, NEW p \in Pairs, DeletePair(r, p)
    PROVE  IInv'
<1> DEFINE q == request[r]
           left == q.todo \ {p}
           at == IF left = {} THEN "finish" ELSE "delete"
           next == [q EXCEPT !.todo = left, !.at = at]
<1>1. Sound(q) /\ Current(q) /\ AloneWork(q) /\ TablesInv
  BY DEF IInv, RequestsInv
<1>2. q.at = "delete" /\ p \in q.todo /\ \A s \in Requests \ {r} : p \notin DOMAIN request[s].mine
  BY DEF DeletePair, Free
<1>3. q.op = "undefine" /\ q.name \in Definitions \ lazy /\ p[1] = q.name /\ q.topic = None
  BY <1>1, <1>2 DEF Sound, Shape, StepsOf, Ops, DefinitionTask
<1>4. \/ /\ Goto(r, next)
         /\ rows' = [rows EXCEPT ![p] = None]
         /\ kafka' = IF rows[p] = None THEN kafka ELSE [kafka EXCEPT ![rows[p].instance][p] = None]
         /\ UNCHANGED <<tenants, definitions, template, lastId>>
      \/ Goto(r, [next EXCEPT !.ok = FALSE]) /\ UNCHANGED <<tables, kafka>>
      \/ /\ rows[p] # None /\ kafka' = [kafka EXCEPT ![rows[p].instance][p] = None]
         /\ request' = [request EXCEPT ![r] = [next EXCEPT !.ok = FALSE]]
         /\ Doubt(p) /\ UNCHANGED <<tables, lazy, requestsLeft, instanceVars>>
  BY DEF DeletePair
<1> HIDE DEF left, at
<1>5. Rests(next, q, {"todo", "at"}) /\ next.todo = left /\ next.at = at
  BY <1>1, FieldsIs DEF Sound, Shape, Rests
<1> HIDE DEF next
\* What holds of what is left to do in both cases.
<1>6. ASSUME NEW n, Rests(n, q, {"todo", "at", "ok"}), n.todo = left, n.at = at, n.ok = q.ok \/ ~n.ok
      PROVE  /\ n.op = "undefine" /\ n.name = q.name /\ n.mine = q.mine /\ n.inserted = q.inserted /\ n.alone = q.alone
             /\ n.topic = None /\ n.known = q.known
             /\ Sound(n) /\ Current(n) /\ InHand(n)
             /\ \A s \in Requests \ {r} : Apart(n, request[s])
             /\ \A d \in settled \ lazy : Agrees(n, d) /\ d # q.name
  <2>1. /\ n.op = "undefine" /\ n.name = q.name /\ n.mine = q.mine /\ n.inserted = q.inserted /\ n.alone = q.alone
        /\ n.topic = None /\ n.toCreate = q.toCreate /\ n.known = q.known
    BY <1>3, <1>6, FieldsIs DEF Rests
  <2>2. Sound(n)
    <3>1. Shape(n)
      BY <1>1, <1>2, <1>3, <1>6, <2>1 DEF Sound, Shape, Ops, StepsOf, Rests, left, at
    <3>2. DefinitionTask(n)
      BY <1>1, <1>3, <1>6, <2>1 DEF Sound, DefinitionTask, left
    <3> QED
      BY <2>1, <3>1, <3>2 DEF Sound, TenantsTask, TemplateTask, CleanupTask
  <2>3. Current(n) /\ InHand(n) /\ Early(n)
    BY <1>1, <1>3, <2>1 DEF Current, InHand, Early
  <2>4. \A s \in Requests \ {r} : Apart(n, request[s])
    BY <2>1 DEF IInv, RequestsInv, Apart
  <2>5. \A d \in settled \ lazy : Agrees(n, d) /\ d # q.name
    BY <1>3, <2>1 DEF IInv, SettledInv, Agrees, About
  <2> QED
    BY <2>1, <2>2, <2>3, <2>4, <2>5
<1>7. CASE Goto(r, [next EXCEPT !.ok = FALSE]) /\ UNCHANGED <<tables, kafka>>
  <2>1. PICK n : n = [next EXCEPT !.ok = FALSE]
    OBVIOUS
  <2>2. Rests(n, q, {"todo", "at", "ok"}) /\ n.todo = left /\ n.at = at /\ n.ok = FALSE
    BY <1>5, <2>1, FieldsIs DEF Rests
  <2>3. AloneWork(n)
    BY <1>1, <1>3, <1>6, <2>2 DEF AloneWork, DefineAlone, UndefineAlone, TemplateAlone
  <2>4. /\ request' = [request EXCEPT ![r] = n]
        /\ UNCHANGED <<tables, lazy, kafka, settled, owed, designator>>
    BY <1>7, <2>1 DEF Goto, history, instanceVars
  <2> QED
    BY <1>3, <1>6, <2>2, <2>3, <2>4, ReadKeeps DEF Running, Early
<1>8. CASE /\ Goto(r, next)
           /\ rows' = [rows EXCEPT ![p] = None]
           /\ kafka' = IF rows[p] = None THEN kafka ELSE [kafka EXCEPT ![rows[p].instance][p] = None]
           /\ UNCHANGED <<tenants, definitions, template, lastId>>
  <2>1. PICK n : n = next
    OBVIOUS
  <2>2. Rests(n, q, {"todo", "at", "ok"}) /\ n.todo = left /\ n.at = at /\ n.ok = q.ok
    BY <1>5, <2>1, FieldsIs DEF Rests
  <2>3. /\ request' = [request EXCEPT ![r] = n]
        /\ UNCHANGED <<tenants, definitions, template, lastId, lazy, settled, owed, designator>>
    BY <1>8, <2>1 DEF Goto, history, instanceVars
  <2>4. /\ rows' \in [Pairs -> Row \cup {None}] /\ rows'[p] = None
        /\ kafka' \in [Instances -> [Pairs -> Configs \cup {None}]]
        /\ \A e \in Pairs : e # p => rows'[e] = rows[e]
        /\ \A e \in Pairs, i \in Instances : e # p => kafka'[i][e] = kafka[i][e]
    <3>1. rows[p] # None => rows[p].instance \in Instances
      BY <1>1 DEF TablesInv, Row
    <3> QED
      BY <1>1, <1>8, <3>1 DEF TablesInv
  <2>5. TablesInv' /\ TenantsInv'
    <3>1. \A e \in Pairs : rows'[e] # None => rows'[e] = rows[e]
      BY <2>4
    <3> QED
      BY <1>1, <2>3, <2>4, <3>1 DEF TablesInv, TenantsInv, IInv
  <2>6. \A e \in Pairs : e # p /\ HasTopic(e) => HasTopic(e)'
    BY <1>1, <2>4 DEF HasTopic, TablesInv, Row
  <2>7. Current(n)'
    BY <1>6, <2>2, <2>3 DEF Current
  <2>8. AloneWork(n)'
    <3>1. ASSUME q.alone, q.ok, NEW t \in tenants, n.at \in {"delete", "finish"}
          PROVE  <<n.name, t>> \in n.todo \/ rows'[<<n.name, t>>] = None
      <4>1. <<q.name, t>> \in q.todo \/ rows[<<q.name, t>>] = None
        BY <1>1, <1>2, <1>3, <3>1 DEF AloneWork, UndefineAlone
      <4>2. <<q.name, t>> \in Pairs
        BY <1>1, <1>3, PairFacts DEF TablesInv
      <4> QED
        BY <1>6, <2>2, <2>4, <4>1, <4>2 DEF left
    <3>2. q.alone => definitions[q.name] = None
      BY <1>1, <1>3 DEF AloneWork, UndefineAlone
    <3> QED
      BY <1>6, <2>2, <2>3, <3>1, <3>2 DEF AloneWork, DefineAlone, UndefineAlone, TemplateAlone
  <2>9. \A s \in Requests \ {r} : \A e \in DOMAIN request[s].mine : e \in Pairs /\ e # p
    BY <1>2, HeldAreTopics DEF IInv
  <2>10. RequestsInv'
    <3>1. \A s \in Requests \ {r} : request[s].known \subseteq tenants /\ request[s].inserted \cap tenants = {}
      BY DEF IInv, RequestsInv, Current
    <3>2. \A s \in Requests \ {r} : \A e \in DOMAIN request[s].mine, i \in Instances : kafka'[i][e] = kafka[i][e]
      BY <2>4, <2>9
    <3>3. lastId' \in Nat /\ lastId <= lastId' /\ Running(r)
      BY <1>1, <1>3, <2>3 DEF TablesInv, Running
    <3> QED
      BY <1>1, <1>6, <2>2, <2>3, <2>7, <2>8, <3>1, <3>2, <3>3, StepKeeps DEF IInv
  <2>11. SettledInv'
    <3>1. ASSUME NEW d \in settled \ lazy
          PROVE  /\ Served(d)' /\ Agrees(n, d)'
                 /\ \A e \in Pairs : e[1] = d /\ rows[e] # None => rows'[e] # None
      <4>1. Served(d) /\ d # q.name /\ d \in Definitions /\ Agrees(n, d)
        BY <1>1, <1>6, <2>2 DEF IInv, SettledInv, TablesInv
      <4>2. Agrees(n, d)'
        BY <1>6, <2>2, <4>1 DEF Agrees, About
      <4>3. ASSUME NEW t \in tenants
            PROVE  IF definitions[d] = None THEN rows'[<<d, t>>] = None ELSE HasTopic(<<d, t>>)'
        <5>1. <<d, t>> \in Pairs /\ <<d, t>> # p
          BY <1>1, <1>3, <4>1, PairFacts DEF TablesInv
        <5> QED
          BY <2>4, <2>6, <4>1, <5>1 DEF Served
      <4> QED
        BY <1>3, <2>3, <2>4, <4>1, <4>2, <4>3 DEF Served
    <3> QED
      BY <2>3, <3>1, SettledKeeps DEF IInv
  <2>12. OwedInv'
    BY <1>6, <2>2, <2>3, OwedKeeps DEF IInv
  <2>13. TemplateInv'
    <3>1. InHand(n)'
      BY <1>6, <2>2 DEF InHand
    <3>2. ASSUME Calm, NEW e \in Linked(template.id)'
          PROVE  Has(rows[e], e, template.configs)'
      <4>1. e \in Pairs /\ e # p /\ rows'[e] = rows[e] /\ e \in Linked(template.id) /\ rows[e] \in Row
        BY <1>1, <2>3, <2>4 DEF Linked, TablesInv
      <4>2. Has(rows[e], e, template.configs)
        BY <3>2, <4>1 DEF IInv, TemplateInv
      <4> QED
        BY <2>3, <2>4, <4>1, <4>2 DEF Has, Row
    <3>3. \A s \in Requests \ {r}, i \in Instances : \A e \in DOMAIN request[s].mine : kafka'[i][e] = kafka[i][e]
      BY <2>4, <2>9
    <3>4. Early(q)
      BY <1>3 DEF Early
    <3> QED
      BY <2>3, <3>1, <3>2, <3>3, <3>4, TemplateKeeps DEF IInv
  <2> QED
    BY <2>5, <2>10, <2>11, <2>12, <2>13 DEF IInv
<1>9. CASE /\ rows[p] # None /\ kafka' = [kafka EXCEPT ![rows[p].instance][p] = None]
           /\ request' = [request EXCEPT ![r] = [next EXCEPT !.ok = FALSE]]
           /\ Doubt(p) /\ UNCHANGED <<tables, lazy, requestsLeft, instanceVars>>
  <2>1. PICK n : n = [next EXCEPT !.ok = FALSE]
    OBVIOUS
  <2>2. Rests(n, q, {"todo", "at", "ok"}) /\ n.todo = left /\ n.at = at /\ n.ok = FALSE
    BY <1>5, <2>1, FieldsIs DEF Rests
  <2>3. /\ request' = [request EXCEPT ![r] = n] /\ settled' = settled
        /\ owed' = IF p \in Linked(template.id) THEN Unknown ELSE owed
        /\ UNCHANGED <<tenants, definitions, template, lastId, rows, lazy, designator>>
    BY <1>9, <2>1 DEF Doubt, tables, instanceVars
  <2>4. /\ kafka' \in [Instances -> [Pairs -> Configs \cup {None}]]
        /\ \A e \in Pairs, i \in Instances : e # p => kafka'[i][e] = kafka[i][e]
    <3>1. rows[p].instance \in Instances
      BY <1>1, <1>9 DEF TablesInv, Row
    <3> QED
      BY <1>1, <1>9, <3>1 DEF TablesInv
  <2>5. TablesInv' /\ TenantsInv'
    BY <1>1, <2>3, <2>4 DEF TablesInv, TenantsInv, IInv
  <2>6. \A e \in Pairs : e # p /\ HasTopic(e) => HasTopic(e)'
    BY <1>1, <2>3, <2>4 DEF HasTopic, TablesInv, Row
  <2>7. Current(n)' /\ AloneWork(n)'
    BY <1>1, <1>3, <1>6, <2>2, <2>3 DEF Current, AloneWork, DefineAlone, UndefineAlone, TemplateAlone
  <2>8. \A s \in Requests \ {r} : \A e \in DOMAIN request[s].mine : e \in Pairs /\ e # p
    BY <1>2, HeldAreTopics DEF IInv
  <2>9. \A s \in Requests \ {r} : \A e \in DOMAIN request[s].mine, i \in Instances : kafka'[i][e] = kafka[i][e]
    BY <2>4, <2>8
  <2>10. RequestsInv'
    <3>1. \A s \in Requests \ {r} : request[s].known \subseteq tenants /\ request[s].inserted \cap tenants = {}
      BY DEF IInv, RequestsInv, Current
    <3>2. lastId' \in Nat /\ lastId <= lastId' /\ Running(r)
      BY <1>1, <1>3, <2>3 DEF TablesInv, Running
    <3> QED
      BY <1>1, <1>6, <2>2, <2>3, <2>7, <2>9, <3>1, <3>2, StepKeeps DEF IInv
  <2>11. SettledInv'
    <3>1. ASSUME NEW d \in settled \ lazy
          PROVE  Served(d)' /\ Agrees(n, d)'
      <4>1. Served(d) /\ d # q.name /\ d \in Definitions /\ Agrees(n, d)
        BY <1>1, <1>6, <2>2 DEF IInv, SettledInv, TablesInv
      <4>2. Agrees(n, d)'
        BY <1>6, <2>2, <4>1 DEF Agrees, About
      <4>3. \A t \in tenants : <<d, t>> \in Pairs /\ <<d, t>> # p
        BY <1>1, <1>3, <4>1, PairFacts DEF TablesInv
      <4> QED
        BY <2>3, <2>6, <4>1, <4>2, <4>3 DEF Served
    <3> QED
      BY <2>3, <3>1, SettledKeeps DEF IInv
  <2>12. OwedInv'
    <3>1. n.op # "cleanup" /\ \A s \in Requests : s # r => request'[s] = request[s]
      BY <1>6, <2>2, <2>3 DEF IInv, RequestsInv
    <3>2. request'[r] = n
      BY <2>3 DEF IInv, RequestsInv
    <3> QED
      BY <2>3, <3>1, <3>2, NoneFacts DEF IInv, OwedInv
  <2>13. TemplateInv'
    <3>1. CASE p \in Linked(template.id)
      BY <2>3, <3>1, NoneFacts DEF TemplateInv, Calm
    <3>2. CASE p \notin Linked(template.id)
      <4>1. InHand(n)'
        BY <1>6, <2>2 DEF InHand
      <4>2. ASSUME Calm, NEW e \in Linked(template.id)'
            PROVE  Has(rows[e], e, template.configs)'
        <5>1. e \in Pairs /\ e # p /\ e \in Linked(template.id) /\ rows[e] \in Row
          BY <1>1, <2>3, <3>2, <4>2 DEF Linked, TablesInv
        <5>2. Has(rows[e], e, template.configs)
          BY <4>2, <5>1 DEF IInv, TemplateInv
        <5> QED
          BY <2>3, <2>4, <5>1, <5>2 DEF Has, Row
      <4>3. Early(q)
        BY <1>3 DEF Early
      <4> QED
        BY <2>3, <2>9, <3>2, <4>1, <4>2, <4>3, TemplateKeeps DEF IInv
    <3> QED
      BY <3>1, <3>2
  <2> QED
    BY <2>5, <2>10, <2>11, <2>12, <2>13 DEF IInv
<1> QED
  BY <1>4, <1>7, <1>8, <1>9

-----------------------------------------------------------------------------
(* A request saves or deletes the template                                 *)

\* What holds whatever the template is then.
LEMMA TemplateSaved ==
    ASSUME IInv, NEW r \in Requests, Running(r), request' = [request EXCEPT ![r] = NoRequest],
           UNCHANGED <<tenants, definitions, rows, kafka, lazy, designator>>, settled' \subseteq settled,
           template'.id \in Nat, lastId' \in Nat, lastId <= lastId', template'.id <= lastId',
           template'.id # 0 => template'.configs \in Configs
    PROVE  TablesInv' /\ TenantsInv' /\ RequestsInv' /\ SettledInv'
<1> USE DEF IInv
<1>1. TablesInv' /\ TenantsInv'
  <2>1. \A p \in Pairs : rows[p] # None => rows[p].template <= lastId'
    <3>1. \A p \in Pairs : rows[p] # None => rows[p].template \in Nat
      BY DEF TablesInv, Row
    <3> QED
      BY <3>1 DEF TablesInv
  <2> QED
    BY <2>1 DEF TablesInv, TenantsInv
<1>2. RequestsInv'
  <2>1. \A s \in Requests \ {r} : request[s].known \subseteq tenants /\ request[s].inserted \cap tenants = {}
    BY DEF RequestsInv, Current
  <2> QED
    BY <2>1, EndKeeps
<1>3. SettledInv'
  <2>1. \A d \in settled' \ lazy : Served(d)'
    BY ServedStays DEF SettledInv
  <2>2. \A d \in settled' \ lazy : Agrees(NoRequest, d)'
    BY NoRequestIs DEF Agrees, About
  <2> QED
    BY <2>1, <2>2, SettledKeeps
<1> QED
  BY <1>1, <1>2, <1>3

\* The end of a request that has saved the template.
LEMMA ChangeEnds ==
    ASSUME IInv, NEW r \in Requests, request[r].op = "template",
           request' = [request EXCEPT ![r] = NoRequest],
           owed' = IF request[r].alone THEN None ELSE Unknown,
           request[r].alone => \A p \in Linked(template.id)' : Has(rows[p], p, template.configs)'
    PROVE  OwedInv' /\ TemplateInv'
<1>1. CASE ~request[r].alone
  BY <1>1, NoneFacts DEF OwedInv, TemplateInv, Calm
<1>2. CASE request[r].alone
  <2>1. \A s \in Requests : request'[s].op = "idle" /\ request'[s].topic = None
    <3>1. ASSUME NEW s \in Requests, s # r
          PROVE  request'[s].op = "idle" /\ request'[s].topic = None
      <4>1. request'[s] = request[s] /\ request[s].op = "idle" /\ Shape(request[s])
        BY <1>2, <3>1 DEF IInv, RequestsInv, AloneInv, Running, Sound
      <4> QED
        BY <4>1, IdleIs
    <3> QED
      BY <3>1, NoRequestIs DEF IInv, RequestsInv
  <2>2. OwedInv'
    BY <1>2, <2>1, NoneFacts DEF OwedInv
  <2>3. TemplateInv'
    BY <1>2, <2>1 DEF TemplateInv, InHand
  <2> QED
    BY <2>2, <2>3
<1> QED
  BY <1>1, <1>2

LEMMA InsertTemplateKeeps ==
    ASSUME IInv, NEW r \in Requests, InsertTemplate(r)
    PROVE  IInv'
<1> DEFINE q == request[r]
<1>1. Sound(q) /\ TablesInv
  BY DEF IInv, RequestsInv
<1>2. q.op = "template" /\ q.at = "create" /\ q.configs \in Configs
  BY <1>1 DEF InsertTemplate, Sound, TemplateTask
<1>3. CASE template.id # 0
  BY <1>2, <1>3, RollbackKeeps DEF InsertTemplate, Running
<1>4. CASE template.id = 0
  <2>1. PICK n : n = [q EXCEPT !.at = "template"]
    OBVIOUS
  <2>2. /\ lastId' = lastId + 1 /\ template' = [id |-> lastId + 1, configs |-> q.configs]
        /\ Settles(n, TRUE) /\ request' = [request EXCEPT ![r] = NoRequest]
        /\ UNCHANGED <<tenants, definitions, rows, kafka, lazy, designator>>
    BY <1>4, <2>1 DEF InsertTemplate, Succeed, instanceVars
  <2>3. n.op = "template" /\ n.at = "template" /\ n.alone = q.alone
    BY <1>1, <1>2, <2>1, FieldsIs DEF Sound, Shape
  <2>4. settled' \subseteq settled /\ owed' = IF q.alone THEN None ELSE Unknown
    BY <2>2, <2>3, SettlesIs
  <2>5. /\ template'.id \in Nat /\ lastId' \in Nat /\ lastId <= lastId' /\ template'.id <= lastId'
        /\ template'.configs \in Configs
    BY <1>1, <1>2, <2>2 DEF TablesInv
  <2>6. Linked(template.id)' = {}
    <3>1. \A p \in Pairs : rows[p] # None => rows[p].template # lastId + 1
      <4>1. \A p \in Pairs : rows[p] # None => rows[p].template \in Nat /\ rows[p].template <= lastId
        BY <1>1 DEF TablesInv, Row
      <4> QED
        BY <1>1, <4>1 DEF TablesInv
    <3> QED
      BY <2>2, <3>1 DEF Linked
  <2>7. OwedInv' /\ TemplateInv'
    BY <1>2, <2>2, <2>4, <2>6, ChangeEnds
  <2> QED
    BY <1>2, <2>2, <2>4, <2>5, <2>7, TemplateSaved DEF IInv, Running
<1> QED
  BY <1>3, <1>4

LEMMA UpdateTemplateKeeps ==
    ASSUME IInv, NEW r \in Requests, UpdateTemplate(r)
    PROVE  IInv'
<1> DEFINE q == request[r]
<1>1. Sound(q) /\ Current(q) /\ AloneWork(q) /\ TablesInv
  BY DEF IInv, RequestsInv
<1>2. /\ q.op = "template" /\ q.at = "template" /\ q.configs \in Configs
      /\ q.found.id \in Nat /\ q.found.id <= lastId /\ q.todo = {}
  BY <1>1 DEF UpdateTemplate, Sound, Shape, TemplateTask, Current
<1>3. CASE template.id \notin {0, q.found.id}
  BY <1>2, <1>3, RollbackKeeps DEF UpdateTemplate, Running
<1>4. CASE template.id \in {0, q.found.id}
  <2>1. /\ template' = [id |-> q.found.id, configs |-> q.configs]
        /\ Settles(q, TRUE) /\ request' = [request EXCEPT ![r] = NoRequest]
        /\ UNCHANGED <<tenants, definitions, rows, kafka, lazy, designator, lastId>>
    BY <1>4 DEF UpdateTemplate, Finish, Succeed, instanceVars
  <2>2. settled' \subseteq settled /\ owed' = IF q.alone THEN None ELSE Unknown
    BY <1>2, <2>1, SettlesIs
  <2>3. /\ template'.id \in Nat /\ lastId' \in Nat /\ lastId <= lastId' /\ template'.id <= lastId'
        /\ template'.configs \in Configs
    BY <1>1, <1>2, <2>1 DEF TablesInv
  <2>4. q.alone => \A p \in Linked(template.id)' : Has(rows[p], p, template.configs)'
    <3>1. q.alone => template.id = q.found.id /\ \A p \in Linked(template.id) : Has(rows[p], p, q.configs)
      BY <1>1, <1>2 DEF AloneWork, TemplateAlone
    <3> QED
      BY <2>1, <3>1 DEF Linked, Has
  <2>5. OwedInv' /\ TemplateInv'
    BY <1>2, <2>1, <2>2, <2>4, ChangeEnds
  <2> QED
    BY <1>2, <2>1, <2>2, <2>3, <2>5, TemplateSaved DEF IInv, Running
<1> QED
  BY <1>3, <1>4

LEMMA DeleteTemplateKeeps ==
    ASSUME IInv, NEW r \in Requests, DeleteTemplate(r)
    PROVE  IInv'
<1> DEFINE q == request[r]
<1>1. q.op = "drop" /\ TablesInv
  BY DEF DeleteTemplate, IInv
<1>2. CASE Rollback(r)
  BY <1>1, <1>2, RollbackKeeps DEF Running
<1>3. CASE ~Rollback(r)
  <2>1. /\ template' = IF template.id = q.found.id THEN NoTemplate ELSE template
        /\ Settles(q, TRUE) /\ request' = [request EXCEPT ![r] = NoRequest]
        /\ UNCHANGED <<tenants, definitions, rows, kafka, lazy, designator, lastId>>
    BY <1>3 DEF DeleteTemplate, Finish, Succeed, instanceVars
  <2>2. settled' \subseteq settled /\ owed' = owed
    BY <1>1, <2>1, SettlesIs
  <2>3. template' = template \/ template'.id = 0
    BY <2>1 DEF NoTemplate
  <2>4. /\ template'.id \in Nat /\ lastId' \in Nat /\ lastId <= lastId' /\ template'.id <= lastId'
        /\ (template'.id # 0 => template'.configs \in Configs)
    BY <1>1, <2>1, <2>3 DEF TablesInv
  <2>5. OwedInv'
    <3>1. \A s \in Requests : request'[s].op = "cleanup" => request[s].op = "cleanup"
      BY <2>1, NoRequestIs DEF IInv, RequestsInv
    <3> QED
      BY <2>2, <2>3, <3>1 DEF IInv, OwedInv
  <2>6. TemplateInv'
    <3>1. CASE template'.id = 0
      BY <3>1 DEF TemplateInv, Calm
    <3>2. CASE template' = template
      <4>1. InHand(NoRequest)'
        BY NoRequestIs DEF InHand
      <4>2. Calm => \A p \in Linked(template.id)' : Has(rows[p], p, template.configs)'
        BY <2>1, <3>2 DEF IInv, TemplateInv, Has, Linked
      <4> QED
        BY <1>1, <2>1, <2>2, <3>2, <4>1, <4>2, TemplateKeeps DEF IInv, Early
    <3> QED
      BY <2>3, <3>1, <3>2
  <2> QED
    BY <1>1, <2>1, <2>2, <2>4, <2>5, <2>6, TemplateSaved DEF IInv, Running
<1> QED
  BY <1>2, <1>3

-----------------------------------------------------------------------------
(* A change of the template reaches the topics                             *)

LEMMA MakeTopicsDirtyKeeps ==
    ASSUME IInv, NEW r \in Requests, MakeTopicsDirty(r)
    PROVE  IInv'
<1> DEFINE q == request[r]
           at == AfterUpdates(q.todo)
<1>1. Sound(q) /\ Current(q) /\ AloneWork(q) /\ TablesInv
  BY DEF IInv, RequestsInv
<1>2. q.op = "template" /\ q.at = "dirty" /\ q.topic = None
  BY <1>1 DEF MakeTopicsDirty, Sound, Shape
<1> HIDE DEF at
<1>3. PICK n : n = [q EXCEPT !.at = at]
  OBVIOUS
<1>4. /\ request' = [request EXCEPT ![r] = n]
      /\ rows' = [p \in Pairs |-> IF p \in Linked(q.found.id) THEN [rows[p] EXCEPT !.dirty = TRUE] ELSE rows[p]]
      /\ UNCHANGED <<tenants, definitions, template, lastId, kafka, lazy, settled, owed, designator>>
  BY <1>3 DEF MakeTopicsDirty, Goto, history, instanceVars, at
<1>5. Rests(n, q, {"at"}) /\ n.at = at
  BY <1>1, <1>3, FieldsIs DEF Sound, Shape, Rests
<1>6. /\ n.op = "template" /\ n.configs = q.configs /\ n.found = q.found /\ n.toCreate = q.toCreate
      /\ n.inserted = q.inserted /\ n.todo = q.todo /\ n.snap = q.snap /\ n.mine = q.mine /\ n.topic = None
      /\ n.known = q.known /\ n.alone = q.alone
  BY <1>2, <1>5, FieldsIs DEF Rests
<1>7. n.at \in {"update", "template"} /\ (n.todo # {} => n.at = "update")
  BY <1>5, <1>6 DEF at, AfterUpdates
\* A mark changes nothing else of a row.
<1>8. ASSUME NEW p \in Pairs
      PROVE  /\ rows[p] = None => rows'[p] = None
             /\ rows[p] # None => /\ rows[p] \in Row /\ rows'[p] \in Row
                                  /\ rows'[p].instance = rows[p].instance /\ rows'[p].template = rows[p].template
                                  /\ rows'[p].configs = rows[p].configs
  <2>1. p \in Linked(q.found.id) => rows[p] # None
    BY DEF Linked
  <2>2. rows[p] # None => rows[p] \in Row
    BY <1>1 DEF TablesInv
  <2>3. CASE p \in Linked(q.found.id)
    <3>1. rows'[p] = [rows[p] EXCEPT !.dirty = TRUE] /\ rows[p] \in Row
      BY <1>4, <2>1, <2>2, <2>3
    <3> QED
      BY <2>1, <2>3, <3>1 DEF Row
  <2>4. CASE p \notin Linked(q.found.id)
    BY <1>4, <2>2, <2>4
  <2> QED
    BY <2>3, <2>4
<1>9. \A p \in Pairs : rows'[p] # None <=> rows[p] # None
  BY <1>8, NoneFacts
<1>10. Linked(template.id)' = Linked(template.id)
  BY <1>4, <1>8, <1>9 DEF Linked
<1>11. TablesInv' /\ TenantsInv'
  <2>1. rows' \in [Pairs -> Row \cup {None}]
    BY <1>4, <1>8
  <2>2. \A p \in Pairs : rows'[p] # None => rows'[p].template <= lastId
    BY <1>1, <1>8, <1>9 DEF TablesInv
  <2> QED
    BY <1>1, <1>4, <1>9, <2>1, <2>2 DEF TablesInv, TenantsInv, IInv
<1>12. Sound(n)
  <2>1. Shape(n)
    BY <1>1, <1>2, <1>5, <1>6, <1>7 DEF Sound, Shape, Ops, StepsOf, Rests
  <2>2. TemplateTask(n)
    BY <1>1, <1>2, <1>6, <1>7 DEF Sound, TemplateTask
  <2> QED
    BY <1>6, <2>1, <2>2 DEF Sound, TenantsTask, DefinitionTask, CleanupTask
<1>13. Current(n)'
  BY <1>1, <1>2, <1>4, <1>6 DEF Current
<1>14. AloneWork(n)'
  <2>1. q.alone => template.id = q.found.id /\ template.configs # q.configs /\ q.todo = Linked(template.id)
    BY <1>1, <1>2 DEF AloneWork, TemplateAlone
  <2> QED
    BY <1>4, <1>6, <1>7, <1>10, <2>1 DEF AloneWork, DefineAlone, UndefineAlone, TemplateAlone
<1>15. RequestsInv'
  <2>1. \A s \in Requests \ {r} : request[s].known \subseteq tenants /\ request[s].inserted \cap tenants = {}
    BY DEF IInv, RequestsInv, Current
  <2>2. \A s \in Requests \ {r} : Apart(n, request[s])
    BY <1>6 DEF IInv, RequestsInv, Apart
  <2>3. lastId' \in Nat /\ lastId <= lastId' /\ Running(r)
    BY <1>1, <1>2, <1>4 DEF TablesInv, Running
  <2> QED
    BY <1>1, <1>4, <1>6, <1>12, <1>13, <1>14, <2>1, <2>2, <2>3, StepKeeps DEF IInv
<1>16. SettledInv'
  <2>1. ASSUME NEW d \in settled \ lazy
        PROVE  Served(d)' /\ Agrees(n, d)'
    <3>1. Served(d) /\ Agrees(q, d) /\ d \in Definitions
      BY <1>1 DEF IInv, SettledInv, TablesInv
    <3>2. ASSUME NEW t \in tenants
          PROVE  /\ rows[<<d, t>>] = None => rows'[<<d, t>>] = None
                 /\ HasTopic(<<d, t>>) => HasTopic(<<d, t>>)'
      <4>1. <<d, t>> \in Pairs
        BY <1>1, <3>1, PairFacts DEF TablesInv
      <4> QED
        BY <1>4, <1>8, <1>9, <4>1 DEF HasTopic
    <3>3. Served(d)'
      BY <1>4, <3>1, <3>2 DEF Served
    <3>4. Agrees(n, d)'
      <4>1. q.todo \subseteq Pairs
        BY <1>1 DEF Sound, Shape
      <4> QED
        BY <1>2, <1>6, <1>9, <3>1, <4>1 DEF Agrees, About
    <3> QED
      BY <3>3, <3>4
  <2> QED
    BY <1>4, <1>9, <2>1, SettledKeeps DEF IInv
<1>17. OwedInv'
  BY <1>4, <1>6, OwedKeeps DEF IInv
<1>18. TemplateInv'
  BY <1>4, <1>6, <1>7, TemplateKeeps DEF IInv, Early
<1> QED
  BY <1>11, <1>15, <1>16, <1>17, <1>18 DEF IInv

LEMMA UpdateTopicSettingsKeeps ==
    ASSUME IInv, NEW r \in Requests, NEW p \in Pairs, UpdateTopicSettings(r, p)
    PROVE  IInv'
<1> DEFINE q == request[r]
           saved == [q.snap[p] EXCEPT !.configs = q.configs, !.dirty = FALSE]
           left == q.todo \ {p}
<1>1. Sound(q) /\ Current(q) /\ AloneWork(q) /\ TablesInv
  BY DEF IInv, RequestsInv
<1>2. /\ q.op = "template" /\ q.at = "update" /\ p \in q.todo
      /\ \A s \in Requests \ {r} : p \notin DOMAIN request[s].mine
  BY DEF UpdateTopicSettings, Free
<1>3. q.topic = None /\ q.inserted = {} /\ q.configs \in Configs /\ q.snap[p] \in Row
  BY <1>1, <1>2 DEF Sound, Shape, TemplateTask
<1>4. CASE Rollback(r)
  BY <1>2, <1>4, RollbackKeeps DEF Running
<1>5. PICK row : row = saved
  OBVIOUS
<1>6. PICK applied : applied = Applied(kafka[row.instance][p], q.configs)
  OBVIOUS
<1>7. /\ row \in Row /\ row.instance \in Instances /\ row.configs = q.configs
      /\ applied \in Configs /\ applied # None /\ Meets(applied, q.configs)
  <2>1. row \in Row /\ row.instance \in Instances /\ row.configs = q.configs
    BY <1>3, <1>5 DEF Row
  <2>2. kafka[row.instance][p] \in Configs \cup {None}
    BY <1>1, <2>1 DEF TablesInv
  <2> QED
    BY <1>3, <1>6, <2>1, <2>2, AppliedIs
<1>8. CASE Settles(q, FALSE) /\ Abort(r) /\ kafka' = [kafka EXCEPT ![row.instance][p] = applied]
  <2>1. /\ settled' \subseteq settled /\ owed' = IF ~q.alone THEN Unknown ELSE q.configs
        /\ template' = template /\ request' = [request EXCEPT ![r] = NoRequest]
    BY <1>2, <1>8, SettlesIs DEF Abort, tables
  <2>2. owed' # None /\ (q.alone => template.configs # q.configs)
    BY <1>1, <1>2, <1>3, <2>1, NoneFacts DEF AloneWork, TemplateAlone
  <2>3. \A s \in Requests : q.alone => request'[s].op # "cleanup"
    BY <1>2, <2>1, NoRequestIs DEF IInv, RequestsInv, AloneInv, Running
  <2>4. OwedInv'
    BY <2>1, <2>2, <2>3, NoneFacts DEF OwedInv
  <2>5. /\ kafka' \in [Instances -> [Pairs -> Configs \cup {None}]]
        /\ \A i \in Instances, e \in Pairs : e # p => kafka'[i][e] = kafka[i][e]
        /\ \A i \in Instances : kafka[i][p] # None => kafka'[i][p] # None
    BY <1>1, <1>7, <1>8 DEF TablesInv
  <2> QED
    BY <1>2, <1>8, <2>1, <2>2, <2>4, <2>5, TornKeeps DEF Running, Calm
<1>9. CASE /\ ~Rollback(r)
           /\ ~(Settles(q, FALSE) /\ Abort(r) /\ kafka' = [kafka EXCEPT ![row.instance][p] = applied])
  <2>1. row = saved
    BY <1>5
  <2>2. row \in Row /\ row.configs = q.configs
    BY <1>7
  <2>3. /\ Referable(saved) /\ HasTenant(q, p) /\ rows' = [rows EXCEPT ![p] = saved]
        /\ kafka' = [kafka EXCEPT ![saved.instance][p] = applied]
        /\ Goto(r, [q EXCEPT !.todo = @ \ {p}, !.at = AfterUpdates(left)])
        /\ UNCHANGED <<tenants, definitions, template, lastId>>
    BY <1>9, <1>5, <1>6 DEF UpdateTopicSettings
  <2> HIDE DEF saved, left
  <2>4. PICK n : n = [q EXCEPT !.todo = left, !.at = AfterUpdates(left)]
    OBVIOUS
  <2>5. /\ request' = [request EXCEPT ![r] = n]
        /\ UNCHANGED <<tenants, definitions, template, lastId, lazy, settled, owed, designator>>
    BY <2>3, <2>4 DEF Goto, history, instanceVars, left
  <2>6. Rests(n, q, {"todo", "at"}) /\ n.todo = left /\ n.at = AfterUpdates(left)
    BY <1>1, <2>4, FieldsIs DEF Sound, Shape, Rests
  <2>7. /\ n.op = "template" /\ n.configs = q.configs /\ n.found = q.found /\ n.toCreate = q.toCreate
        /\ n.inserted = q.inserted /\ n.snap = q.snap /\ n.mine = q.mine /\ n.topic = None
        /\ n.known = q.known /\ n.alone = q.alone
    BY <1>2, <1>3, <2>6, FieldsIs DEF Rests
  <2>8. n.at \in {"update", "template"} /\ (n.todo # {} => n.at = "update") /\ n.todo \subseteq q.todo
    BY <2>6 DEF AfterUpdates, left
  <2>9. row.template <= lastId
    BY <1>1, <2>1, <2>2, <2>3 DEF Referable, TablesInv, Row
  <2>10. /\ rows' \in [Pairs -> Row \cup {None}] /\ rows'[p] = row
         /\ \A e \in Pairs : e # p => rows'[e] = rows[e]
         /\ kafka' \in [Instances -> [Pairs -> Configs \cup {None}]] /\ kafka'[row.instance][p] = applied
         /\ \A e \in Pairs, i \in Instances : e # p => kafka'[i][e] = kafka[i][e]
    BY <1>1, <1>3, <1>7, <2>1, <2>2, <2>3 DEF TablesInv
  <2>11. TablesInv'
    BY <1>1, <2>5, <2>9, <2>10 DEF TablesInv
  <2>12. TenantsInv'
    <3>1. p[1] \in lazy \/ p[2] \in tenants
      BY <1>1, <1>3, <2>3 DEF HasTenant, Current
    <3> QED
      BY <2>5, <2>10, <3>1 DEF IInv, TenantsInv
  <2>13. HasTopic(p)'
    BY <1>3, <1>7, <2>2, <2>10, NoneFacts DEF HasTopic
  <2>14. \A e \in Pairs : HasTopic(e) => HasTopic(e)'
    BY <1>1, <2>10, <2>13 DEF HasTopic, TablesInv, Row
  <2>15. Sound(n)
    <3>1. Shape(n)
      BY <1>1, <1>2, <2>6, <2>7, <2>8 DEF Sound, Shape, Ops, StepsOf, Rests
    <3>2. TemplateTask(n)
      BY <1>1, <1>2, <2>7, <2>8 DEF Sound, TemplateTask
    <3> QED
      BY <2>7, <3>1, <3>2 DEF Sound, TenantsTask, DefinitionTask, CleanupTask
  <2>16. Current(n)'
    BY <1>1, <1>2, <2>5, <2>7 DEF Current
  <2>17. AloneWork(n)'
    <3>1. ASSUME q.alone
          PROVE  TemplateAlone(n)'
      <4>1. /\ template.id = q.found.id /\ template.configs # q.configs
            /\ \A e \in Linked(template.id) \ q.todo : Has(rows[e], e, q.configs)
        BY <1>1, <1>2, <3>1 DEF AloneWork, TemplateAlone
      <4>2. ASSUME NEW e \in Linked(template.id)', e \notin n.todo
            PROVE  Has(rows[e], e, n.configs)'
        <5>1. CASE e = p
          BY <1>7, <2>2, <2>7, <2>10, <5>1 DEF Has
        <5>2. CASE e # p
          <6>1. e \in Pairs /\ rows'[e] = rows[e] /\ rows[e] \in Row /\ e \in Linked(template.id) \ q.todo
            BY <1>1, <2>5, <2>6, <2>10, <4>2, <5>2 DEF Linked, TablesInv, left
          <6> QED
            BY <2>7, <2>10, <4>1, <5>2, <6>1 DEF Has, Row
        <5> QED
          BY <5>1, <5>2
      <4> QED
        BY <2>5, <2>7, <2>8, <4>1, <4>2 DEF TemplateAlone
    <3> QED
      BY <2>7, <3>1 DEF AloneWork, DefineAlone, UndefineAlone
  <2>18. \A s \in Requests \ {r} : \A e \in DOMAIN request[s].mine : e \in Pairs /\ e # p
    BY <1>2, HeldAreTopics DEF IInv
  <2>19. RequestsInv'
    <3>1. \A s \in Requests \ {r} : request[s].known \subseteq tenants /\ request[s].inserted \cap tenants = {}
      BY DEF IInv, RequestsInv, Current
    <3>2. \A s \in Requests \ {r} : \A e \in DOMAIN request[s].mine, i \in Instances : kafka'[i][e] = kafka[i][e]
      BY <2>10, <2>18
    <3>3. \A s \in Requests \ {r} : Apart(n, request[s])
      BY <2>7 DEF IInv, RequestsInv, Apart
    <3>4. lastId' \in Nat /\ lastId <= lastId' /\ Running(r)
      BY <1>1, <1>2, <2>5 DEF TablesInv, Running
    <3> QED
      BY <1>1, <2>5, <2>7, <2>15, <2>16, <2>17, <3>1, <3>2, <3>3, <3>4, StepKeeps DEF IInv
  <2>20. \A e \in Pairs : rows[e] # None => rows'[e] # None
    BY <2>2, <2>10, NoneFacts
  <2>21. SettledInv'
    <3>1. ASSUME NEW d \in settled \ lazy
          PROVE  Served(d)' /\ Agrees(n, d)'
      <4>1. Served(d) /\ Agrees(q, d) /\ d \in Definitions
        BY <1>1 DEF IInv, SettledInv, TablesInv
      <4>2. ASSUME NEW t \in tenants
            PROVE  IF definitions[d] = None THEN rows'[<<d, t>>] = None ELSE HasTopic(<<d, t>>)'
        <5>1. <<d, t>> \in Pairs /\ <<d, t>>[1] = d
          BY <1>1, <4>1, PairFacts DEF TablesInv
        <5>2. CASE <<d, t>> = p
          <6>1. rows[p] # None
            BY <1>2, <4>1, <5>1, <5>2 DEF Agrees
          <6> QED
            BY <2>13, <4>1, <5>2, <6>1 DEF Served
        <5>3. CASE <<d, t>> # p
          BY <2>10, <2>14, <4>1, <5>1, <5>3 DEF Served
        <5> QED
          BY <5>2, <5>3
      <4>3. Served(d)'
        BY <2>5, <4>2 DEF Served
      <4>4. Agrees(n, d)'
        <5>1. n.todo \subseteq Pairs
          BY <2>15 DEF Sound, Shape
        <5> QED
          BY <1>2, <2>7, <2>8, <2>20, <4>1, <5>1 DEF Agrees, About
      <4> QED
        BY <4>3, <4>4
    <3> QED
      BY <2>5, <2>20, <3>1, SettledKeeps DEF IInv
  <2>22. OwedInv'
    BY <2>5, <2>7, OwedKeeps DEF IInv
  <2>23. TemplateInv'
    <3>1. \A s \in Requests \ {r}, i \in Instances : \A e \in DOMAIN request[s].mine : kafka'[i][e] = kafka[i][e]
      BY <2>10, <2>18
    <3>2. ~Early(n)
      BY <2>7, <2>8 DEF Early
    <3> QED
      BY <2>5, <3>1, <3>2, TemplateKeeps DEF IInv
  <2> QED
    BY <2>11, <2>12, <2>19, <2>21, <2>22, <2>23 DEF IInv
<1> QED
  BY <1>4, <1>9, <1>8

-----------------------------------------------------------------------------
(* The transactions of tenants and of a clean-up                           *)

LEMMA CleanTopicKeeps ==
    ASSUME IInv, NEW r \in Requests, NEW p \in Pairs, CleanTopic(r, p)
    PROVE  IInv'
<1> DEFINE q == request[r]
<1>1. Sound(q) /\ Current(q) /\ TablesInv
  BY DEF IInv, RequestsInv
<1>2. /\ q.op = "cleanup" /\ p \in q.todo /\ q.topic = None
      /\ \A s \in Requests \ {r} : p \notin DOMAIN request[s].mine
  BY <1>1 DEF CleanTopic, Free, Sound, Shape, StepsOf
<1>3. PICK n : n = [q EXCEPT !.todo = @ \ {p}, !.mine = Holds(@, p, None)]
  OBVIOUS
<1>4. /\ request' = [request EXCEPT ![r] = n]
      /\ kafka' = IF rows[p] = None THEN kafka ELSE [kafka EXCEPT ![rows[p].instance][p] = None]
      /\ UNCHANGED <<tenants, definitions, template, lastId, rows, lazy, settled, owed, designator>>
  BY <1>3 DEF CleanTopic, Goto, tables, history, instanceVars
<1>5. Rests(n, q, {"todo", "mine"}) /\ n.todo = q.todo \ {p} /\ n.mine = Holds(q.mine, p, None)
  BY <1>1, <1>3, FieldsIs DEF Sound, Shape, Rests
<1>6. /\ n.op = "cleanup" /\ n.at = q.at /\ n.toCreate = q.toCreate
      /\ n.inserted = q.inserted /\ n.topic = None /\ n.known = q.known /\ n.alone = q.alone
  BY <1>2, <1>5, FieldsIs DEF Rests
<1>7. /\ DOMAIN n.mine = {p} \cup DOMAIN q.mine /\ n.mine[p] = None
      /\ \A e \in DOMAIN q.mine : e # p => n.mine[e] = q.mine[e]
  BY <1>5 DEF Holds
<1>8. Sound(n)
  <2>1. Shape(n)
    BY <1>1, <1>2, <1>5, <1>6 DEF Sound, Shape, Ops, StepsOf, Rests
  <2>2. CleanupTask(n)
    BY <1>1, <1>2, <1>6, <1>7 DEF Sound, CleanupTask
  <2> QED
    BY <1>6, <2>1, <2>2 DEF Sound, TenantsTask, DefinitionTask, TemplateTask
<1>9. Current(n)' /\ AloneWork(n)'
  BY <1>1, <1>2, <1>4, <1>6 DEF Current, AloneWork, DefineAlone, UndefineAlone, TemplateAlone
<1>10. /\ kafka' \in [Instances -> [Pairs -> Configs \cup {None}]]
       /\ \A e \in Pairs, i \in Instances : e # p => kafka'[i][e] = kafka[i][e]
  <2>1. rows[p] # None => rows[p].instance \in Instances
    BY <1>1 DEF TablesInv, Row
  <2> QED
    BY <1>1, <1>4, <2>1 DEF TablesInv
<1>11. TablesInv' /\ TenantsInv'
  BY <1>1, <1>4, <1>10 DEF TablesInv, TenantsInv, IInv
<1>12. RequestsInv'
  <2>1. \A s \in Requests \ {r} : request[s].known \subseteq tenants /\ request[s].inserted \cap tenants = {}
    BY DEF IInv, RequestsInv, Current
  <2>2. \A s \in Requests \ {r} : \A e \in DOMAIN request[s].mine, i \in Instances : kafka'[i][e] = kafka[i][e]
    BY <1>2, <1>10, HeldAreTopics DEF IInv
  <2>3. \A s \in Requests \ {r} : Apart(n, request[s])
    BY <1>2, <1>6, <1>7 DEF IInv, RequestsInv, Apart
  <2>4. lastId' \in Nat /\ lastId <= lastId' /\ Running(r)
    BY <1>1, <1>2, <1>4 DEF TablesInv, Running
  <2> QED
    BY <1>1, <1>4, <1>6, <1>8, <1>9, <2>1, <2>2, <2>3, <2>4, StepKeeps DEF IInv
<1>13. settled \ lazy = {} /\ owed = Unknown
  BY <1>2 DEF IInv, SettledInv, OwedInv, Agrees, About
<1>14. SettledInv' /\ OwedInv' /\ TemplateInv'
  BY <1>4, <1>13, NoneFacts DEF SettledInv, OwedInv, TemplateInv, Calm
<1> QED
  BY <1>11, <1>12, <1>14 DEF IInv

LEMMA CommitTenantsKeeps ==
    ASSUME IInv, NEW r \in Requests, CommitTenants(r)
    PROVE  IInv'
<1> DEFINE q == request[r]
<1>1. Sound(q) /\ Current(q) /\ TablesInv /\ TenantsInv
  BY DEF IInv, RequestsInv
<1>2. /\ q.op = "tenants" /\ q.at = "finish" /\ tenants' = tenants \cup q.inserted
      /\ rows' = [p \in Pairs |-> Visible(r, p)] /\ request' = [request EXCEPT ![r] = NoRequest]
      /\ Settles(q, TRUE) /\ UNCHANGED <<definitions, template, lastId, kafka, lazy, designator>>
  BY DEF CommitTenants, Finish, Succeed, instanceVars
<1>3. settled' \subseteq settled /\ owed' = owed
  BY <1>2, SettlesIs
<1>4. q.todo = {} /\ q.inserted \subseteq Tenants
  BY <1>1, <1>2 DEF Sound, Shape
<1>5. ASSUME NEW p \in DOMAIN q.mine
      PROVE  /\ p \in Pairs /\ p[1] \in DOMAIN q.defs \ lazy /\ p[2] \in q.inserted \ tenants
             /\ q.mine[p] \in Row /\ rows'[p] = q.mine[p]
             /\ q.mine[p].template <= lastId /\ kafka[q.mine[p].instance][p] # None
  BY <1>1, <1>2, <1>5 DEF Sound, TenantsTask, Current, Visible
<1>6. \A p \in Pairs \ DOMAIN q.mine : rows'[p] = rows[p]
  BY <1>2 DEF Visible
<1>7. TablesInv'
  <2>1. ASSUME NEW p \in Pairs
        PROVE  rows'[p] \in Row \cup {None} /\ (rows'[p] # None => rows'[p].template <= lastId)
    BY <1>1, <1>5, <1>6 DEF TablesInv
  <2>2. rows' \in [Pairs -> Row \cup {None}]
    BY <1>2, <2>1
  <2> QED
    BY <1>1, <1>2, <1>3, <1>4, <2>1, <2>2 DEF TablesInv
<1>8. TenantsInv'
  BY <1>1, <1>2, <1>5, <1>6 DEF TenantsInv
<1>9. RequestsInv'
  <2>1. \A s \in Requests \ {r} : request[s].known \subseteq tenants' /\ request[s].inserted \cap tenants' = {}
    BY <1>2 DEF IInv, RequestsInv, Current, Apart
  <2>2. lastId' \in Nat /\ lastId <= lastId' /\ Running(r)
    BY <1>1, <1>2 DEF TablesInv, Running
  <2> QED
    BY <1>1, <1>2, <2>1, <2>2, EndKeeps DEF IInv
<1>10. SettledInv'
  <2>1. ASSUME NEW d \in settled \ lazy
        PROVE  Served(d)'
    <3>1. Served(d) /\ Agrees(q, d) /\ d \in Definitions
      BY <1>1 DEF IInv, SettledInv, TablesInv
    <3>2. d \in DOMAIN q.defs <=> definitions[d] # None
      BY <1>2, <3>1 DEF Agrees
    <3>3. ASSUME NEW t \in tenants'
          PROVE  IF definitions[d] = None THEN rows'[<<d, t>>] = None ELSE HasTopic(<<d, t>>)'
      <4>1. <<d, t>> \in Pairs /\ <<d, t>>[1] = d /\ <<d, t>>[2] = t
        BY <1>1, <1>2, <1>4, <3>1, PairFacts DEF TablesInv
      <4>2. CASE t \in tenants
        <5>1. rows'[<<d, t>>] = rows[<<d, t>>]
          BY <1>5, <1>6, <4>1, <4>2
        <5> QED
          BY <1>2, <3>1, <4>2, <5>1 DEF Served, HasTopic
      <4>3. CASE t \notin tenants /\ definitions[d] = None
        <5>1. rows'[<<d, t>>] = rows[<<d, t>>]
          BY <1>5, <1>6, <3>2, <4>1, <4>3
        <5> QED
          BY <1>1, <2>1, <4>1, <4>3, <5>1 DEF TenantsInv
      <4>4. CASE t \notin tenants /\ definitions[d] # None
        <5>1. <<d, t>> \in DOMAIN q.mine
          BY <1>1, <1>2, <1>4, <3>2, <4>4 DEF Sound, TenantsTask
        <5> QED
          BY <1>2, <1>5, <4>4, <5>1, NoneFacts DEF HasTopic
      <4> QED
        BY <4>2, <4>3, <4>4
    <3> QED
      BY <1>2, <3>3 DEF Served
  <2>2. \A p \in Pairs : rows[p] # None => rows'[p] # None
    BY <1>5, <1>6, NoneFacts
  <2>3. \A d \in settled \ lazy : Agrees(NoRequest, d)'
    BY NoRequestIs DEF Agrees, About
  <2> QED
    BY <1>2, <1>3, <2>1, <2>2, <2>3, SettledKeeps DEF IInv
<1>11. OwedInv'
  BY <1>2, <1>3, NoRequestIs, OwedKeeps DEF IInv
<1>12. TemplateInv'
  <2>1. InHand(NoRequest)'
    BY NoRequestIs DEF InHand
  <2>2. ASSUME Calm, NEW p \in Linked(template.id)'
        PROVE  Has(rows[p], p, template.configs)'
    <3>1. p \in Pairs /\ rows'[p] # None /\ rows'[p].template = template.id
      BY <1>2 DEF Linked
    <3>2. CASE p \in DOMAIN q.mine
      <4>1. Has(q.mine[p], p, template.configs)
        BY <1>2, <1>5, <2>2, <3>1, <3>2 DEF IInv, TemplateInv, InHand
      <4> QED
        BY <1>2, <1>5, <3>2, <4>1 DEF Has
    <3>3. CASE p \notin DOMAIN q.mine
      <4>1. rows'[p] = rows[p] /\ Has(rows[p], p, template.configs)
        BY <1>6, <2>2, <3>1, <3>3 DEF IInv, TemplateInv, Linked
      <4> QED
        BY <1>2, <4>1 DEF Has
    <3> QED
      BY <3>2, <3>3
  <2> QED
    BY <1>2, <1>3, <2>1, <2>2, TemplateKeeps DEF IInv, Early
<1> QED
  BY <1>7, <1>8, <1>9, <1>10, <1>11, <1>12 DEF IInv

LEMMA CommitCleanupKeeps ==
    ASSUME IInv, NEW r \in Requests, CommitCleanup(r)
    PROVE  IInv'
<1> DEFINE q == request[r]
           left == {p \in Registered \ DOMAIN q.mine : p[1] \notin lazy \/ rows[p].template # 0}
<1>1. Sound(q) /\ TablesInv /\ q.op = "cleanup"
  BY DEF CommitCleanup, IInv, RequestsInv
<1>2. CASE left # {}
  BY <1>1, <1>2, RollbackKeeps DEF CommitCleanup, Running
<1>3. CASE left = {}
  <2>1. /\ rows' = [p \in Pairs |-> Visible(r, p)] /\ template' = NoTemplate /\ designator' = None
        /\ definitions' = [d \in Definitions |-> None] /\ tenants' = {}
        /\ request' = [s \in Requests |-> IF s = r THEN NoRequest ELSE [request[s] EXCEPT !.known = {}]]
        /\ Settles(q, TRUE) /\ UNCHANGED <<lazy, lastId, kafka>>
    BY <1>3 DEF CommitCleanup
  <2>2. /\ \A d \in settled' \ settled : q.alone /\ d \in Definitions
        /\ owed' = IF q.alone THEN None ELSE Unknown
    BY <1>1, <2>1, SettlesIs
  <2>3. ASSUME NEW p \in Pairs
        PROVE  rows'[p] = None \/ (rows'[p] = rows[p] /\ p[1] \in lazy)
    <3>1. CASE p \in DOMAIN q.mine
      BY <1>1, <2>1, <3>1 DEF Sound, CleanupTask, Visible
    <3>2. CASE p \notin DOMAIN q.mine
      <4>1. rows'[p] = rows[p]
        BY <2>1, <3>2 DEF Visible
      <4> QED
        BY <1>3, <3>2, <4>1 DEF Registered
    <3> QED
      BY <3>1, <3>2
  <2>4. TablesInv' /\ TenantsInv'
    <3>1. rows' \in [Pairs -> Row \cup {None}]
      BY <1>1, <2>1, <2>3 DEF TablesInv
    <3>2. template'.id = 0
      BY <2>1 DEF NoTemplate
    <3>3. settled' \subseteq Definitions /\ 0 \in Nat /\ 0 <= lastId
      BY <1>1, <2>2 DEF TablesInv
    <3> QED
      BY <1>1, <2>1, <2>3, <3>1, <3>2, <3>3 DEF TablesInv, TenantsInv
  <2>5. ASSUME NEW s \in Requests, s # r
        PROVE  LET o == request[s]  u == request'[s] IN
               /\ DOMAIN u = DOMAIN NoRequest /\ DOMAIN o = DOMAIN NoRequest
               /\ u.op = o.op /\ u.at = o.at /\ u.name = o.name /\ u.configs = o.configs /\ u.found = o.found
               /\ u.defs = o.defs /\ u.toCreate = o.toCreate /\ u.inserted = o.inserted /\ u.todo = o.todo
               /\ u.topic = o.topic /\ u.snap = o.snap /\ u.mine = o.mine /\ u.known = {} /\ u.ok = o.ok
               /\ u.alone = o.alone
    <3>1. DOMAIN request[s] = DOMAIN NoRequest
      BY DEF IInv, RequestsInv, Sound, Shape
    <3>2. request'[s] = [request[s] EXCEPT !.known = {}]
      BY <2>1, <2>5
    <3> QED
      BY <3>1, <3>2, FieldsIs
  <2>6. request'[r] = NoRequest /\ DOMAIN request' = Requests
    BY <2>1
  <2>7. ASSUME NEW s \in Requests, s # r
        PROVE  Sound(request[s])' /\ Current(request[s])' /\ AloneWork(request[s])'
    <3>1. Sound(request[s]) /\ Current(request[s]) /\ ~(Running(s) /\ request[s].alone)
      BY <1>1, <2>7 DEF IInv, RequestsInv, AloneInv, Running
    <3>2. Sound(request[s])'
      <4>1. PICK u : u = request'[s]
        OBVIOUS
      <4>2. Sound(u)
        BY <2>5, <2>7, <3>1, <4>1 DEF Sound, Shape, TenantsTask, DefinitionTask, TemplateTask, CleanupTask
      <4> QED
        BY <2>1, <4>1, <4>2 DEF Sound, Shape, TenantsTask, DefinitionTask, TemplateTask, CleanupTask
    <3>3. Current(request[s])'
      BY <2>1, <2>5, <2>7, <3>1 DEF Current
    <3>4. AloneWork(request[s])'
      BY <2>5, <2>7, <3>1 DEF Running, AloneWork, DefineAlone, UndefineAlone, TemplateAlone
    <3> QED
      BY <3>2, <3>3, <3>4
  <2>8. RequestsInv'
    <3>1. Sound(request[r])' /\ Current(request[r])' /\ AloneWork(request[r])'
      <4>1. Sound(request[r])'
        BY <2>1, <2>6, NoRequestIs DEF Sound, Shape, TenantsTask, DefinitionTask, TemplateTask, CleanupTask
      <4> QED
        BY <2>6, <4>1, NoRequestIs DEF Current, AloneWork, DefineAlone, UndefineAlone, TemplateAlone
    <3>2. ASSUME NEW s \in Requests, NEW u \in Requests, s # u
          PROVE  Apart(request[s], request[u])'
      <4>1. Apart(request[s], request[u])
        BY <3>2 DEF IInv, RequestsInv
      <4> QED
        BY <2>5, <2>6, <3>2, <4>1, NoRequestIs DEF Apart
    <3>3. ASSUME NEW s \in Requests, NEW u \in Requests, Running(s)', request'[s].alone, s # u
          PROVE  ~Running(u)'
      BY <2>5, <2>6, <3>3, NoRequestIs DEF IInv, RequestsInv, AloneInv, Running
    <3> QED
      BY <2>6, <2>7, <3>1, <3>2, <3>3 DEF RequestsInv, AloneInv
  <2>9. ASSUME q.alone
        PROVE  \A s \in Requests : request'[s].op = "idle" /\ request'[s].todo = {}
    <3>1. ASSUME NEW s \in Requests, s # r
          PROVE  request'[s].op = "idle" /\ request'[s].todo = {}
      <4>1. request[s].op = "idle" /\ Shape(request[s])
        BY <1>1, <2>9, <3>1 DEF IInv, RequestsInv, AloneInv, Running, Sound
      <4> QED
        BY <2>5, <3>1, <4>1, IdleIs
    <3> QED
      BY <2>6, <3>1, NoRequestIs
  <2>10. SettledInv'
    <3>1. CASE q.alone
      BY <2>1, <2>9, <3>1 DEF SettledInv, Served, Agrees, About
    <3>2. CASE ~q.alone
      BY <1>1, <2>1, <2>2, <3>2 DEF IInv, SettledInv, Agrees, About
    <3> QED
      BY <3>1, <3>2
  <2>11. OwedInv' /\ TemplateInv'
    <3>1. template'.id = 0
      BY <2>1 DEF NoTemplate
    <3>2. \A s \in Requests : request'[s].op = "cleanup" => owed' = Unknown
      BY <2>2, <2>9
    <3> QED
      BY <3>1, <3>2 DEF OwedInv, TemplateInv, Calm
  <2> QED
    BY <2>4, <2>8, <2>10, <2>11 DEF IInv
<1> QED
  BY <1>2, <1>3

-----------------------------------------------------------------------------
(* Theorems                                                                *)

\* Changes of the instances, and steps of the monitors.
LEMMA ManagersKeep ==
    ASSUME IInv, UNCHANGED topicVars, designator' \in Instances \cup {None}
    PROVE  IInv'
<1>1. UNCHANGED <<tenants, definitions, template, lastId, rows, lazy, kafka, request, settled, owed>>
  BY DEF topicVars, tables
<1>2. TablesInv' /\ TenantsInv'
  BY <1>1 DEF IInv, TablesInv, TenantsInv
<1>3. RequestsInv'
  <2>1. ASSUME NEW s \in Requests
        PROVE  Sound(request[s])' /\ Current(request[s])' /\ AloneWork(request[s])'
    <3>1. Sound(request[s]) /\ Current(request[s]) /\ AloneWork(request[s])
      BY DEF IInv, RequestsInv
    <3>2. Sound(request[s])'
      BY <1>1, <3>1 DEF Sound, Shape, TenantsTask, DefinitionTask, TemplateTask, CleanupTask
    <3>3. Current(request[s])'
      BY <1>1, <3>1 DEF Current
    <3>4. AloneWork(request[s])'
      BY <1>1, <3>1 DEF AloneWork, DefineAlone, UndefineAlone, TemplateAlone, HasTopic, Linked, Has
    <3> QED
      BY <3>2, <3>3, <3>4
  <2>2. AloneInv' /\ \A s, u \in Requests : s # u => Apart(request[s], request[u])'
    BY <1>1 DEF IInv, RequestsInv, AloneInv, Running, Apart
  <2> QED
    BY <1>1, <2>1, <2>2 DEF IInv, RequestsInv
<1>4. SettledInv'
  <2>1. ASSUME NEW d \in settled \ lazy
        PROVE  Served(d)' /\ \A s \in Requests : Agrees(request[s], d)'
    <3>1. Served(d) /\ \A s \in Requests : Agrees(request[s], d)
      BY DEF IInv, SettledInv
    <3>2. Served(d)'
      BY <1>1, <3>1, ServedStays
    <3> QED
      BY <1>1, <3>1, <3>2 DEF Agrees, About
  <2> QED
    BY <1>1, <2>1 DEF SettledInv
<1>5. OwedInv'
  BY <1>1 DEF IInv, OwedInv
<1>6. TemplateInv'
  BY <1>1 DEF IInv, TemplateInv, Calm, Early, InHand, Has, Linked
<1> QED
  BY <1>2, <1>3, <1>4, <1>5, <1>6 DEF IInv

LEMMA InitIInv == Init => IInv
<1> SUFFICES ASSUME Init PROVE IInv
  OBVIOUS
<1> DEFINE i0 == CHOOSE i \in Instances : TRUE
           c0 == CHOOSE c \in Configs : TRUE
           d0 == CHOOSE d \in Definitions : TRUE
           t0 == CHOOSE t \in Tenants : TRUE
<1>1. i0 \in Instances /\ c0 \in Configs /\ d0 \in Definitions /\ t0 \in Tenants
  BY InstancesAssumption, TopicsAssumption
<1>2. /\ \E l \in DOMAIN Loads : lazy = Loads[l].lazy
      /\ (\E unregistered \in {{}, Pairs} : Fresh(unregistered, c0)) \/ Deployed(i0, d0, t0, c0)
      /\ designator = None
      /\ request = [r \in Requests |-> NoRequest] /\ settled = Definitions \ lazy /\ owed = None
  BY DEF Init, InitInstances
<1> HIDE DEF i0, c0, d0, t0
<1>3. lazy \subseteq Definitions
  BY <1>2, TopicsAssumption
<1>4. \A r \in Requests : request[r] = NoRequest
  BY <1>2
<1>5. RequestsInv
  <2>1. \A r \in Requests : Sound(request[r]) /\ Current(request[r]) /\ AloneWork(request[r])
    BY <1>4, NoRequestIs DEF Current, AloneWork, DefineAlone, UndefineAlone, TemplateAlone
  <2>2. AloneInv /\ \A r, s \in Requests : Apart(request[r], request[s])
    BY <1>4, NoRequestIs DEF AloneInv, Running, Apart
  <2> QED
    BY <1>2, <2>1, <2>2 DEF RequestsInv
<1>6. \A d, r : r \in Requests => Agrees(request[r], d)
  BY <1>4, NoRequestIs DEF Agrees, About
<1>7. OwedInv
  BY <1>2, <1>4, NoRequestIs, NoneFacts DEF OwedInv
<1>8. \A r \in Requests : InHand(request[r])
  BY <1>4, NoRequestIs DEF InHand
<1>9. CASE \E unregistered \in {{}, Pairs} : Fresh(unregistered, c0)
  <2>1. PICK unregistered : Fresh(unregistered, c0)
    BY <1>9
  <2>2. /\ tenants = {} /\ definitions = [d \in Definitions |-> None] /\ template.id = 0 /\ lastId = 0
        /\ rows = [p \in Pairs |-> None]
        /\ kafka = [i \in Instances |-> [p \in Pairs |-> IF p \in unregistered THEN c0 ELSE None]]
    BY <2>1 DEF Fresh, NoTemplate
  <2>3. TablesInv /\ TenantsInv
    BY <1>1, <1>2, <1>3, <2>2 DEF TablesInv, TenantsInv
  <2>4. SettledInv
    BY <1>6, <2>2 DEF SettledInv, Served
  <2>5. TemplateInv
    BY <2>2 DEF TemplateInv, Calm
  <2> QED
    BY <1>5, <1>7, <2>3, <2>4, <2>5 DEF IInv
<1>10. CASE Deployed(i0, d0, t0, c0)
  <2> DEFINE p0 == <<d0, t0>>
             row0 == [instance |-> i0, template |-> 1, configs |-> c0, dirty |-> FALSE]
             def0 == [template |-> TRUE, configs |-> c0]
  <2>1. /\ tenants = {t0} /\ template.id = 1 /\ template.configs = c0 /\ lastId = 1
        /\ definitions = [e \in Definitions |-> IF e = d0 THEN def0 ELSE None]
        /\ rows = [p \in Pairs |-> IF p = p0 THEN row0 ELSE None]
        /\ kafka = [j \in Instances |-> [p \in Pairs |-> IF j = i0 /\ p = p0 THEN c0 ELSE None]]
    BY <1>10 DEF Deployed
  <2>2. /\ row0 \in Row /\ def0 \in DefinitionType /\ p0 \in Pairs /\ p0[1] = d0 /\ p0[2] = t0
        /\ row0.instance = i0 /\ row0.template = 1 /\ row0.configs = c0
    BY <1>1 DEF Row, DefinitionType, Pairs
  <2> HIDE DEF row0, def0
  <2>3. TablesInv /\ TenantsInv
    BY <1>1, <1>2, <1>3, <2>1, <2>2 DEF TablesInv, TenantsInv
  <2>4. Has(rows[p0], p0, c0)
    BY <1>1, <2>1, <2>2, NoneFacts DEF Has, Meets
  <2>5. SettledInv
    <3>1. ASSUME NEW d \in settled \ lazy
          PROVE  Served(d)
      <4>1. <<d, t0>> \in Pairs /\ (d # d0 => <<d, t0>> # p0)
        BY <1>1, <1>2, <2>2, PairFacts
      <4>2. CASE d = d0
        <5>1. HasTopic(<<d, t0>>)
          BY <1>1, <2>1, <2>2, <2>4, <4>2, NoneFacts DEF HasTopic, Has
        <5>2. definitions[d] # None
          BY <1>1, <2>1, <2>2, <4>2, NoneFacts
        <5> QED
          BY <2>1, <5>1, <5>2 DEF Served
      <4>3. CASE d # d0
        <5>1. definitions[d] = None /\ rows[<<d, t0>>] = None
          BY <1>2, <2>1, <4>1, <4>3
        <5> QED
          BY <2>1, <5>1 DEF Served
      <4> QED
        BY <4>2, <4>3
    <3> QED
      BY <1>6, <3>1 DEF SettledInv
  <2>6. TemplateInv
    <3>1. \A p \in Linked(template.id) : p = p0
      BY <2>1 DEF Linked
    <3> QED
      BY <1>8, <2>1, <2>4, <3>1 DEF TemplateInv
  <2> QED
    BY <1>5, <1>7, <2>3, <2>5, <2>6 DEF IInv
<1> QED
  BY <1>2, <1>9, <1>10

LEMMA RequestsKeep ==
    ASSUME IInv, defaults \subseteq Instances, NEW r \in Requests,
           \/ \E ts \in SUBSET Tenants \ {{}} : SyncTenants(r, ts)
           \/ ReadDefinitions(r)
           \/ \E t \in Tenants : InsertTenant(r, t)
           \/ \E s \in Requests : BreakDeadlock(r, s)
           \/ CommitTenants(r)
           \/ \E p \in Pairs : Resolve(r, p)
           \/ CreateTopic(r)
           \/ RefuseTopic(r)
           \/ \E d \in Definitions, def \in DefinitionType : ApplyTopicDefinition(r, d, def)
           \/ InsertDefinition(r)
           \/ UpdateDefinition(r)
           \/ \E d \in Definitions : ForgetDefinition(r, d)
           \/ \E d \in Definitions : DeleteTenantTopic(r, d)
           \/ ReadTenants(r)
           \/ \E p \in Pairs : DeletePair(r, p)
           \/ Answer(r)
           \/ \E d \in Definitions, t \in Tenants : GetOrCreateLazyTopic(r, d, t)
           \/ CompatibleLazyTopic(r)
           \/ \E c \in Configs : ApplyTopicTemplate(r, c)
           \/ SameTemplate(r)
           \/ InsertTemplate(r)
           \/ SearchTopics(r)
           \/ MakeTopicsDirty(r)
           \/ \E p \in Pairs : UpdateTopicSettings(r, p)
           \/ UpdateTemplate(r)
           \/ DropTemplate(r)
           \/ DeleteTemplate(r)
           \/ CleanupNamespace(r)
           \/ \E p \in Pairs : CleanTopic(r, p)
           \/ CommitCleanup(r)
           \/ Fail(r)
    PROVE  IInv'
<1>1. CASE \/ \E ts \in SUBSET Tenants \ {{}} : SyncTenants(r, ts)
           \/ \E d \in Definitions, def \in DefinitionType : ApplyTopicDefinition(r, d, def)
           \/ \E d \in Definitions : ForgetDefinition(r, d)
           \/ \E d \in Definitions : DeleteTenantTopic(r, d)
           \/ \E d \in Definitions, t \in Tenants : GetOrCreateLazyTopic(r, d, t)
           \/ \E c \in Configs : ApplyTopicTemplate(r, c)
           \/ DropTemplate(r)
           \/ CleanupNamespace(r)
  BY <1>1, SyncTenantsKeeps, ApplyTopicDefinitionKeeps, UndefineKeeps, GetOrCreateLazyTopicKeeps,
     ApplyTopicTemplateKeeps, DropTemplateKeeps, CleanupNamespaceKeeps
<1>2. CASE \/ ReadDefinitions(r)
           \/ \E t \in Tenants : InsertTenant(r, t)
           \/ \E p \in Pairs : Resolve(r, p)
           \/ ReadTenants(r)
           \/ CompatibleLazyTopic(r)
           \/ SearchTopics(r)
  BY <1>2, ReadDefinitionsKeeps, InsertTenantKeeps, ResolveKeeps, ReadTenantsKeeps, CompatibleLazyTopicKeeps,
     SearchTopicsKeeps
<1>3. CASE \/ CreateTopic(r)
           \/ InsertDefinition(r)
           \/ UpdateDefinition(r)
           \/ \E p \in Pairs : DeletePair(r, p)
           \/ MakeTopicsDirty(r)
           \/ \E p \in Pairs : UpdateTopicSettings(r, p)
           \/ \E p \in Pairs : CleanTopic(r, p)
  BY <1>3, CreateTopicKeeps, DefinedKeeps, DeletePairKeeps, MakeTopicsDirtyKeeps, UpdateTopicSettingsKeeps,
     CleanTopicKeeps
<1>4. CASE \/ CommitTenants(r)
           \/ Answer(r)
           \/ SameTemplate(r)
           \/ InsertTemplate(r)
           \/ UpdateTemplate(r)
           \/ DeleteTemplate(r)
           \/ CommitCleanup(r)
  BY <1>4, CommitTenantsKeeps, AnswerKeeps, SameTemplateKeeps, InsertTemplateKeeps, UpdateTemplateKeeps,
     DeleteTemplateKeeps, CommitCleanupKeeps
<1>5. CASE RefuseTopic(r) \/ Fail(r) \/ \E s \in Requests : BreakDeadlock(r, s)
  BY <1>5, FailKeeps
<1> QED
  BY <1>1, <1>2, <1>3, <1>4, <1>5

LEMMA NextKeepsTopics == IInv /\ InstancesInv /\ [Next]_vars => IInv'
<1> SUFFICES ASSUME IInv, InstancesInv, [Next]_vars PROVE IInv'
  OBVIOUS
<1>1. defaults \subseteq Instances /\ instances \subseteq Instances
  BY DEF InstancesInv, InstancesType
<1>2. designator \in Instances \cup {None}
  BY DEF IInv, TablesInv
<1>3. CASE UNCHANGED vars
  BY <1>2, <1>3, ManagersKeep DEF vars, instanceVars
<1>4. CASE UNCHANGED topicVars /\ UNCHANGED designator
  BY <1>2, <1>4, ManagersKeep
<1>5. ASSUME NEW m \in Managers, NEW r \in Replicas, NEW i \in Instances, NEW default \in BOOLEAN,
             \/ Register(m, r, i, default) \/ Update(m, r, i, default) \/ SetDefault(m, r, i)
             \/ Remove(m, r, i) \/ Deploy(m, r, i, default)
      PROVE  UNCHANGED designator
  BY <1>5 DEF Register, Update, SetDefault, Remove, Deploy, Begin, registry
<1>6. ASSUME NEW m \in Managers,
             \/ DeployInstance(m) \/ ClearDefaults(m) \/ CommitSave(m) \/ CommitDefault(m)
             \/ CommitRemove(m, InUse) \/ RefuseChange(m, InUse) \/ Tell(m)
      PROVE  UNCHANGED designator
  BY <1>6 DEF DeployInstance, ClearDefaults, CommitSave, CommitDefault, CommitRemove, RefuseChange, Tell,
              Committed, registry
<1>7. ASSUME NEW r \in Replicas, ReadBrokerList(r) \/ StoreBrokerList(r)
      PROVE  UNCHANGED designator
  BY <1>7 DEF ReadBrokerList, StoreBrokerList, registry
<1>8. ASSUME NEW i \in Instances \cup {None}, PutDesignator(i), UNCHANGED topicVars
      PROVE  IInv'
  BY <1>8, ManagersKeep DEF PutDesignator
<1>9. CASE Rest
  BY <1>3, <1>9 DEF Rest
<1>10. CASE Next
  <2>1. CASE \/ \E i \in Instances \cup {None} : PutDesignator(i) /\ UNCHANGED topicVars
             \/ \E r \in Replicas : ReadBrokerList(r) /\ UNCHANGED topicVars
             \/ \E r \in Replicas : StoreBrokerList(r) /\ UNCHANGED topicVars
             \/ Rest
    BY <1>4, <1>7, <1>8, <1>9, <2>1
  <2>2. ASSUME NEW m \in Managers,
               \/ \E r \in Replicas, i \in Instances, default \in BOOLEAN :
                     Register(m, r, i, default) /\ UNCHANGED topicVars
               \/ \E r \in Replicas, i \in Instances, default \in BOOLEAN :
                     Update(m, r, i, default) /\ UNCHANGED topicVars
               \/ \E r \in Replicas, i \in Instances : SetDefault(m, r, i) /\ UNCHANGED topicVars
               \/ \E r \in Replicas, i \in Instances : Remove(m, r, i) /\ UNCHANGED topicVars
               \/ \E r \in Replicas, i \in Instances, default \in BOOLEAN :
                     Deploy(m, r, i, default) /\ UNCHANGED topicVars
        PROVE  IInv'
    BY <1>4, <1>5, <2>2
  <2>3. ASSUME NEW m \in Managers,
               \/ DeployInstance(m) /\ UNCHANGED topicVars
               \/ ClearDefaults(m) /\ UNCHANGED topicVars
               \/ CommitSave(m) /\ UNCHANGED topicVars
               \/ CommitDefault(m) /\ UNCHANGED topicVars
               \/ CommitRemove(m, InUse) /\ UNCHANGED topicVars
               \/ RefuseChange(m, InUse) /\ UNCHANGED topicVars
               \/ Tell(m) /\ UNCHANGED topicVars
        PROVE  IInv'
    BY <1>4, <1>6, <2>3
  <2> QED
    BY <1>1, <1>10, <2>1, <2>2, <2>3, RequestsKeep DEF Next
<1> QED
  BY <1>3, <1>10

\* The invariant from which the properties of the topics follow.
THEOREM TopicsInductive == Spec => []IInv
BY InitIInv, NextKeepsTopics, Inductive, PTL DEF Spec

\* After a request about a tenant topic that ran alone and succeeded, every
\* tenant has the topic in the database and in Kafka, or none has it, whatever
\* the requests for tenants, for templates and for instances do that overlap.
THEOREM TenantsHaveTheirTopics == Spec => []EveryTenantHasItsTopics
<1>1. IInv => EveryTenantHasItsTopics
  <2>1. IInv => \A d \in settled \ lazy : Served(d)
    BY DEF IInv, SettledInv
  <2> QED
    BY <2>1 DEF Served, HasTopic, EveryTenantHasItsTopics
<1> QED
  BY <1>1, TopicsInductive, PTL

\* After a change of the template that ran alone and succeeded all of its topics
\* have its settings, in the database and on Kafka, until a request for one of
\* them fails between the two; also when the change repeats one that had stopped
\* halfway, or with a topic changed on Kafka alone.
THEOREM ChangesReachTopics == Spec => []TemplateReachesTopics
<1>1. IInv => TemplateReachesTopics
  BY DEF IInv, TemplateInv, Calm, Early, Has, TemplateReachesTopics
<1> QED
  BY <1>1, TopicsInductive, PTL
=============================================================================
