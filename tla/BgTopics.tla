------------------------------ MODULE BgTopics ------------------------------
(***************************************************************************)
(* Kafka topics under the operations of a blue-green domain: an origin and *)
(* a peer namespace, of which one is active, whose roles the BG controller *)
(* changes by warm-up, promote, rollback and commit, while services of the *)
(* live namespaces keep registering topics.                                *)
(*                                                                         *)
(* Every operation, and the clean-up of a namespace, is one database       *)
(* transaction around many steps.  What it does to Kafka happens at once   *)
(* and stays when the transaction is rolled back.  A failed step inside it *)
(* has no savepoint to go back to.                                         *)
(*                                                                         *)
(* A registration is identified by its classifier, a topic by its name and *)
(* the namespace its name was resolved with.  The operations run one at a  *)
(* time; a service's getOrCreate is atomic here (KafkaTopics has its steps)*)
(* and waits while the operation has uncommitted changes of that name.     *)
(* The controller's namespace, instances, settings other than versioned,   *)
(* templates and definitions are left out, as are the Rabbit steps: each   *)
(* of them can only fail the operation, as Lose does before any step.      *)
(***************************************************************************)
EXTENDS Naturals, FiniteSets

CONSTANTS
    Names,        \* the names in topic classifiers
    Flags,        \* Flags[n]: what services declare as versioned for name n
    Fixed,        \* names whose topics are requested under one fixed name, that
                  \* of no namespace
    Origin, Peer, \* the namespaces of the domain
    Operations,   \* the operations that are requested
    MaxLosses     \* bound on failed requests

Namespaces == {Origin, Peer}

Other(ns) == IF ns = Origin THEN Peer ELSE Origin

Classifiers == Names \X Namespaces

NameOf(c) == c[1]

NamespaceOf(c) == c[2]

\* The same classifier in the other namespace of the domain.
Sibling(c) == <<c[1], Other(c[2])>>

Topics == Names \X Namespaces

Row == [cls : Classifiers, topic : Topics, versioned : BOOLEAN]

Claims == Classifiers \X Classifiers  \* a classifier, and the row it leads to

Roles == [Namespaces -> {"active", "idle", "candidate", "legacy"}]

BgOperations == {"warmup", "promote", "rollback", "commit", "destroy"}

Steps == {"none", "validate", "clone", "list", "copy", "drop", "check", "save", "failed"}

ASSUME BgAssumption ==
    /\ Origin # Peer
    /\ Flags \in [Names -> SUBSET BOOLEAN]
    /\ Fixed \subseteq Names
    /\ Operations \subseteq BgOperations \cup {"cleanup"}
    /\ MaxLosses \in Nat

VARIABLES
    bound,     \* the row of bg_domains is there
    recorded,  \* the newest row of bg_states; "idle" everywhere when none
    roles,     \* the roles as the BG controller knows them
    regs,      \* committed rows of kafka_topics
    claims,    \* committed rows of kafka_topic_classifiers
    kafka,     \* the topics that exist on Kafka
    job,       \* the operation in progress
    losses     \* failed requests so far

vars == <<bound, recorded, roles, regs, claims, kafka, job, losses>>

Unknown == [ns \in Namespaces |-> "idle"]

NoJob == [op |-> "none", step |-> "none", to |-> Unknown, ns |-> Origin,
          left |-> {}, listed |-> {}, touched |-> {}, regs |-> {}, claims |-> {},
          failed |-> FALSE]

Job == [op : {"none", "cleanup"} \cup BgOperations, step : Steps, to : Roles,
        ns : Namespaces,           \* the namespace to clean up
        left : SUBSET Row,         \* found by the search and not yet handled
        listed : SUBSET Row,       \* found by the search
        touched : SUBSET Names,    \* names the transaction has changes of
        regs : SUBSET Row,         \* their rows and claims, not committed
        claims : SUBSET Claims,
        failed : BOOLEAN]          \* some deletion has failed

-----------------------------------------------------------------------------
(* The tables: as services see them, and as the transaction sees them.     *)

Untouched(rows) == {r \in rows : NameOf(r.cls) \notin job.touched}

ViewRegs == Untouched(regs) \cup job.regs

ViewClaims == {c \in claims : NameOf(c[1]) \notin job.touched} \cup job.claims

\* A search by classifier, and one by namespace, which finds a row by any of
\* the classifiers that lead to it.
Matches(rows, links, c) == {r \in rows : r.cls = c \/ <<c, r.cls>> \in links}

InNamespace(rows, links, ns) ==
    {r \in rows : NamespaceOf(r.cls) = ns \/ \E c \in links : c[2] = r.cls /\ NamespaceOf(c[1]) = ns}

Taken(rows, row) == \E r \in rows : r.cls = row.cls \/ r.topic = row.topic

Claimed(links, c) == \E r \in Classifiers : <<c, r>> \in links

\* The namespaces as the state in the request orders them.
ActiveOf(state) == IF state[Origin] = "active" THEN Origin ELSE Peer

NotActiveOf(state) == IF state[Origin] # "active" THEN Origin ELSE Peer

\* Names of versioned topics take the namespace of the classifier, all others
\* the domain's origin.  A fixed name is the same whoever asks.
ResolvedTopic(c, versioned) ==
    <<NameOf(c), IF NameOf(c) \notin Fixed /\ (versioned \/ ~bound) THEN NamespaceOf(c) ELSE Origin>>

Init ==
    /\ bound = FALSE
    /\ recorded = Unknown
    /\ roles = [Unknown EXCEPT ![Origin] = "active"]
    /\ regs = {} /\ claims = {} /\ kafka = {}
    /\ job = NoJob
    /\ losses = 0

-----------------------------------------------------------------------------
(* Services of the live namespaces                                         *)

\* The classifiers that lead to a new row.
NewClaims(c, versioned) ==
    {<<c, c>>} \cup IF versioned \/ ~bound THEN {} ELSE {<<Sibling(c), c>>}

CreateTopic(c, versioned) ==
    LET row == [cls |-> c, topic |-> ResolvedTopic(c, versioned), versioned |-> versioned]
        new == NewClaims(c, versioned)
    IN
    /\ Matches(regs, claims, c) = {}
    /\ ~Taken(regs, row)
    /\ \A n \in new : ~Claimed(claims, n[1])
    /\ regs' = regs \cup {row}
    /\ claims' = claims \cup new
    /\ kafka' = kafka \cup {row.topic}

\* The row's flag follows the request; its classifiers stay as they are.
UpdateTopic(c, versioned) ==
    /\ \E r \in Matches(regs, claims, c) :
          /\ r.versioned # versioned
          /\ r.topic \in kafka
          /\ regs' = (regs \ {r}) \cup {[r EXCEPT !.versioned = versioned]}
    /\ UNCHANGED <<claims, kafka>>

GetOrCreateTopic(c, versioned) ==
    /\ roles[NamespaceOf(c)] # "idle"
    /\ versioned \in Flags[NameOf(c)]
    /\ NameOf(c) \notin job.touched
    /\ CreateTopic(c, versioned) \/ UpdateTopic(c, versioned)
    /\ UNCHANGED <<bound, recorded, roles, job, losses>>

-----------------------------------------------------------------------------
(* The BG controller and the operator: what they request                   *)

InitDomain ==
    /\ job.op = "none"
    /\ ~bound /\ bound' = TRUE
    /\ UNCHANGED <<recorded, roles, regs, claims, kafka, job, losses>>

\* The roles after an operation, for each ns that may ask for it.
Requested(op, ns) ==
    CASE op = "warmup"   -> [roles EXCEPT ![ns] = "candidate"]
      [] op \in {"promote", "rollback"} ->
            [roles EXCEPT ![ns] = "active",
                          ![Other(ns)] = IF op = "promote" THEN "legacy" ELSE "candidate"]
      [] op = "commit"   -> [roles EXCEPT ![ns] = "idle"]
      [] OTHER           -> roles

\* What the role of ns, next to an active namespace, allows.
Allowed(op, ns) ==
    \/ op = "cleanup"
    \/ /\ bound /\ roles[Other(ns)] = "active"
       /\ roles[ns] \in CASE op = "warmup"   -> {"idle"}
                          [] op = "promote"  -> {"candidate"}
                          [] op = "rollback" -> {"legacy"}
                          [] op = "commit"   -> {"candidate", "legacy"}
                          [] op = "destroy"  -> {"idle"}
                          [] OTHER           -> {}

FirstStep(op) == IF op = "cleanup" THEN "list" ELSE "validate"

Request(op, ns) ==
    /\ job.op = "none"
    /\ Allowed(op, ns)
    /\ job' = [NoJob EXCEPT !.op = op, !.step = FirstStep(op), !.ns = ns,
                            !.to = Requested(op, ns)]
    /\ UNCHANGED <<bound, recorded, roles, regs, claims, kafka, losses>>

\* A failed operation is requested again, as it was.
Retry ==
    /\ job.step = "failed"
    /\ job' = [job EXCEPT !.step = FirstStep(job.op)]
    /\ UNCHANGED <<bound, recorded, roles, regs, claims, kafka, losses>>

-----------------------------------------------------------------------------
(* The steps of an operation, in one transaction                           *)

At(step) == job.step = step

\* The transaction is rolled back; the request stays to be repeated.
Failed == [NoJob EXCEPT !.op = job.op, !.step = "failed", !.ns = job.ns, !.to = job.to]

\* The transaction leaves these rows and claims of the name n.
Write(n, rows, links) ==
    LET names == job.touched \cup {n} IN
    [job EXCEPT !.touched = names,
                !.regs = {r \in rows : NameOf(r.cls) \in names},
                !.claims = {c \in links : NameOf(c[1]) \in names}]

Unchanged == UNCHANGED <<bound, recorded, roles, regs, claims, losses>>

\* A domain that is not there is refused, as is the end of one with topics:
\* the controller takes that for an answer.
ValidateDomain ==
    /\ At("validate")
    /\ job' = IF ~bound THEN NoJob
              ELSE [job EXCEPT !.step = CASE job.op = "warmup"  -> "clone"
                                          [] job.op = "commit"  -> "list"
                                          [] job.op = "destroy" -> "check"
                                          [] OTHER              -> "save"]
    /\ UNCHANGED kafka /\ Unchanged

CheckEmpty ==
    /\ At("check")
    /\ job' = IF InNamespace(regs, claims, Origin) \cup InNamespace(regs, claims, Peer) = {}
              THEN [job EXCEPT !.step = "save"]
              ELSE NoJob
    /\ UNCHANGED kafka /\ Unchanged

\* Mutant: only rows of the origin get the classifier they lack.
MissingPeerClaims ==
    {m \in Classifiers \X Classifiers : \E r \in regs :
        /\ ~r.versioned /\ m[2] = r.cls /\ m[1] = <<NameOf(r.cls), Peer>>
        /\ <<<<NameOf(r.cls), Origin>>, r.cls>> \in claims /\ <<m[1], r.cls>> \notin claims}

\* The claims that unversioned rows lack: the row's classifier in one
\* namespace of the domain, where they have one in the other.
MissingClaims ==
    {m \in Claims : \E r \in regs :
        /\ ~r.versioned /\ m[2] = r.cls /\ NameOf(m[1]) = NameOf(r.cls)
        /\ \E c \in claims : c[2] = r.cls /\ NamespaceOf(c[1]) = Other(NamespaceOf(m[1]))
        /\ \A c \in claims : c[2] = r.cls => NamespaceOf(c[1]) # NamespaceOf(m[1])}

CloneClaims ==
    /\ At("clone")
    /\ job' = IF \E m \in MissingClaims : Claimed(claims, m[1]) THEN Failed
              ELSE LET names == {NameOf(m[1]) : m \in MissingClaims} IN
                   [job EXCEPT
                      !.step = "list", !.touched = names,
                      !.regs = {r \in regs : NameOf(r.cls) \in names},
                      !.claims = {c \in claims : NameOf(c[1]) \in names} \cup MissingClaims]
    /\ UNCHANGED kafka /\ Unchanged

\* Mutant: the commit's search leaves out the versioned flag.
ListedUnfiltered ==
    CASE job.op = "warmup"  -> {r \in InNamespace(ViewRegs, ViewClaims, ActiveOf(job.to)) : r.versioned}
      [] job.op = "commit"  -> InNamespace(ViewRegs, ViewClaims, NotActiveOf(job.to))
      [] job.op = "cleanup" -> InNamespace(ViewRegs, ViewClaims, job.ns)

\* Warm-up takes the versioned topics of the active namespace, commit those of
\* the other one, and a clean-up all topics of its namespace.
Listed ==
    CASE job.op = "warmup"  -> {r \in InNamespace(ViewRegs, ViewClaims, ActiveOf(job.to)) : r.versioned}
      [] job.op = "commit"  -> {r \in InNamespace(ViewRegs, ViewClaims, NotActiveOf(job.to)) : r.versioned}
      [] job.op = "cleanup" -> InNamespace(ViewRegs, ViewClaims, job.ns)

ListTopics ==
    /\ At("list")
    /\ job' = [job EXCEPT !.left = Listed, !.listed = Listed,
                          !.step = IF job.op = "warmup" THEN "copy" ELSE "drop"]
    /\ UNCHANGED kafka /\ Unchanged

\* Mutants: the classifier keeps its namespace, so that the topic itself is
\* found; the copy is asked for with on-entity-exists fail.
CopyOntoItself(r) ==
    /\ job' = IF r.topic \in kafka THEN [job EXCEPT !.left = @ \ {r}] ELSE Failed
    /\ UNCHANGED kafka

CopyOrFail(r) ==
    LET c == <<NameOf(r.cls), NotActiveOf(job.to)>>
        row == [cls |-> c, topic |-> ResolvedTopic(c, TRUE), versioned |-> TRUE]
    IN
    IF Matches(ViewRegs, ViewClaims, c) # {}
       THEN job' = [job EXCEPT !.left = @ \ {r}] /\ UNCHANGED kafka
       ELSE IF row.topic \in kafka THEN job' = Failed /\ UNCHANGED kafka
       ELSE /\ job' = [Write(NameOf(c), ViewRegs \cup {row}, ViewClaims \cup {<<c, c>>})
                          EXCEPT !.left = @ \ {r}]
            /\ kafka' = kafka \cup {row.topic}

\* getOrCreate of the listed topic with the other namespace in its classifier;
\* a topic that is on Kafka already is merged with.  One with a fixed name
\* cannot have a copy, and fails the warm-up each time.
CopyTopic(r) ==
    LET c == <<NameOf(r.cls), NotActiveOf(job.to)>>
        row == [cls |-> c, topic |-> ResolvedTopic(c, TRUE), versioned |-> TRUE]
        found == Matches(ViewRegs, ViewClaims, c)
        rest == job.left \ {r}
    IN
    \/ NameOf(c) \in Fixed /\ job' = Failed /\ UNCHANGED kafka
    \/ \E e \in found :
          /\ NameOf(c) \notin Fixed
          /\ job' = IF e.topic \notin kafka THEN Failed
                    ELSE IF e.versioned THEN [job EXCEPT !.left = rest]
                    ELSE [Write(NameOf(c), (ViewRegs \ {e}) \cup {[e EXCEPT !.versioned = TRUE]},
                                ViewClaims) EXCEPT !.left = rest]
          /\ UNCHANGED kafka
    \/ /\ found = {} /\ NameOf(c) \notin Fixed
       /\ IF Taken(ViewRegs, row) \/ Claimed(ViewClaims, c)
             THEN job' = Failed /\ UNCHANGED kafka
             ELSE /\ job' = [Write(NameOf(c), ViewRegs \cup {row}, ViewClaims \cup {<<c, c>>})
                                EXCEPT !.left = rest]
                  /\ kafka' = kafka \cup {row.topic}

CopyVersionedTopics ==
    /\ At("copy") /\ job.left # {}
    /\ \E r \in job.left : CopyTopic(r)
    /\ Unchanged

\* Mutants: the claims stay; a failed deletion on Kafka puts the row back.
DeleteWithoutClaims(r) ==
    /\ job' = [Write(NameOf(r.cls), {s \in ViewRegs : s.cls # r.cls}, ViewClaims)
                  EXCEPT !.left = @ \ {r}]
    /\ kafka' = kafka \ {r.topic}
    /\ UNCHANGED losses

DeleteFromSavepoint(r) ==
    \/ /\ job' = [Write(NameOf(r.cls), {s \in ViewRegs : s.cls # r.cls},
                        {c \in ViewClaims : c[2] # r.cls}) EXCEPT !.left = @ \ {r}]
       /\ kafka' = kafka \ {r.topic}
       /\ UNCHANGED losses
    \/ /\ losses < MaxLosses /\ losses' = losses + 1
       /\ job' = [job EXCEPT !.left = @ \ {r}, !.failed = TRUE]
       /\ kafka' \in {kafka, kafka \ {r.topic}}

\* The row goes with its claims.  The deletion on Kafka may fail, or be done
\* without an answer: the loop goes on, and the row is not put back.
DeleteTopic(r) ==
    LET without == Write(NameOf(r.cls), {s \in ViewRegs : s.cls # r.cls},
                         {c \in ViewClaims : c[2] # r.cls})
    IN
    \/ /\ job' = [without EXCEPT !.left = @ \ {r}]
       /\ kafka' = kafka \ {r.topic}
       /\ UNCHANGED losses
    \/ /\ losses < MaxLosses /\ losses' = losses + 1
       /\ job' = [without EXCEPT !.left = @ \ {r}, !.failed = TRUE]
       /\ kafka' \in {kafka, kafka \ {r.topic}}

DeleteTopics ==
    /\ At("drop") /\ job.left # {}
    /\ \E r \in job.left : DeleteTopic(r)
    /\ UNCHANGED <<bound, recorded, roles, regs, claims>>

\* After the loop: a clean-up fails when a deletion has failed, a commit does not.
LoopDone ==
    /\ job.step \in {"copy", "drop"} /\ job.left = {}
    /\ job' = IF job.op = "cleanup" /\ job.failed THEN Failed
                                                 ELSE [job EXCEPT !.step = "save"]
    /\ UNCHANGED kafka /\ Unchanged

\* The transaction commits; the answer may be lost on its way.
Save ==
    /\ At("save")
    /\ regs' = ViewRegs
    /\ claims' = ViewClaims
    /\ bound' = (bound /\ job.op # "destroy")
    /\ recorded' = CASE job.op = "cleanup" -> recorded
                     [] job.op = "destroy" -> Unknown
                     [] OTHER              -> job.to
    /\ \/ roles' = job.to /\ job' = NoJob /\ UNCHANGED losses
       \/ /\ losses < MaxLosses /\ losses' = losses + 1
          /\ job' = Failed /\ UNCHANGED roles
    /\ UNCHANGED kafka

\* An error or a crash before any step.
Lose ==
    /\ job.step \notin {"none", "failed"}
    /\ losses < MaxLosses /\ losses' = losses + 1
    /\ job' = Failed
    /\ UNCHANGED <<bound, recorded, roles, regs, claims, kafka>>

Serve ==
    \/ ValidateDomain \/ CheckEmpty \/ CloneClaims \/ ListTopics
    \/ CopyVersionedTopics \/ DeleteTopics \/ LoopDone \/ Save

Next ==
    \/ \E c \in Classifiers, v \in BOOLEAN : GetOrCreateTopic(c, v)
    \/ InitDomain
    \/ \E op \in Operations, ns \in Namespaces : Request(op, ns)
    \/ Serve \/ Retry \/ Lose

Spec == Init /\ [][Next]_vars

\* A request that was accepted is served, and a failed one is repeated.
FairSpec == Spec /\ WF_vars(Serve \/ Retry)

-----------------------------------------------------------------------------
(* Properties                                                              *)

\* Services agree whether topics of this name are versioned.  When they change
\* their mind the row's flag changes and its classifiers do not, and neither
\* promise of the domain is kept.
Steady(r) == Flags[NameOf(r.cls)] # BOOLEAN

\* Every variable keeps its type, no two rows share a classifier or a topic,
\* and a classifier leads to one row, which is there.
TypeOK ==
    /\ bound \in BOOLEAN
    /\ recorded \in Roles /\ roles \in Roles
    /\ regs \subseteq Row /\ claims \subseteq Claims /\ kafka \subseteq Topics
    /\ job \in Job
    /\ losses \in 0..MaxLosses
    /\ \A r, s \in regs : r.cls = s.cls \/ r.topic = s.topic => r = s
    /\ \A c, d \in claims : c[1] = d[1] => c = d
    /\ \A c \in claims : \E r \in regs : r.cls = c[2]

\* While both namespaces are live, every unversioned topic is found from both,
\* whenever and for whichever of them it was registered.
CandidateSeesTopics ==
    \A r \in regs :
        (Steady(r) /\ ~r.versioned /\ \A ns \in Namespaces : recorded[ns] # "idle")
            => {<<r.cls, r.cls>>, <<Sibling(r.cls), r.cls>>} \subseteq claims

\* No operation of the domain, also one that fails or is repeated, removes a
\* topic that the active namespace has registered.
ActiveKeepsTopics ==
    [][job.op \in BgOperations =>
          \A r \in InNamespace(regs, claims, ActiveOf(roles)) :
              Steady(r) /\ r.topic \in kafka => r.topic \in kafka']_vars

\* A warm-up about to commit has a registration of its own, with a topic that
\* is on Kafka, for each versioned topic the active namespace had.
WarmupClones ==
    (job.op = "warmup" /\ job.step = "save") =>
        \A r \in job.listed : Steady(r) => \E s \in ViewRegs :
            /\ s.cls = <<NameOf(r.cls), NotActiveOf(job.to)>>
            /\ s.topic \in kafka /\ s.topic # r.topic

\* Between operations every registered topic is on Kafka, even when earlier
\* attempts deleted topics and were rolled back.
SettledRowsHaveTopics == job.op = "none" => \A r \in regs : Steady(r) => r.topic \in kafka

\* A warm-up that is repeated until it succeeds does succeed, whatever its
\* failed attempts have left on Kafka, unless two rows want one classifier, or
\* the active namespace has a versioned topic with a fixed name.
WarmupDone ==
    (job.op = "warmup" /\ bound)
        ~> \/ \E ns \in Namespaces : roles[ns] = "candidate"
           \/ \E r \in regs, c \in claims : ~r.versioned /\ c[1] = Sibling(r.cls) /\ c[2] # r.cls
           \/ \E r \in regs, c \in claims :
                 /\ r.versioned /\ NameOf(r.cls) \in Fixed
                 /\ c[2] = r.cls /\ NamespaceOf(c[1]) = ActiveOf(roles)

\* The clean-up of one namespace leaves the topics that were registered from
\* the other ("if you delete the peer namespace, the topic will still be
\* available in the origin namespace").
CleanupKeepsOthersTopics ==
    [][job.op = "cleanup" =>
          \A r \in regs : NamespaceOf(r.cls) # job.ns /\ r.topic \in kafka
                             => r.topic \in kafka']_vars
=============================================================================
