-------------------------- MODULE CustomResources --------------------------
(***************************************************************************)
(* Custom resources of one namespace, and the list of those that wait.     *)
(*                                                                         *)
(* A topic that names a topic template which is not there yet is put on    *)
(* the wait list (custom_resource_waits) and answered "accepted".  Every   *)
(* apply that succeeds runs the waiting resources once more, then takes    *)
(* its own resource off the list.  No transaction spans an apply: each     *)
(* look at the templates, each registration and each update of the list    *)
(* commits by itself, and requests on all replicas interleave between.     *)
(***************************************************************************)
EXTENDS FiniteSets, Naturals

CONSTANTS
    Requests,     \* requests, over all replicas
    Names,        \* names of topics and templates
    Loads,        \* installations, and what is asked of them
    NoTemplate,   \* the topic names no template
    Absent,       \* no such topic
    NoRow,        \* no waiting resource at hand
    NoCall        \* no request

Resource == [kind : {"Topic", "TopicTemplate"}, name : Names,
             template : Names \cup {NoTemplate}]

\* A row of the list is identified by the request that inserted it.
Call == [op : {"create", "delete"}, cr : Resource]
        \cup [op : {"terminate"}, id : Requests]
        \cup [op : {"cleanup"}]

\* The setting of production.mode, what each request may ask for, the bound on
\* the requests that are served at the same time, and whether a replica may die
\* while it serves one.
ASSUME InputAssumption ==
    \A l \in Loads :
        /\ l.prodMode \in BOOLEAN /\ l.lossy \in BOOLEAN /\ l.maxActive \in Nat
        /\ l.calls \in [Requests -> SUBSET Call]

ASSUME DistinctAssumption ==
    NoTemplate \notin Names /\ Absent \notin Names \cup {NoTemplate} /\ NoCall \notin Call

VARIABLES
    load,      \* the installation
    call,      \* call[p]: what request p asks for
    pc,        \* pc[p]: the next step of request p
    todo,      \* todo[p]: waiting rows as p has read them, not yet looked at
    cur,       \* cur[p]: the waiting row p is running, NoRow for its own resource
    res,       \* res[p]: the outcome of p
    templates, \* topic templates
    topics,    \* topics[n]: the template that topic n is registered with
    waits      \* the wait list

vars == <<load, call, pc, todo, cur, res, templates, topics, waits>>

requestVars == <<call, pc, todo, cur, res>>

Statuses == {"IN_PROGRESS", "COMPLETED", "FAILED", "TERMINATED"}

Row == [id : Requests, cr : Resource, status : Statuses]

ASSUME NoRowAssumption == NoRow \notin Row

Steps == {"idle", "check", "exec", "wait", "scan", "pick", "fail", "complete",
          "dequeue", "terminate", "cleanup", "done"}

Results == {"none", "ok", "accepted", "error", "lost"}

Active == {p \in Requests : pc[p] \notin {"idle", "done"}}

\* The resource that p is running: its own one, or a waiting one.
Subject(p) == IF cur[p] = NoRow THEN call[p].cr ELSE cur[p].cr

Creates(p) == cur[p] # NoRow \/ call[p].op = "create"

\* A unique index on the name and the namespace of the resource.
RowsNamed(n) == {r \in waits : r.cr.name = n}

RowsWithId(i) == {r \in waits : r.id = i}

WithStatus(r, s) == (waits \ {r}) \cup {[r EXCEPT !.status = s]}

-----------------------------------------------------------------------------

Goto(p, s) == pc' = [pc EXCEPT ![p] = s] /\ UNCHANGED <<call, res>>

Finish(p, r) ==
    /\ pc' = [pc EXCEPT ![p] = "done"]
    /\ res' = [res EXCEPT ![p] = r]
    /\ todo' = [todo EXCEPT ![p] = {}]
    /\ cur' = [cur EXCEPT ![p] = NoRow]
    /\ UNCHANGED call

Init ==
    /\ load \in Loads
    /\ call = [p \in Requests |-> NoCall]
    /\ pc = [p \in Requests |-> "idle"]
    /\ todo = [p \in Requests |-> {}]
    /\ cur = [p \in Requests |-> NoRow]
    /\ res = [p \in Requests |-> "none"]
    /\ templates = {}
    /\ topics = [n \in Names |-> Absent]
    /\ waits = {}

Submit(p) ==
    /\ pc[p] = "idle"
    /\ Cardinality(Active) < load.maxActive
    /\ \E c \in load.calls[p] :
          /\ call' = [call EXCEPT ![p] = c]
          /\ pc' = [pc EXCEPT ![p] = CASE c.op \in {"terminate", "cleanup"} -> c.op
                                       [] c.op = "create" -> "check"
                                       [] c.op = "delete" -> "exec"]
    /\ UNCHANGED <<load, todo, cur, res, templates, topics, waits>>

-----------------------------------------------------------------------------
(* The handlers of the resource kinds                                      *)

\* Mutant: a template is never missed.
NothingMissing(cr) == FALSE

DependencyMissing(cr) ==
    /\ cr.kind = "Topic"
    /\ cr.template # NoTemplate
    /\ cr.template \notin templates

\* Mutant: a waiting resource that misses its template is not skipped.
CheckSkipsNothing(p) ==
    /\ pc[p] = "check"
    /\ Goto(p, IF ~DependencyMissing(Subject(p)) THEN "exec"
               ELSE IF cur[p] = NoRow THEN "wait" ELSE "complete")
    /\ UNCHANGED <<load, todo, cur, templates, topics, waits>>

\* checkTopicTemplate; a waiting resource that misses its template stays as it is.
Check(p) ==
    /\ pc[p] = "check"
    /\ Goto(p, IF ~DependencyMissing(Subject(p)) THEN "exec"
               ELSE IF cur[p] = NoRow THEN "wait" ELSE "pick")
    /\ UNCHANGED <<load, todo, cur, templates, topics, waits>>

\* An error of a handler ends a request for its own resource; that of a waiting
\* resource is written into its row.
HandlerFails(p) ==
    /\ \/ /\ cur[p] = NoRow
          /\ Finish(p, "error")
       \/ /\ cur[p] # NoRow
          /\ Goto(p, "fail")
          /\ UNCHANGED <<todo, cur>>
    /\ UNCHANGED <<load, templates, topics, waits>>

\* The template cannot be looked up: the database is unavailable.
CheckFails(p) ==
    /\ pc[p] = "check"
    /\ Subject(p).kind = "Topic" /\ Subject(p).template # NoTemplate
    /\ HandlerFails(p)

\* What the handler commits when it succeeds.  A topic refers to its template:
\* the handler resolves it once more, and a template in use is not deleted.  A
\* topic that could not be deleted is only listed in the answer.
Applied(p) ==
    LET cr == Subject(p) IN
    \/ /\ Creates(p) /\ cr.kind = "Topic" /\ ~DependencyMissing(cr)
       /\ topics' = [topics EXCEPT ![cr.name] = cr.template]
       /\ UNCHANGED templates
    \/ /\ Creates(p) /\ cr.kind = "TopicTemplate"
       /\ templates' = templates \cup {cr.name}
       /\ UNCHANGED topics
    \/ /\ ~Creates(p) /\ cr.kind = "Topic" /\ ~load.prodMode
       /\ topics' \in {topics, [topics EXCEPT ![cr.name] = Absent]}
       /\ UNCHANGED templates
    \/ /\ ~Creates(p) /\ cr.kind = "TopicTemplate" /\ ~load.prodMode
       /\ \A n \in Names : topics[n] # cr.name
       /\ templates' = templates \ {cr.name}
       /\ UNCHANGED topics

Exec(p) ==
    /\ pc[p] = "exec"
    /\ Applied(p)
    /\ Goto(p, IF cur[p] = NoRow THEN "scan" ELSE "complete")
    /\ UNCHANGED <<load, todo, cur, waits>>

\* Kafka or the database is unavailable, or the handler refuses the request.
ExecFails(p) == pc[p] = "exec" /\ HandlerFails(p)

-----------------------------------------------------------------------------
(* The wait list                                                           *)

\* Mutant: the waiting resource is inserted over a row that is there already.
PutToWaitListAgain(p) ==
    /\ pc[p] = "wait"
    /\ waits' = (waits \ RowsNamed(call[p].cr.name)) \cup
                   {[id |-> p, cr |-> call[p].cr, status |-> "IN_PROGRESS"]}
    /\ Finish(p, "accepted")
    /\ UNCHANGED <<load, templates, topics>>

\* ON CONFLICT DO NOTHING: a row of that name is kept, whatever its status and spec.
PutToWaitList(p) ==
    /\ pc[p] = "wait"
    /\ waits' = IF RowsNamed(call[p].cr.name) # {} THEN waits
                ELSE waits \cup {[id |-> p, cr |-> call[p].cr, status |-> "IN_PROGRESS"]}
    /\ Finish(p, "accepted")
    /\ UNCHANGED <<load, templates, topics>>

FindWaiting(p) ==
    /\ pc[p] = "scan"
    /\ todo' = [todo EXCEPT ![p] = {r \in waits : r.status = "IN_PROGRESS"}]
    /\ Goto(p, "pick")
    /\ UNCHANGED <<load, cur, templates, topics, waits>>

\* Mutant: the run ends with the first waiting resource.
PickOne(p) ==
    /\ pc[p] = "pick"
    /\ \/ /\ cur[p] = NoRow
          /\ \E r \in todo[p] : /\ cur' = [cur EXCEPT ![p] = r]
                                /\ todo' = [todo EXCEPT ![p] = @ \ {r}]
          /\ Goto(p, "check")
       \/ /\ cur[p] # NoRow \/ todo[p] = {}
          /\ cur' = [cur EXCEPT ![p] = NoRow]
          /\ todo' = [todo EXCEPT ![p] = {}]
          /\ Goto(p, "dequeue")
    /\ UNCHANGED <<load, templates, topics, waits>>

\* The rows come in any order.
Pick(p) ==
    /\ pc[p] = "pick"
    /\ \/ /\ \E r \in todo[p] : /\ cur' = [cur EXCEPT ![p] = r]
                                /\ todo' = [todo EXCEPT ![p] = @ \ {r}]
          /\ Goto(p, "check")
       \/ /\ todo[p] = {}
          /\ cur' = [cur EXCEPT ![p] = NoRow]
          /\ Goto(p, "dequeue")
          /\ UNCHANGED todo
    /\ UNCHANGED <<load, templates, topics, waits>>

\* UPDATE ... WHERE tracking_id = i: an error if the row is gone.
UpdateStatus(p, i, status, next) ==
    /\ \/ /\ RowsWithId(i) = {}
          /\ Finish(p, "error")
          /\ UNCHANGED waits
       \/ \E r \in RowsWithId(i) :
             /\ waits' = WithStatus(r, status)
             /\ \/ /\ next # "done"
                   /\ Goto(p, next)
                   /\ UNCHANGED <<todo, cur>>
                \/ /\ next = "done"
                   /\ Finish(p, "ok")
    /\ UNCHANGED <<load, templates, topics>>

\* A resource that fails is marked FAILED, and COMPLETED right after.
MarkFailed(p) == pc[p] = "fail" /\ UpdateStatus(p, cur[p].id, "FAILED", "complete")

MarkCompleted(p) == pc[p] = "complete" /\ UpdateStatus(p, cur[p].id, "COMPLETED", "pick")

\* Whatever the status is by now.
Terminate(p) == pc[p] = "terminate" /\ UpdateStatus(p, call[p].id, "TERMINATED", "done")

\* Mutant: the whole list is taken off.
DequeueAll(p) ==
    /\ pc[p] = "dequeue"
    /\ waits' = {}
    /\ Finish(p, "ok")
    /\ UNCHANGED <<load, templates, topics>>

\* The applied resource itself need not wait any more.
Dequeue(p) ==
    /\ pc[p] = "dequeue"
    /\ waits' = waits \ RowsNamed(call[p].cr.name)
    /\ Finish(p, "ok")
    /\ UNCHANGED <<load, templates, topics>>

\* One transaction: the topics and templates of the namespace and its wait list.
CleanupNamespace(p) ==
    /\ pc[p] = "cleanup"
    /\ topics' = [n \in Names |-> Absent]
    /\ templates' = {}
    /\ waits' = {}
    /\ Finish(p, "ok")
    /\ UNCHANGED load

Lose(p) ==
    /\ load.lossy /\ p \in Active
    /\ Finish(p, "lost")
    /\ UNCHANGED <<load, templates, topics, waits>>

Serve(p) ==
    \/ Check(p) \/ CheckFails(p) \/ Exec(p) \/ ExecFails(p) \/ PutToWaitList(p)
    \/ FindWaiting(p) \/ Pick(p) \/ MarkFailed(p) \/ MarkCompleted(p)
    \/ Terminate(p) \/ Dequeue(p) \/ CleanupNamespace(p)

Next == \E p \in Requests : Submit(p) \/ Serve(p) \/ Lose(p)

\* A handler that has been called runs on; nobody has to send a request.
Spec == Init /\ [][Next]_vars /\ \A p \in Requests : WF_vars(Serve(p))

-----------------------------------------------------------------------------
(* Properties                                                              *)

\* Every variable keeps its type, and a topic refers to a template that is
\* there (the foreign key of kafka_topics, which no interleaving breaks).
TypeOK ==
    /\ load \in Loads
    /\ call \in [Requests -> Call \cup {NoCall}]
    /\ pc \in [Requests -> Steps]
    /\ todo \in [Requests -> SUBSET Row]
    /\ cur \in [Requests -> Row \cup {NoRow}]
    /\ res \in [Requests -> Results]
    /\ templates \subseteq Names
    /\ topics \in [Names -> templates \cup {NoTemplate, Absent}]
    /\ waits \subseteq Row

\* In production a waiting topic whose row goes straight to COMPLETED is
\* registered and its template is there, whoever runs the list at the same time
\* and whatever crashes: a look that finds the template missing leaves the row as
\* it is.  An error of the look or of the handler is seen in the row first (FAILED).
ProdCompletedIsRegistered ==
    [][load.prodMode =>
          \A r \in waits, s \in waits' :
              r.id = s.id /\ r.status = "IN_PROGRESS" /\ s.status = "COMPLETED" =>
                  r.cr.template \in templates /\ topics[r.cr.name] # Absent]_vars

NoCleanupAsked == \A p \in Requests : call[p] # NoCall => call[p].op # "cleanup"

\* In production, and unless the namespace is cleaned up, a resource that was
\* accepted disappears from the list only when a resource of its name has been
\* applied: neither the apply of another name nor a crash forgets it.  The list
\* tells resources apart by name, not by kind: the apply of a template takes off
\* a topic of the same name, which may wait since that template's own scan.
ProdAcceptedIsNotForgotten ==
    [][load.prodMode /\ NoCleanupAsked' =>
          \A r \in waits : (\A s \in waits' : s.id # r.id) =>
             topics'[r.cr.name] # Absent \/ r.cr.name \in templates']_vars

\* A resource that was terminated is not taken up again, nor by a new apply of
\* the same resource, as long as requests do not overlap.
TerminatedStaysTerminated ==
    [][load.maxActive = 1 => \A r \in waits : r.status = "TERMINATED" =>
          \A s \in waits' : s.cr.name = r.cr.name => s.status = "TERMINATED"]_vars

\* A waiting topic is run once its template is there, as long as requests do
\* not overlap and none is lost (a replica dies, the list cannot be read).
WaitingTopicIsRun ==
    \A n \in Names :
        (/\ load.maxActive = 1 /\ ~load.lossy
         /\ \E r \in RowsNamed(n) : r.status = "IN_PROGRESS" /\ ~DependencyMissing(r.cr))
        ~> (\A r \in RowsNamed(n) : r.status = "IN_PROGRESS" => DependencyMissing(r.cr))

\* A resource whose handler failed is reported as FAILED, not as COMPLETED:
\* rows with that status are never run again.
FailedIsNotCompleted ==
    [][\A r \in waits, s \in waits' :
          r.id = s.id /\ r.status = "FAILED" => s.status # "COMPLETED"]_vars

=============================================================================
