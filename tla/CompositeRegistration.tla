----------------------- MODULE CompositeRegistration -----------------------
(***************************************************************************)
(* Composite registrations: which namespaces form one composite, kept in   *)
(* composite_namespaces_v2 (a row per member) and composite_properties (a   *)
(* modify index that hangs on the baseline row and goes away with it).      *)
(*                                                                         *)
(* Four requests change them: an upsert under the advisory lock of its     *)
(* baseline, a destroy without lock, and two that read the registration    *)
(* without lock and then write what they have read through the upsert: the *)
(* clean-up of a namespace, and an aggregated configuration whose          *)
(* namespace joins the composite of its base namespace.  Each request is   *)
(* one transaction; a DELETE works on the rows that were committed when it *)
(* started, and waits for those that another transaction is deleting.      *)
(***************************************************************************)
EXTENDS Naturals, FiniteSets

CONSTANTS
    Requests,     \* requests to the service, over all replicas
    Namespaces,
    MaxIndex,     \* bound on the modify indexes that clients send
    Calls,        \* what each request may ask for
    Domain,       \* namespaces of a BG domain, its controller's included
    Origin,       \* the origin of that domain
    NoIndex,      \* no modify index given, or none stored
    NoCall        \* no request

Indexes == 0 .. MaxIndex

\* A cleanup names in base the namespace to remove; a join names in members the
\* namespace of the configuration, in base its base namespace.
Call == [op      : {"upsert", "destroy", "cleanup", "join"},
         base    : Namespaces,
         members : SUBSET Namespaces,
         index   : Indexes \cup {NoIndex}]

ASSUME BoundAssumption == MaxIndex \in Nat

\* The controller refuses a registration whose id is not among its namespaces.
ASSUME InputAssumption ==
    /\ Calls \in [Requests -> SUBSET Call]
    /\ \A p \in Requests : \A c \in Calls[p] : c.op = "upsert" => c.base \in c.members

ASSUME DomainAssumption == Domain \subseteq Namespaces /\ (Domain # {} => Origin \in Domain)

ASSUME DistinctAssumption == NoIndex \notin Nat /\ NoCall \notin Call

VARIABLES
    pc,       \* pc[p]: the next step of request p
    call,     \* call[p]: what request p asks for
    form,     \* form[p]: the registration p writes or destroys
    target,   \* target[p]: rows that p's DELETE has found
    deleted,  \* deleted[p]: rows deleted by p, not committed
    inserted, \* inserted[p]: rows inserted by p, not committed
    res,      \* res[p]: the outcome of p
    rows      \* committed rows, the baseline's with its modify index

vars == <<pc, call, form, target, deleted, inserted, res, rows>>

Row == [base : Namespaces, ns : Namespaces, by : Requests,
        index : Indexes \cup {NoIndex}]

LockedSteps == {"check", "delete", "apply", "insert", "commit"}

Steps == LockedSteps \cup {"idle", "start", "lock", "done"}

Results == {"none", "ok", "skipped", "rejected", "error", "lost"}

RowsOf(b) == {r \in rows : r.base = b}

\* composite_properties joined with the rows of the composite; none counts as 0.
CurrentIndex(b) ==
    LET stored == {r.index : r \in RowsOf(b)} \ {NoIndex} IN
    IF stored = {} THEN 0 ELSE CHOOSE i \in stored : TRUE

\* Mutant: the index is advanced as it is stored.
NewRowsAdvanced(p) ==
    {[base |-> form[p].base, ns |-> n, by |-> p,
      index |-> IF n = form[p].base /\ form[p].index # NoIndex
                   THEN form[p].index + 1 ELSE NoIndex] : n \in form[p].members}

\* The rows a request inserts; only the baseline's row gets the index.
NewRows(p) ==
    {[base |-> form[p].base, ns |-> n, by |-> p,
      index |-> IF n = form[p].base THEN form[p].index ELSE NoIndex] :
         n \in form[p].members}

-----------------------------------------------------------------------------
(* Waiting: the lock of the baseline, rows being deleted, unique namespaces *)

\* Mutant: the lock is taken on the request, not on the composite.
HoldsNothing(q, b) == FALSE

Holds(q, b) == pc[q] \in LockedSteps /\ form[q].op = "upsert" /\ form[q].base = b

BlockedBy(p) ==
    {q \in Requests \ {p} :
        \/ pc[p] = "lock" /\ Holds(q, form[p].base)
        \/ pc[p] = "apply" /\ deleted[q] \cap target[p] # {}
        \/ /\ pc[p] = "insert"
           /\ \E r \in inserted[q] \cup (deleted[q] \cap rows) : r.ns \in form[p].members}

At(p, s) == pc[p] = s /\ BlockedBy(p) = {}

Goto(p, s) == pc' = [pc EXCEPT ![p] = s] /\ UNCHANGED <<call, res>>

\* The request is answered, its transaction has ended.
Finish(p, r) ==
    /\ pc' = [pc EXCEPT ![p] = "done"]
    /\ res' = [res EXCEPT ![p] = r]
    /\ target' = [target EXCEPT ![p] = {}]
    /\ deleted' = [deleted EXCEPT ![p] = {}]
    /\ inserted' = [inserted EXCEPT ![p] = {}]
    /\ UNCHANGED <<call, form>>

Init ==
    /\ pc = [p \in Requests |-> "idle"]
    /\ call = [p \in Requests |-> NoCall]
    /\ form = [p \in Requests |-> NoCall]
    /\ target = [p \in Requests |-> {}]
    /\ deleted = [p \in Requests |-> {}]
    /\ inserted = [p \in Requests |-> {}]
    /\ res = [p \in Requests |-> "none"]
    /\ rows = {}

Submit(p) ==
    /\ At(p, "idle")
    /\ \E c \in Calls[p] : /\ call' = [call EXCEPT ![p] = c]
                           /\ form' = [form EXCEPT ![p] = c]
    /\ pc' = [pc EXCEPT ![p] = "start"]
    /\ UNCHANGED <<target, deleted, inserted, res, rows>>

Start(p) ==
    /\ At(p, "start") /\ call[p].op \in {"upsert", "destroy"}
    /\ Goto(p, IF call[p].op = "upsert" THEN "lock" ELSE "delete")
    /\ UNCHANGED <<form, target, deleted, inserted, rows>>

-----------------------------------------------------------------------------
(* CleanupNamespace: read, then destroy the composite or write the rest     *)

\* Mutant: the namespace stays in the member list.
NotReduced(p, b) ==
    [op |-> "upsert", base |-> b, index |-> NoIndex,
     members |-> {r.ns : r \in RowsOf(b)}]

\* The registration as read, without the namespace and without an index.
Reduced(p, b) ==
    [op |-> "upsert", base |-> b, index |-> NoIndex,
     members |-> {r.ns : r \in RowsOf(b)} \ {call[p].base}]

ReadForCleanup(p) ==
    LET n == call[p].base
        memberships == {r \in rows : r.ns = n}
    IN
    /\ At(p, "start") /\ call[p].op = "cleanup"
    /\ \/ /\ memberships = {}
          /\ Finish(p, "skipped")
       \/ \E r \in memberships :
             /\ form' = [form EXCEPT ![p] =
                            IF r.base = n THEN [@ EXCEPT !.op = "destroy"]
                                          ELSE Reduced(p, r.base)]
             /\ Goto(p, IF r.base = n THEN "delete" ELSE "lock")
             /\ UNCHANGED <<target, deleted, inserted>>
    /\ UNCHANGED rows

-----------------------------------------------------------------------------
(* updateCompositeRegistration                                             *)

\* The composite that a base namespace gets when it is in none.
FirstRegistration(b, joining) ==
    [op |-> "upsert", base |-> IF b \in Domain THEN Origin ELSE b, index |-> NoIndex,
     members |-> joining \cup (IF b \in Domain THEN Domain ELSE {b})]

\* The registration of the base namespace with the joining one added.
Extended(b, joining) ==
    [op |-> "upsert", base |-> b, index |-> NoIndex,
     members |-> joining \cup {r.ns : r \in RowsOf(b)}]

ReadForJoin(p) ==
    LET named == call[p].base
        joining == call[p].members
        memberships == {r \in rows : r.ns = named}
        member == \E r \in memberships : joining \subseteq {s.ns : s \in RowsOf(r.base)}
    IN
    /\ At(p, "start") /\ call[p].op = "join"
    /\ \/ member /\ Finish(p, "skipped")
       \/ /\ ~member
          /\ \/ memberships = {} /\ form' = [form EXCEPT ![p] = FirstRegistration(named, joining)]
             \/ \E r \in memberships : form' = [form EXCEPT ![p] = Extended(r.base, joining)]
          /\ Goto(p, "lock")
          /\ UNCHANGED <<target, deleted, inserted>>
    /\ UNCHANGED rows

-----------------------------------------------------------------------------
(* Upsert and DeleteByBaseline                                             *)

Lock(p) ==
    /\ At(p, "lock")
    /\ Goto(p, "check")
    /\ UNCHANGED <<form, target, deleted, inserted, rows>>

CheckIndex(p) ==
    LET f == form[p]
        old == f.index # NoIndex /\ f.index < CurrentIndex(f.base)
    IN
    /\ At(p, "check")
    /\ \/ old /\ Finish(p, "rejected")
       \/ /\ ~old
          /\ Goto(p, "delete")
          /\ UNCHANGED <<form, target, deleted, inserted>>
    /\ UNCHANGED rows

\* Mutant: only the row of the baseline itself is deleted.
FindBaselineRow(p) ==
    /\ At(p, "delete")
    /\ target' = [target EXCEPT ![p] = {r \in RowsOf(form[p].base) : r.ns = r.base}]
    /\ Goto(p, "apply")
    /\ UNCHANGED <<form, deleted, inserted, rows>>

FindRows(p) ==
    /\ At(p, "delete")
    /\ target' = [target EXCEPT ![p] = RowsOf(form[p].base)]
    /\ Goto(p, "apply")
    /\ UNCHANGED <<form, deleted, inserted, rows>>

\* Rows that are gone by now are passed over, rows that are new are not seen.
DeleteRows(p) ==
    /\ At(p, "apply")
    /\ deleted' = [deleted EXCEPT ![p] = target[p] \cap rows]
    /\ Goto(p, IF form[p].op = "upsert" THEN "insert" ELSE "commit")
    /\ UNCHANGED <<form, target, inserted, rows>>

\* Mutant: namespaces are unique within a composite only.
TakenInComposite(p) ==
    \E r \in rows \ deleted[p] : r.ns \in form[p].members /\ r.base = form[p].base

\* A namespace belongs to one composite: composite_namespaces_v2_namespace.
Taken(p) == \E r \in rows \ deleted[p] : r.ns \in form[p].members

InsertRows(p) ==
    /\ At(p, "insert")
    /\ \/ /\ ~Taken(p)
          /\ inserted' = [inserted EXCEPT ![p] = NewRows(p)]
          /\ Goto(p, "commit")
          /\ UNCHANGED <<form, target, deleted>>
       \/ Taken(p) /\ Finish(p, "error")
    /\ UNCHANGED rows

\* The deferred trigger: every composite lists its baseline as a member.
Guarded(visible) ==
    \A r \in visible : \E s \in visible : s.base = r.base /\ s.ns = s.base

Commit(p) ==
    LET visible == (rows \ deleted[p]) \cup inserted[p] IN
    /\ At(p, "commit")
    /\ rows' = IF Guarded(visible) THEN visible ELSE rows
    /\ Finish(p, IF Guarded(visible) THEN "ok" ELSE "error")

\* A crash, a broken connection or a failed commit at any point.
Lose(p) ==
    /\ pc[p] \notin {"idle", "done"}
    /\ Finish(p, "lost")
    /\ UNCHANGED rows

Circle(S) == \A q \in S : BlockedBy(q) \cap S # {}

\* Two composites that exchange members wait for each other's rows.
DeadlockVictim(p) ==
    /\ \E S \in SUBSET Requests :
          /\ p \in S /\ Circle(S)
          /\ \A T \in (SUBSET S) \ {{}, S} : ~Circle(T)
    /\ Finish(p, "error")
    /\ UNCHANGED rows

Serve(p) ==
    \/ Start(p) \/ ReadForCleanup(p) \/ ReadForJoin(p) \/ Lock(p) \/ CheckIndex(p) \/ FindRows(p)
    \/ DeleteRows(p) \/ InsertRows(p) \/ Commit(p) \/ DeadlockVictim(p)

Next == \E p \in Requests : Submit(p) \/ Serve(p) \/ Lose(p)

Spec == Init /\ [][Next]_vars

-----------------------------------------------------------------------------
(* Properties                                                              *)

\* Every variable keeps its type.
TypeOK ==
    /\ pc \in [Requests -> Steps]
    /\ call \in [Requests -> Call \cup {NoCall}]
    /\ form \in [Requests -> Call \cup {NoCall}]
    /\ target \in [Requests -> SUBSET Row]
    /\ deleted \in [Requests -> SUBSET Row]
    /\ inserted \in [Requests -> SUBSET Row]
    /\ res \in [Requests -> Results]
    /\ rows \subseteq Row

\* No namespace is a member of two composites, whatever upserts, destroys and
\* clean-ups of different composites overlap.
NamespaceInOneComposite == \A r, s \in rows : r.ns = s.ns => r = s

\* A stored composite is what one request wrote, whole: no rows of an earlier
\* or overlapping request are left among them and none are missing, so that
\* its baseline is a member.
WholeRegistration ==
    \A r \in rows : RowsOf(r.base) = NewRows(r.by) /\ r.base \in form[r.by].members

\* A reader sees composites that are disjoint, written as a whole, and changed
\* one at a time; and none is replaced by a registration with a lower modify
\* index, also when its check and its writes overlap with other requests.
Registry == INSTANCE CompositeRegistry WITH
    members <- [b \in Namespaces |-> {r.ns : r \in RowsOf(b)}],
    index   <- [b \in Namespaces |->
                  IF \E r \in RowsOf(b) : r.index # NoIndex THEN CurrentIndex(b) ELSE NoIndex]

ImplementsRegistry == Registry!Spec

\* A clean-up that succeeds leaves the namespace out of the composite that it
\* was found in, whatever was written since it was read.
CleanedNamespaceLeaves ==
    [][\A p \in Requests :
          /\ pc[p] = "commit" /\ res'[p] = "ok"
          /\ call[p].op = "cleanup" /\ form[p].op = "upsert"
          => ~\E r \in rows' : r.base = form[p].base /\ r.ns = call[p].base]_vars

=============================================================================
