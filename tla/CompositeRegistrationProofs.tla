--------------------- MODULE CompositeRegistrationProofs ---------------------
(***************************************************************************)
(* CompositeRegistration for every number of requests and namespaces: its  *)
(* types, disjoint and whole composites, and the refinement of the         *)
(* abstract CompositeRegistry.                                             *)
(***************************************************************************)
EXTENDS CompositeRegistration, TLAPS

-----------------------------------------------------------------------------
(* The inductive invariant                                                 *)

\* What a request has at hand at each of its steps.
RequestOK(p) ==
    /\ pc[p] # "idle" => call[p] \in Call /\ form[p] \in Call
    /\ pc[p] = "start" => form[p] = call[p]
    /\ pc[p] \in {"lock", "check", "insert"} => form[p].op = "upsert"
    /\ pc[p] \in {"delete", "apply", "commit"} => form[p].op \in {"upsert", "destroy"}
    /\ pc[p] # "idle" /\ form[p].op = "upsert" => form[p].base \in form[p].members
    /\ pc[p] # "idle" /\ call[p].op = "cleanup" /\ form[p].op = "upsert"
          => call[p].base \notin form[p].members
    /\ pc[p] \notin {"apply", "insert", "commit"} => target[p] = {}
    /\ pc[p] \notin {"insert", "commit"} => deleted[p] = {}
    /\ inserted[p] = IF pc[p] = "commit" /\ form[p].op = "upsert" THEN NewRows(p) ELSE {}
    /\ pc[p] # "done" => res[p] = "none"

\* A stored row is of a request that has ended.
RowsAreOfEnded == \A r \in rows : pc[r.by] = "done"

\* What a DELETE has found or deleted is of the composite that it is about, and
\* all that is left of each generation.
FoundWhole(p) ==
    \A s \in target[p] :
       /\ s.base = form[p].base /\ pc[s.by] = "done"
       /\ \A r \in rows : r.by = s.by => r \in target[p]

DeletedWhole(p) ==
    \A s \in deleted[p] :
       /\ s.base = form[p].base /\ pc[s.by] = "done"
       /\ \A r \in rows : r.by = s.by => r \in deleted[p]

\* The namespaces of uncommitted rows are taken by nobody else.
InsertedAreFree(p) ==
    \A r \in inserted[p] :
       /\ \A s \in rows \ deleted[p] : s.ns # r.ns
       /\ \A q \in Requests \ {p} : \A s \in inserted[q] : s.ns # r.ns

\* One upsert at a time is inside the lock of its baseline, and once it has
\* checked its index no later one is stored.
AloneInLock(p) ==
    \A q \in Requests \ {p} : Holds(p, form[p].base) => ~Holds(q, form[p].base)

IndexIsLatest(p) ==
    pc[p] \in {"delete", "apply", "insert", "commit"} /\ form[p].op = "upsert"
        /\ form[p].index # NoIndex
      => CurrentIndex(form[p].base) <= form[p].index

TransactionOK(p) ==
    /\ RequestOK(p) /\ FoundWhole(p) /\ DeletedWhole(p) /\ InsertedAreFree(p)
    /\ AloneInLock(p) /\ IndexIsLatest(p)

IInv ==
    /\ TypeOK
    /\ NamespaceInOneComposite
    /\ WholeRegistration
    /\ RowsAreOfEnded
    /\ \A p \in Requests : TransactionOK(p)

-----------------------------------------------------------------------------
(* Facts about rows                                                        *)

LEMMA InitIInv == Init => IInv
<1> SUFFICES ASSUME Init PROVE IInv
  OBVIOUS
<1>1. TypeOK
  BY DEF Init, TypeOK, Steps, LockedSteps, Results
<1>2. NamespaceInOneComposite /\ WholeRegistration /\ RowsAreOfEnded
  BY DEF Init, NamespaceInOneComposite, WholeRegistration, RowsAreOfEnded
<1>3. ASSUME NEW p \in Requests PROVE TransactionOK(p)
  BY DEF Init, TransactionOK, RequestOK, FoundWhole, DeletedWhole, InsertedAreFree,
         AloneInLock, Holds, IndexIsLatest, LockedSteps
<1> QED
  BY <1>1, <1>2, <1>3 DEF IInv

\* The new rows are typed, of one base, and tell their namespaces apart.
LEMMA NewRowsFacts ==
    ASSUME NEW p \in Requests, form[p] \in Call
    PROVE  /\ NewRows(p) \subseteq Row
           /\ \A r \in NewRows(p) :
                /\ r.base = form[p].base /\ r.by = p /\ r.ns \in form[p].members
                /\ r.index # NoIndex => r.ns = form[p].base /\ r.index = form[p].index
           /\ \A r, s \in NewRows(p) : r.ns = s.ns => r = s
           /\ \A n \in form[p].members : \E r \in NewRows(p) : r.ns = n
<1>1. form[p].base \in Namespaces /\ form[p].members \subseteq Namespaces
      /\ form[p].index \in Indexes \cup {NoIndex}
  BY DEF Call
<1> DEFINE row(n) == [base |-> form[p].base, ns |-> n, by |-> p,
                      index |-> IF n = form[p].base THEN form[p].index ELSE NoIndex]
<1>2. NewRows(p) = {row(n) : n \in form[p].members}
  BY DEF NewRows
<1>3. ASSUME NEW n \in form[p].members
      PROVE  /\ row(n) \in Row /\ row(n).base = form[p].base /\ row(n).by = p /\ row(n).ns = n
             /\ row(n).index # NoIndex => n = form[p].base /\ row(n).index = form[p].index
  BY <1>1 DEF Row
<1> HIDE DEF row
<1> QED
  BY <1>2, <1>3

\* Each composite has the row of its baseline, and is of one generation.
LEMMA Generations ==
    ASSUME IInv, NEW r \in rows
    PROVE  /\ r \in Row /\ form[r.by] \in Call
           /\ RowsOf(r.base) = NewRows(r.by)
           /\ form[r.by].base = r.base
           /\ \E s \in rows : s.base = r.base /\ s.ns = r.base /\ s.by = r.by
           /\ \A s \in rows : s.base = r.base <=> s.by = r.by
<1>1. r \in Row /\ r.by \in Requests
  BY DEF IInv, TypeOK, Row
<1>2. form[r.by] \in Call
  BY <1>1 DEF IInv, RowsAreOfEnded, TransactionOK, RequestOK
<1>3. RowsOf(r.base) = NewRows(r.by) /\ r.base \in form[r.by].members
  BY DEF IInv, WholeRegistration
<1>4. r \in NewRows(r.by)
  BY <1>3 DEF RowsOf
<1>5. form[r.by].base = r.base
  BY <1>1, <1>2, <1>4, NewRowsFacts
<1>6. \E s \in rows : s.base = r.base /\ s.ns = r.base /\ s.by = r.by
  BY <1>1, <1>2, <1>3, <1>5, NewRowsFacts DEF RowsOf
<1>7. ASSUME NEW s \in rows PROVE s.base = r.base <=> s.by = r.by
  <2>1. s.base = r.base => s.by = r.by
    BY <1>1, <1>2, <1>3, NewRowsFacts DEF RowsOf
  <2>2. s \in NewRows(s.by) /\ s.by \in Requests /\ form[s.by] \in Call
    BY DEF IInv, WholeRegistration, RowsOf, TypeOK, Row, RowsAreOfEnded, TransactionOK, RequestOK
  <2>3. s.by = r.by => s.base = r.base
    BY <1>5, <2>2, NewRowsFacts
  <2> QED
    BY <2>1, <2>3
<1> QED
  BY <1>1, <1>2, <1>3, <1>5, <1>6, <1>7

\* At most the baseline's row of a composite has an index, and that is a number.
LEMMA CurrentIndexType ==
    ASSUME IInv, NEW b \in Namespaces
    PROVE  /\ CurrentIndex(b) \in Nat
           /\ \A r \in RowsOf(b) : r.index # NoIndex => CurrentIndex(b) = r.index
<1> DEFINE stored == {r.index : r \in RowsOf(b)} \ {NoIndex}
<1>1. stored \subseteq Nat
  <2>1. \A r \in RowsOf(b) : r.index \in Indexes \cup {NoIndex}
    BY DEF IInv, TypeOK, Row, RowsOf
  <2> QED
    BY <2>1, BoundAssumption DEF Indexes
<1>2. \A i, j \in stored : i = j
  <2> SUFFICES ASSUME NEW r \in RowsOf(b), NEW s \in RowsOf(b),
                      r.index # NoIndex, s.index # NoIndex
               PROVE  r.index = s.index
    OBVIOUS
  <2>1. r \in rows /\ r.base = b /\ r.by \in Requests
    BY DEF RowsOf, IInv, TypeOK, Row
  <2>2. form[r.by] \in Call /\ RowsOf(b) = NewRows(r.by)
    BY <2>1, Generations
  <2> QED
    BY <2>1, <2>2, NewRowsFacts
<1>3. CurrentIndex(b) = IF stored = {} THEN 0 ELSE CHOOSE i \in stored : TRUE
  BY DEF CurrentIndex
<1> HIDE DEF stored
<1>4. \A i \in stored : CurrentIndex(b) = i
  <2> SUFFICES ASSUME NEW i \in stored PROVE CurrentIndex(b) = i
    OBVIOUS
  <2>1. (CHOOSE j \in stored : TRUE) \in stored
    OBVIOUS
  <2> QED
    BY <1>2, <1>3, <2>1
<1>5. CurrentIndex(b) \in Nat
  <2>1. CASE stored = {}
    BY <1>3, <2>1
  <2>2. CASE stored # {}
    BY <1>1, <1>4, <2>2
  <2> QED
    BY <2>1, <2>2
<1>6. \A r \in RowsOf(b) : r.index # NoIndex => r.index \in stored
  BY DEF stored
<1> QED
  BY <1>4, <1>5, <1>6

-----------------------------------------------------------------------------
(* A step of request p that stores nothing: what remains to be shown of it *)

Frame(p) ==
    \A q \in Requests \ {p} :
        /\ pc'[q] = pc[q] /\ call'[q] = call[q] /\ form'[q] = form[q] /\ res'[q] = res[q]
        /\ target'[q] = target[q] /\ deleted'[q] = deleted[q] /\ inserted'[q] = inserted[q]

LEMMA OthersKeepTransaction ==
    ASSUME IInv, NEW p \in Requests, Frame(p), pc[p] # "done", rows' = rows,
           InsertedAreFree(p)', AloneInLock(p)',
           NEW q \in Requests, q # p
    PROVE  TransactionOK(q)'
<1>1. pc'[q] = pc[q] /\ call'[q] = call[q] /\ form'[q] = form[q] /\ res'[q] = res[q]
      /\ target'[q] = target[q] /\ deleted'[q] = deleted[q] /\ inserted'[q] = inserted[q]
  BY DEF Frame
<1>2. TransactionOK(q)
  BY DEF IInv
<1>3. RequestOK(q)'
  BY <1>1, <1>2 DEF TransactionOK, RequestOK, NewRows
<1>4. ASSUME NEW s \in target[q] \cup deleted[q] PROVE pc'[s.by] = "done"
  <2>1. s.by \in Requests /\ pc[s.by] = "done"
    BY <1>2 DEF TransactionOK, FoundWhole, DeletedWhole, IInv, TypeOK, Row
  <2> QED
    BY <2>1 DEF Frame
<1>5. FoundWhole(q)' /\ DeletedWhole(q)'
  BY <1>1, <1>2, <1>4 DEF TransactionOK, FoundWhole, DeletedWhole
<1>6. InsertedAreFree(q)'
  <2> SUFFICES ASSUME NEW r \in inserted[q]
               PROVE  /\ \A s \in rows \ deleted[q] : s.ns # r.ns
                      /\ \A o \in Requests \ {q} : \A s \in inserted'[o] : s.ns # r.ns
    BY <1>1 DEF InsertedAreFree
  <2>1. \A s \in rows \ deleted[q] : s.ns # r.ns
    BY <1>2 DEF TransactionOK, InsertedAreFree
  <2>2. ASSUME NEW o \in Requests \ {q}, NEW s \in inserted'[o] PROVE s.ns # r.ns
    <3>1. CASE o = p
      BY <1>1, <3>1 DEF InsertedAreFree
    <3>2. CASE o # p
      BY <1>2, <3>2 DEF TransactionOK, InsertedAreFree, Frame
    <3> QED
      BY <3>1, <3>2
  <2> QED
    BY <2>1, <2>2
<1>7. AloneInLock(q)'
  BY <1>1, <1>2 DEF TransactionOK, AloneInLock, Holds, Frame
<1>8. IndexIsLatest(q)'
  BY <1>1, <1>2 DEF TransactionOK, IndexIsLatest, CurrentIndex, RowsOf
<1> QED
  BY <1>3, <1>5, <1>6, <1>7, <1>8 DEF TransactionOK

LEMMA QuietStepKeepsIInv ==
    ASSUME IInv, NEW p \in Requests, TypeOK', Frame(p), pc[p] # "done", rows' = rows,
           TransactionOK(p)'
    PROVE  IInv'
<1>1. NamespaceInOneComposite'
  BY DEF IInv, NamespaceInOneComposite
<1>2. ASSUME NEW r \in rows
      PROVE  /\ pc'[r.by] = "done" /\ form'[r.by] = form[r.by]
             /\ RowsOf(r.base)' = NewRows(r.by)' /\ r.base \in form'[r.by].members
  <2>1. r.by \in Requests \ {p} /\ pc[r.by] = "done"
    BY DEF IInv, RowsAreOfEnded, TypeOK, Row
  <2>2. pc'[r.by] = "done" /\ form'[r.by] = form[r.by]
    BY <2>1 DEF Frame
  <2>3. RowsOf(r.base) = NewRows(r.by) /\ r.base \in form[r.by].members
    BY DEF IInv, WholeRegistration
  <2> QED
    BY <2>2, <2>3 DEF RowsOf, NewRows
<1>3. WholeRegistration' /\ RowsAreOfEnded'
  BY <1>2 DEF WholeRegistration, RowsAreOfEnded
<1>4. ASSUME NEW q \in Requests PROVE TransactionOK(q)'
  BY OthersKeepTransaction DEF TransactionOK
<1> QED
  BY <1>1, <1>3, <1>4 DEF IInv

\* The end of a request that stores nothing: an answer without effect, an
\* error, a crash, a deadlock.
LEMMA FinishKeepsIInv ==
    ASSUME IInv, NEW p \in Requests, NEW r \in Results, pc[p] \notin {"idle", "done"},
           Finish(p, r), rows' = rows
    PROVE  IInv'
<1>1. TypeOK /\ TransactionOK(p)
  BY DEF IInv
<1>2. TypeOK'
  BY <1>1 DEF TypeOK, Finish, Steps
<1>3. Frame(p)
  BY <1>1 DEF Finish, Frame, TypeOK
<1>4. /\ pc'[p] = "done" /\ call'[p] = call[p] /\ form'[p] = form[p]
      /\ target'[p] = {} /\ deleted'[p] = {} /\ inserted'[p] = {}
  BY <1>1 DEF Finish, TypeOK
<1>5. RequestOK(p)'
  BY <1>1, <1>4 DEF TransactionOK, RequestOK
<1>6. FoundWhole(p)' /\ DeletedWhole(p)' /\ InsertedAreFree(p)'
  BY <1>4 DEF FoundWhole, DeletedWhole, InsertedAreFree
<1>7. AloneInLock(p)' /\ IndexIsLatest(p)'
  BY <1>4 DEF AloneInLock, Holds, IndexIsLatest, LockedSteps
<1> QED
  BY <1>2, <1>3, <1>5, <1>6, <1>7, QuietStepKeepsIInv DEF TransactionOK

-----------------------------------------------------------------------------
(* The actions, one lemma each                                             *)

LEMMA SubmitKeepsIInv ==
    ASSUME IInv, NEW p \in Requests, Submit(p) PROVE IInv'
<1>1. TypeOK /\ TransactionOK(p) /\ pc[p] = "idle"
  BY DEF IInv, Submit, At
<1>2. PICK c \in Calls[p] : call' = [call EXCEPT ![p] = c] /\ form' = [form EXCEPT ![p] = c]
  BY DEF Submit
<1>3. c \in Call /\ (c.op = "upsert" => c.base \in c.members)
  BY InputAssumption
<1>4. /\ pc' = [pc EXCEPT ![p] = "start"]
      /\ UNCHANGED <<target, deleted, inserted, res, rows>>
  BY DEF Submit
<1>5. TypeOK'
  BY <1>1, <1>2, <1>3, <1>4 DEF TypeOK, Steps
<1>6. Frame(p)
  BY <1>1, <1>2, <1>4 DEF Frame, TypeOK
<1>7. pc'[p] = "start" /\ call'[p] = c /\ form'[p] = c
  BY <1>1, <1>2, <1>4 DEF TypeOK
<1>8. target[p] = {} /\ deleted[p] = {} /\ inserted[p] = {} /\ res[p] = "none"
  BY <1>1 DEF TransactionOK, RequestOK
<1>9. RequestOK(p)'
  BY <1>3, <1>4, <1>7, <1>8 DEF RequestOK
<1>10. FoundWhole(p)' /\ DeletedWhole(p)' /\ InsertedAreFree(p)'
  BY <1>4, <1>8 DEF FoundWhole, DeletedWhole, InsertedAreFree
<1>11. AloneInLock(p)' /\ IndexIsLatest(p)'
  BY <1>7 DEF AloneInLock, Holds, IndexIsLatest, LockedSteps
<1> QED
  BY <1>1, <1>4, <1>5, <1>6, <1>9, <1>10, <1>11, QuietStepKeepsIInv DEF TransactionOK

\* A request goes on from step "start" with the registration f.
LEMMA ChosenFormKeepsIInv ==
    ASSUME IInv, NEW p \in Requests, pc[p] = "start", NEW f \in Call, NEW s \in {"lock", "delete"},
           Goto(p, s), form' = [form EXCEPT ![p] = f],
           UNCHANGED <<target, deleted, inserted, rows>>,
           s = "lock" => f.op = "upsert", s = "delete" => f.op = "destroy",
           f.op = "upsert" => f.base \in f.members,
           f.op = "upsert" /\ call[p].op = "cleanup" => call[p].base \notin f.members
    PROVE  IInv'
<1>1. TypeOK /\ TransactionOK(p)
  BY DEF IInv
<1>2. TypeOK'
  BY <1>1 DEF TypeOK, Goto, Steps, LockedSteps
<1>3. Frame(p)
  BY <1>1 DEF Goto, Frame, TypeOK
<1>4. pc'[p] = s /\ call'[p] = call[p] /\ form'[p] = f /\ res'[p] = res[p]
  BY <1>1 DEF Goto, TypeOK
<1>5. /\ target[p] = {} /\ deleted[p] = {} /\ inserted[p] = {}
      /\ call[p] \in Call /\ res[p] = "none"
  BY <1>1 DEF TransactionOK, RequestOK
<1>6. RequestOK(p)'
  BY <1>4, <1>5 DEF RequestOK
<1>7. FoundWhole(p)' /\ DeletedWhole(p)' /\ InsertedAreFree(p)'
  BY <1>5 DEF FoundWhole, DeletedWhole, InsertedAreFree
<1>8. AloneInLock(p)' /\ IndexIsLatest(p)'
  BY <1>4 DEF AloneInLock, Holds, IndexIsLatest, LockedSteps
<1> QED
  BY <1>2, <1>3, <1>6, <1>7, <1>8, QuietStepKeepsIInv DEF TransactionOK

LEMMA StartKeepsIInv ==
    ASSUME IInv, NEW p \in Requests, Start(p) PROVE IInv'
<1>1. /\ pc[p] = "start" /\ call[p].op \in {"upsert", "destroy"}
      /\ Goto(p, IF call[p].op = "upsert" THEN "lock" ELSE "delete")
      /\ UNCHANGED <<form, target, deleted, inserted, rows>>
  BY DEF Start, At
<1>2. TypeOK /\ RequestOK(p)
  BY DEF IInv, TransactionOK
<1>3. form' = [form EXCEPT ![p] = form[p]]
  BY <1>1, <1>2 DEF TypeOK
<1>4. /\ form[p] \in Call /\ form[p] = call[p]
      /\ form[p].op = "upsert" => form[p].base \in form[p].members
  BY <1>1, <1>2 DEF RequestOK
<1> QED
  BY <1>1, <1>3, <1>4, ChosenFormKeepsIInv

LEMMA ReadForCleanupKeepsIInv ==
    ASSUME IInv, NEW p \in Requests, ReadForCleanup(p) PROVE IInv'
<1> DEFINE n == call[p].base
<1>1. pc[p] = "start" /\ call[p].op = "cleanup" /\ rows' = rows
  BY DEF ReadForCleanup, At
<1>2. form[p] = call[p] /\ call[p] \in Call
  BY <1>1 DEF IInv, TransactionOK, RequestOK
<1>3. CASE Finish(p, "skipped")
  BY <1>1, <1>3, FinishKeepsIInv DEF Results
<1>4. CASE \E r \in rows :
             /\ r.ns = n
             /\ form' = [form EXCEPT ![p] = IF r.base = n THEN [@ EXCEPT !.op = "destroy"]
                                                          ELSE Reduced(p, r.base)]
             /\ Goto(p, IF r.base = n THEN "delete" ELSE "lock")
             /\ UNCHANGED <<target, deleted, inserted>>
  <2>1. PICK r \in rows :
             /\ r.ns = n
             /\ form' = [form EXCEPT ![p] = IF r.base = n THEN [@ EXCEPT !.op = "destroy"]
                                                          ELSE Reduced(p, r.base)]
             /\ Goto(p, IF r.base = n THEN "delete" ELSE "lock")
             /\ UNCHANGED <<target, deleted, inserted>>
    BY <1>4
  <2>2. CASE r.base = n
    <3>1. [call[p] EXCEPT !.op = "destroy"] \in Call
      BY <1>2 DEF Call
    <3>2. [call[p] EXCEPT !.op = "destroy"].op = "destroy"
      BY <1>2 DEF Call
    <3>3. form' = [form EXCEPT ![p] = [call[p] EXCEPT !.op = "destroy"]]
      BY <1>2, <2>1, <2>2
    <3> QED
      BY <1>1, <2>1, <2>2, <3>1, <3>2, <3>3, ChosenFormKeepsIInv
  <2>3. CASE r.base # n
    <3>1. r.base \in Namespaces /\ RowsOf(r.base) \subseteq Row
      BY DEF IInv, TypeOK, RowsOf, Row
    <3>2. Reduced(p, r.base) \in Call
      BY <3>1 DEF Reduced, Call, Row
    <3>3. \E s \in RowsOf(r.base) : s.ns = r.base
      BY Generations DEF RowsOf
    <3>4. /\ Reduced(p, r.base).op = "upsert"
          /\ Reduced(p, r.base).base \in Reduced(p, r.base).members
          /\ call[p].base \notin Reduced(p, r.base).members
      BY <2>3, <3>3 DEF Reduced
    <3> QED
      BY <1>1, <2>1, <2>3, <3>2, <3>4, ChosenFormKeepsIInv
  <2> QED
    BY <2>2, <2>3
<1> QED
  BY <1>3, <1>4 DEF ReadForCleanup

LEMMA ReadForJoinKeepsIInv ==
    ASSUME IInv, NEW p \in Requests, ReadForJoin(p) PROVE IInv'
<1> DEFINE named == call[p].base
           joining == call[p].members
<1>1. pc[p] = "start" /\ call[p].op = "join" /\ rows' = rows
  BY DEF ReadForJoin, At
<1>2. call[p] \in Call /\ named \in Namespaces /\ joining \subseteq Namespaces
  BY <1>1 DEF IInv, TransactionOK, RequestOK, Call
<1>3. CASE Finish(p, "skipped")
  BY <1>1, <1>3, FinishKeepsIInv DEF Results
<1>4. CASE /\ form' = [form EXCEPT ![p] = FirstRegistration(named, joining)]
           /\ Goto(p, "lock")
           /\ UNCHANGED <<target, deleted, inserted>>
  <2>1. FirstRegistration(named, joining) \in Call
    BY <1>2, DomainAssumption DEF FirstRegistration, Call
  <2>2. /\ FirstRegistration(named, joining).op = "upsert"
        /\ FirstRegistration(named, joining).base \in FirstRegistration(named, joining).members
    BY DomainAssumption DEF FirstRegistration
  <2> QED
    BY <1>1, <1>4, <2>1, <2>2, ChosenFormKeepsIInv
<1>5. ASSUME NEW r \in rows,
             form' = [form EXCEPT ![p] = Extended(r.base, joining)],
             Goto(p, "lock"),
             UNCHANGED <<target, deleted, inserted>>
      PROVE  IInv'
  <2>1. r.base \in Namespaces /\ RowsOf(r.base) \subseteq Row
    BY DEF IInv, TypeOK, RowsOf, Row
  <2>2. Extended(r.base, joining) \in Call
    BY <1>2, <2>1 DEF Extended, Call, Row
  <2>3. \E s \in RowsOf(r.base) : s.ns = r.base
    BY Generations DEF RowsOf
  <2>4. /\ Extended(r.base, joining).op = "upsert"
        /\ Extended(r.base, joining).base \in Extended(r.base, joining).members
    BY <2>3 DEF Extended
  <2> QED
    BY <1>1, <1>5, <2>2, <2>4, ChosenFormKeepsIInv
<1> QED
  BY <1>3, <1>4, <1>5 DEF ReadForJoin

LEMMA LockKeepsIInv ==
    ASSUME IInv, NEW p \in Requests, Lock(p) PROVE IInv'
<1>1. /\ pc[p] = "lock" /\ BlockedBy(p) = {}
      /\ Goto(p, "check")
      /\ UNCHANGED <<form, target, deleted, inserted, rows>>
  BY DEF Lock, At
<1>2. TypeOK /\ TransactionOK(p)
  BY DEF IInv
<1>3. TypeOK' /\ Frame(p)
  BY <1>1, <1>2 DEF TypeOK, Goto, Frame, Steps, LockedSteps
<1>4. pc'[p] = "check" /\ call'[p] = call[p] /\ form'[p] = form[p] /\ res'[p] = res[p]
  BY <1>1, <1>2 DEF Goto, TypeOK
<1>5. RequestOK(p)' /\ FoundWhole(p)' /\ DeletedWhole(p)' /\ InsertedAreFree(p)'
  BY <1>1, <1>2, <1>4
     DEF TransactionOK, RequestOK, FoundWhole, DeletedWhole, InsertedAreFree
<1>6. \A q \in Requests \ {p} : ~Holds(q, form[p].base)
  BY <1>1 DEF BlockedBy
<1>7. AloneInLock(p)'
  BY <1>1, <1>3, <1>4, <1>6 DEF AloneInLock, Holds, Frame
<1>8. IndexIsLatest(p)'
  BY <1>4 DEF IndexIsLatest
<1> QED
  BY <1>1, <1>3, <1>5, <1>7, <1>8, QuietStepKeepsIInv DEF TransactionOK

LEMMA CheckIndexKeepsIInv ==
    ASSUME IInv, NEW p \in Requests, CheckIndex(p) PROVE IInv'
<1> DEFINE old == form[p].index # NoIndex /\ form[p].index < CurrentIndex(form[p].base)
<1>1. pc[p] = "check" /\ rows' = rows
  BY DEF CheckIndex, At
<1>2. TypeOK /\ TransactionOK(p)
  BY DEF IInv
<1>3. CASE Finish(p, "rejected")
  BY <1>1, <1>3, FinishKeepsIInv DEF Results
<1>4. CASE ~old /\ Goto(p, "delete") /\ UNCHANGED <<form, target, deleted, inserted>>
  <2>1. TypeOK' /\ Frame(p)
    BY <1>1, <1>2, <1>4 DEF TypeOK, Goto, Frame, Steps, LockedSteps
  <2>2. pc'[p] = "delete" /\ call'[p] = call[p] /\ form'[p] = form[p] /\ res'[p] = res[p]
    BY <1>2, <1>4 DEF Goto, TypeOK
  <2>3. RequestOK(p)' /\ FoundWhole(p)' /\ DeletedWhole(p)' /\ InsertedAreFree(p)'
    BY <1>1, <1>2, <1>4, <2>2
       DEF TransactionOK, RequestOK, FoundWhole, DeletedWhole, InsertedAreFree
  <2>4. AloneInLock(p)'
    BY <1>1, <1>2, <2>1, <2>2
       DEF TransactionOK, RequestOK, AloneInLock, Holds, Frame, LockedSteps
  <2>5. form[p] \in Call
    BY <1>1, <1>2 DEF TransactionOK, RequestOK
  <2>6. form[p].base \in Namespaces /\ form[p].index \in Indexes \cup {NoIndex}
    BY <2>5 DEF Call
  <2>7. CurrentIndex(form[p].base) \in Nat
    BY <2>6, CurrentIndexType
  <2>8. form[p].index # NoIndex => CurrentIndex(form[p].base) <= form[p].index
    BY <1>4, <2>6, <2>7, BoundAssumption DEF Indexes
  <2>9. CurrentIndex(form[p].base)' = CurrentIndex(form[p].base)
    BY <1>1, <2>2 DEF CurrentIndex, RowsOf
  <2>10. IndexIsLatest(p)'
    BY <2>2, <2>8, <2>9 DEF IndexIsLatest
  <2> QED
    BY <1>1, <2>1, <2>3, <2>4, <2>10, QuietStepKeepsIInv DEF TransactionOK
<1> QED
  BY <1>3, <1>4 DEF CheckIndex

LEMMA FindRowsKeepsIInv ==
    ASSUME IInv, NEW p \in Requests, FindRows(p) PROVE IInv'
<1>1. /\ pc[p] = "delete" /\ Goto(p, "apply")
      /\ target' = [target EXCEPT ![p] = RowsOf(form[p].base)]
      /\ UNCHANGED <<form, deleted, inserted, rows>>
  BY DEF FindRows, At
<1>2. TypeOK /\ TransactionOK(p)
  BY DEF IInv
<1>3. RowsOf(form[p].base) \subseteq rows /\ rows \subseteq Row
  BY <1>2 DEF RowsOf, TypeOK
<1>4. TypeOK' /\ Frame(p)
  BY <1>1, <1>2, <1>3 DEF TypeOK, Goto, Frame, Steps, LockedSteps
<1>5. /\ pc'[p] = "apply" /\ call'[p] = call[p] /\ form'[p] = form[p] /\ res'[p] = res[p]
      /\ target'[p] = RowsOf(form[p].base)
  BY <1>1, <1>2 DEF Goto, TypeOK
<1>6. RequestOK(p)' /\ DeletedWhole(p)' /\ InsertedAreFree(p)'
  BY <1>1, <1>2, <1>5 DEF TransactionOK, RequestOK, DeletedWhole, InsertedAreFree
<1>7. FoundWhole(p)'
  <2> SUFFICES ASSUME NEW s \in RowsOf(form[p].base)
               PROVE  /\ s.base = form[p].base /\ pc'[s.by] = "done"
                      /\ \A r \in rows : r.by = s.by => r \in RowsOf(form[p].base)
    BY <1>1, <1>5 DEF FoundWhole
  <2>1. s \in rows /\ s.base = form[p].base /\ s.by \in Requests /\ pc[s.by] = "done"
    BY <1>3 DEF RowsOf, IInv, RowsAreOfEnded, Row
  <2>2. pc'[s.by] = "done"
    BY <1>1, <1>4, <2>1 DEF Frame
  <2>3. \A r \in rows : r.by = s.by => r.base = s.base
    BY <2>1, Generations
  <2> QED
    BY <2>1, <2>2, <2>3 DEF RowsOf
<1>8. AloneInLock(p)'
  BY <1>1, <1>2, <1>4, <1>5 DEF TransactionOK, AloneInLock, Holds, Frame, LockedSteps
<1>9. IndexIsLatest(p)'
  BY <1>1, <1>2, <1>5 DEF TransactionOK, IndexIsLatest, CurrentIndex, RowsOf
<1> QED
  BY <1>1, <1>4, <1>6, <1>7, <1>8, <1>9, QuietStepKeepsIInv DEF TransactionOK

LEMMA DeleteRowsKeepsIInv ==
    ASSUME IInv, NEW p \in Requests, DeleteRows(p) PROVE IInv'
<1> DEFINE next == IF form[p].op = "upsert" THEN "insert" ELSE "commit"
<1>1. /\ pc[p] = "apply" /\ Goto(p, next)
      /\ deleted' = [deleted EXCEPT ![p] = target[p] \cap rows]
      /\ UNCHANGED <<form, target, inserted, rows>>
  BY DEF DeleteRows, At
<1>2. TypeOK /\ TransactionOK(p)
  BY DEF IInv
<1>3. TypeOK' /\ Frame(p)
  BY <1>1, <1>2 DEF TypeOK, Goto, Frame, Steps, LockedSteps
<1>4. /\ pc'[p] = next /\ call'[p] = call[p] /\ form'[p] = form[p] /\ res'[p] = res[p]
      /\ deleted'[p] = target[p] \cap rows
  BY <1>1, <1>2 DEF Goto, TypeOK
<1>5. inserted[p] = {}
  BY <1>1, <1>2 DEF TransactionOK, RequestOK
<1>6. RequestOK(p)'
  BY <1>1, <1>2, <1>4, <1>5 DEF TransactionOK, RequestOK
<1>7. ASSUME NEW s \in target[p]
      PROVE  /\ s.base = form[p].base /\ pc'[s.by] = "done"
             /\ \A r \in rows : r.by = s.by => r \in target[p]
  <2>1. /\ s.base = form[p].base /\ s.by \in Requests /\ pc[s.by] = "done"
        /\ \A r \in rows : r.by = s.by => r \in target[p]
    BY <1>2 DEF TransactionOK, FoundWhole, TypeOK, Row
  <2> QED
    BY <1>1, <1>3, <2>1 DEF Frame
<1>8. FoundWhole(p)' /\ DeletedWhole(p)'
  BY <1>1, <1>4, <1>7 DEF FoundWhole, DeletedWhole
<1>9. InsertedAreFree(p)'
  BY <1>1, <1>5 DEF InsertedAreFree
<1>10. AloneInLock(p)'
  BY <1>1, <1>2, <1>3, <1>4 DEF TransactionOK, AloneInLock, Holds, Frame, LockedSteps
<1>11. IndexIsLatest(p)'
  BY <1>1, <1>2, <1>4 DEF TransactionOK, IndexIsLatest, CurrentIndex, RowsOf
<1> QED
  BY <1>1, <1>3, <1>6, <1>8, <1>9, <1>10, <1>11, QuietStepKeepsIInv DEF TransactionOK

LEMMA InsertRowsKeepsIInv ==
    ASSUME IInv, NEW p \in Requests, InsertRows(p) PROVE IInv'
<1>1. pc[p] = "insert" /\ BlockedBy(p) = {} /\ rows' = rows
  BY DEF InsertRows, At
<1>2. TypeOK /\ TransactionOK(p)
  BY DEF IInv
<1>3. form[p] \in Call /\ form[p].op = "upsert"
  BY <1>1, <1>2 DEF TransactionOK, RequestOK
<1>4. CASE Finish(p, "error")
  BY <1>1, <1>4, FinishKeepsIInv DEF Results
<1>5. CASE /\ ~Taken(p) /\ Goto(p, "commit")
           /\ inserted' = [inserted EXCEPT ![p] = NewRows(p)]
           /\ UNCHANGED <<form, target, deleted>>
  <2>1. TypeOK' /\ Frame(p)
    BY <1>1, <1>2, <1>3, <1>5, NewRowsFacts DEF TypeOK, Goto, Frame, Steps, LockedSteps
  <2>2. /\ pc'[p] = "commit" /\ call'[p] = call[p] /\ form'[p] = form[p] /\ res'[p] = res[p]
        /\ inserted'[p] = NewRows(p)
    BY <1>2, <1>5 DEF Goto, TypeOK
  <2>3. NewRows(p)' = NewRows(p)
    BY <2>2 DEF NewRows
  <2>4. RequestOK(p)'
    BY <1>1, <1>2, <1>3, <1>5, <2>2, <2>3 DEF TransactionOK, RequestOK
  <2>5. ASSUME NEW s \in target[p] \cup deleted[p] PROVE pc'[s.by] = "done"
    <3>1. s.by \in Requests /\ pc[s.by] = "done"
      BY <1>2 DEF TransactionOK, FoundWhole, DeletedWhole, TypeOK, Row
    <3> QED
      BY <1>1, <2>1, <3>1 DEF Frame
  <2>6. FoundWhole(p)' /\ DeletedWhole(p)'
    BY <1>1, <1>2, <1>5, <2>2, <2>5 DEF TransactionOK, FoundWhole, DeletedWhole
  <2>7. InsertedAreFree(p)'
    <3> SUFFICES ASSUME NEW r \in NewRows(p)
                 PROVE  /\ \A s \in rows \ deleted[p] : s.ns # r.ns
                        /\ \A q \in Requests \ {p} : \A s \in inserted[q] : s.ns # r.ns
      BY <1>1, <1>5, <2>1, <2>2 DEF InsertedAreFree, Frame
    <3>1. r.ns \in form[p].members
      BY <1>3, NewRowsFacts
    <3>2. \A s \in rows \ deleted[p] : s.ns # r.ns
      BY <1>5, <3>1 DEF Taken
    <3>3. \A q \in Requests \ {p} : \A s \in inserted[q] : s.ns # r.ns
      BY <1>1, <3>1 DEF BlockedBy
    <3> QED
      BY <3>2, <3>3
  <2>8. AloneInLock(p)'
    BY <1>1, <1>2, <2>1, <2>2 DEF TransactionOK, AloneInLock, Holds, Frame, LockedSteps
  <2>9. IndexIsLatest(p)'
    BY <1>1, <1>2, <2>2 DEF TransactionOK, IndexIsLatest, CurrentIndex, RowsOf
  <2> QED
    BY <1>1, <2>1, <2>4, <2>6, <2>7, <2>8, <2>9, QuietStepKeepsIInv DEF TransactionOK
<1> QED
  BY <1>4, <1>5 DEF InsertRows

\* What ends a request before it has stored anything.
LEMMA EndKeepsIInv ==
    ASSUME IInv, NEW p \in Requests, Lose(p) \/ DeadlockVictim(p) PROVE IInv'
<1>1. CASE Lose(p)
  BY <1>1, FinishKeepsIInv DEF Lose, Results
<1>2. CASE DeadlockVictim(p)
  <2>1. PICK S \in SUBSET Requests : p \in S /\ Circle(S)
    BY <1>2 DEF DeadlockVictim
  <2>2. PICK q \in S : q \in BlockedBy(p)
    BY <2>1 DEF Circle
  <2>3. pc[p] \notin {"idle", "done"}
    BY <2>2 DEF BlockedBy
  <2> QED
    BY <1>2, <2>3, FinishKeepsIInv DEF DeadlockVictim, Results
<1> QED
  BY <1>1, <1>2

-----------------------------------------------------------------------------
(* The commit of request p                                                 *)

Visible(p) == (rows \ deleted[p]) \cup inserted[p]

\* What p deletes and inserts is of its own composite, and of that composite
\* nothing else is left.
LEMMA OwnRows ==
    ASSUME IInv, NEW p \in Requests, pc[p] = "commit"
    PROVE  /\ form[p] \in Call /\ form[p].op \in {"upsert", "destroy"}
           /\ \A r \in deleted[p] \cup inserted[p] : r.base = form[p].base
           /\ form[p].op = "upsert" =>
                 /\ inserted[p] = NewRows(p) /\ form[p].base \in form[p].members
                 /\ \A r \in rows \ deleted[p] : r.base # form[p].base
           /\ form[p].op = "destroy" =>
                 /\ inserted[p] = {}
                 /\ \/ deleted[p] \cap rows = {}
                    \/ \A r \in rows \ deleted[p] : r.base # form[p].base
<1>1. TransactionOK(p)
  BY DEF IInv
<1>2. /\ form[p] \in Call /\ form[p].op \in {"upsert", "destroy"}
      /\ inserted[p] = IF form[p].op = "upsert" THEN NewRows(p) ELSE {}
      /\ form[p].op = "upsert" => form[p].base \in form[p].members
  BY <1>1 DEF TransactionOK, RequestOK
<1>3. \A r \in inserted[p] : r.base = form[p].base
  BY <1>2, NewRowsFacts
<1>4. \A r \in deleted[p] : r.base = form[p].base
  BY <1>1 DEF TransactionOK, DeletedWhole
<1>5. ASSUME form[p].op = "upsert", NEW r \in rows \ deleted[p], r.base = form[p].base
      PROVE  FALSE
  <2>1. PICK s \in rows : s.base = r.base /\ s.ns = r.base /\ s.by = r.by
    BY Generations
  <2>2. s \notin deleted[p]
    BY <1>1, <2>1 DEF TransactionOK, DeletedWhole
  <2>3. PICK n \in inserted[p] : n.ns = form[p].base
    BY <1>2, <1>5, NewRowsFacts
  <2> QED
    BY <1>1, <1>5, <2>1, <2>2, <2>3 DEF TransactionOK, InsertedAreFree
<1>6. ASSUME NEW s \in deleted[p] \cap rows, NEW r \in rows, r.base = form[p].base
      PROVE  r \in deleted[p]
  <2>1. s.base = form[p].base
    BY <1>4
  <2>2. r.by = s.by
    BY <1>6, <2>1, Generations
  <2> QED
    BY <1>1, <2>2 DEF TransactionOK, DeletedWhole
<1> QED
  BY <1>2, <1>3, <1>4, <1>5, <1>6

\* The commit replaces one composite and leaves the others alone.
LEMMA CommittedRows ==
    ASSUME IInv, NEW p \in Requests, pc[p] = "commit", rows' = Visible(p), form' = form
    PROVE  /\ \A b : b # form[p].base => RowsOf(b)' = RowsOf(b)
           /\ form[p].op = "upsert" => RowsOf(form[p].base)' = NewRows(p)
           /\ form[p].op = "destroy" => \/ rows' = rows
                                        \/ RowsOf(form[p].base)' = {}
<1>1. \A b : b # form[p].base => RowsOf(b)' = RowsOf(b)
  BY OwnRows DEF RowsOf, Visible
<1>2. form[p].op = "upsert" => RowsOf(form[p].base)' = NewRows(p)
  <2>1. SUFFICES ASSUME form[p].op = "upsert" PROVE RowsOf(form[p].base)' = NewRows(p)
    OBVIOUS
  <2>2. /\ inserted[p] = NewRows(p)
        /\ \A r \in NewRows(p) : r.base = form[p].base
        /\ \A r \in rows \ deleted[p] : r.base # form[p].base
    BY <2>1, OwnRows, NewRowsFacts
  <2>3. RowsOf(form[p].base)' = {r \in Visible(p) : r.base = form[p].base}
    BY DEF RowsOf
  <2> QED
    BY <2>2, <2>3 DEF Visible
<1>3. form[p].op = "destroy" => rows' = rows \/ RowsOf(form[p].base)' = {}
  BY OwnRows DEF RowsOf, Visible
<1> QED
  BY <1>1, <1>2, <1>3

LEMMA StoringCommitKeepsIInv ==
    ASSUME IInv, NEW p \in Requests, pc[p] = "commit", rows' = Visible(p), Finish(p, "ok")
    PROVE  IInv'
<1>1. TypeOK /\ TransactionOK(p)
  BY DEF IInv
<1>2. /\ form' = form /\ call' = call /\ pc'[p] = "done"
      /\ target'[p] = {} /\ deleted'[p] = {} /\ inserted'[p] = {}
  BY <1>1 DEF Finish, TypeOK
<1>3. Frame(p)
  BY <1>1 DEF Finish, Frame, TypeOK
<1>4. /\ form[p] \in Call
      /\ inserted[p] = IF form[p].op = "upsert" THEN NewRows(p) ELSE {}
  BY OwnRows
<1>5. \A r \in inserted[p] : r.by = p /\ r.base = form[p].base
  BY <1>4, NewRowsFacts
<1>6. TypeOK'
  BY <1>1 DEF TypeOK, Finish, Steps, Results, Visible
<1>7. NamespaceInOneComposite'
  <2>1. \A r, s \in rows : r.ns = s.ns => r = s
    BY DEF IInv, NamespaceInOneComposite
  <2>2. \A r, s \in inserted[p] : r.ns = s.ns => r = s
    BY <1>4, NewRowsFacts
  <2>3. \A r \in inserted[p] : \A s \in rows \ deleted[p] : s.ns # r.ns
    BY <1>1 DEF TransactionOK, InsertedAreFree
  <2> QED
    BY <2>1, <2>2, <2>3 DEF NamespaceInOneComposite, Visible
<1>8. ASSUME NEW r \in rows'
      PROVE  RowsOf(r.base)' = NewRows(r.by) /\ r.base \in form[r.by].members
  <2>1. CASE r \in inserted[p]
    BY <1>2, <1>4, <1>5, <2>1, OwnRows, CommittedRows
  <2>2. CASE r \notin inserted[p]
    <3>1. r \in rows \ deleted[p]
      BY <2>2 DEF Visible
    <3>2. RowsOf(r.base) = NewRows(r.by) /\ r.base \in form[r.by].members
      BY <3>1 DEF IInv, WholeRegistration
    <3>3. CASE r.base # form[p].base
      BY <1>2, <3>2, <3>3, CommittedRows
    <3>4. CASE r.base = form[p].base
      <4>1. form[p].op = "destroy" /\ deleted[p] \cap rows = {} /\ inserted[p] = {}
        BY <3>1, <3>4, OwnRows
      <4>2. rows' = rows
        BY <4>1 DEF Visible
      <4> QED
        BY <3>2, <4>2 DEF RowsOf
    <3> QED
      BY <3>3, <3>4
  <2> QED
    BY <2>1, <2>2
<1>9. WholeRegistration'
  BY <1>2, <1>8 DEF WholeRegistration, NewRows
<1>10. RowsAreOfEnded'
  <2>1. ASSUME NEW r \in rows PROVE pc'[r.by] = "done"
    <3>1. r.by \in Requests /\ pc[r.by] = "done"
      BY <1>1 DEF IInv, RowsAreOfEnded, TypeOK, Row
    <3> QED
      BY <1>3, <3>1 DEF Frame
  <2> QED
    BY <1>2, <1>5, <2>1 DEF RowsAreOfEnded, Visible
<1>11. TransactionOK(p)'
  <2>1. RequestOK(p)'
    BY <1>1, <1>2 DEF TransactionOK, RequestOK
  <2>2. FoundWhole(p)' /\ DeletedWhole(p)' /\ InsertedAreFree(p)'
    BY <1>2 DEF FoundWhole, DeletedWhole, InsertedAreFree
  <2>3. AloneInLock(p)' /\ IndexIsLatest(p)'
    BY <1>2 DEF AloneInLock, Holds, IndexIsLatest, LockedSteps
  <2> QED
    BY <2>1, <2>2, <2>3 DEF TransactionOK
<1>12. ASSUME NEW q \in Requests, q # p PROVE TransactionOK(q)'
  <2>1. pc'[q] = pc[q] /\ call'[q] = call[q] /\ form'[q] = form[q] /\ res'[q] = res[q]
        /\ target'[q] = target[q] /\ deleted'[q] = deleted[q] /\ inserted'[q] = inserted[q]
    BY <1>3, <1>12 DEF Frame
  <2>2. TransactionOK(q)
    BY DEF IInv
  <2>3. RequestOK(q)'
    BY <2>1, <2>2 DEF TransactionOK, RequestOK, NewRows
  <2>4. ASSUME NEW s \in target[q] \cup deleted[q]
        PROVE  /\ pc'[s.by] = "done"
               /\ \A r \in rows' : r.by = s.by => r \in rows
    <3>1. s.by \in Requests /\ pc[s.by] = "done"
      BY <1>1, <2>2 DEF TransactionOK, FoundWhole, DeletedWhole, TypeOK, Row
    <3> QED
      BY <1>3, <1>5, <3>1 DEF Frame, Visible
  <2>5. FoundWhole(q)' /\ DeletedWhole(q)'
    BY <2>1, <2>2, <2>4 DEF TransactionOK, FoundWhole, DeletedWhole
  <2>6. InsertedAreFree(q)'
    <3> SUFFICES ASSUME NEW r \in inserted[q]
                 PROVE  /\ \A s \in Visible(p) \ deleted[q] : s.ns # r.ns
                        /\ \A o \in Requests \ {q} : \A s \in inserted'[o] : s.ns # r.ns
      BY <2>1 DEF InsertedAreFree
    <3>1. /\ \A s \in rows \ deleted[q] : s.ns # r.ns
          /\ \A o \in Requests \ {q} : \A s \in inserted[o] : s.ns # r.ns
      BY <2>2 DEF TransactionOK, InsertedAreFree
    <3> QED
      BY <1>2, <1>3, <1>12, <3>1 DEF Frame, Visible
  <2>7. AloneInLock(q)'
    BY <1>2, <2>1, <2>2, <1>3 DEF TransactionOK, AloneInLock, Holds, Frame, LockedSteps
  <2>8. IndexIsLatest(q)'
    <3> SUFFICES ASSUME pc[q] \in {"delete", "apply", "insert", "commit"},
                        form[q].op = "upsert", form[q].index # NoIndex
                 PROVE  CurrentIndex(form[q].base)' <= form[q].index
      BY <1>2, <2>1 DEF IndexIsLatest
    <3> DEFINE b == form[q].base
    <3>1. CurrentIndex(b) <= form[q].index
      BY <2>2 DEF TransactionOK, IndexIsLatest
    <3>2. form[q].index \in Nat
      BY <2>2, BoundAssumption DEF TransactionOK, RequestOK, Call, Indexes
    <3>3. CASE RowsOf(b)' = RowsOf(b)
      BY <1>2, <3>1, <3>3 DEF CurrentIndex
    <3>4. CASE RowsOf(b)' # RowsOf(b)
      <4>1. b = form[p].base
        BY <1>2, <3>4, CommittedRows
      <4>2. form[p].op # "upsert"
        BY <1>12, <2>2, <4>1 DEF TransactionOK, AloneInLock, Holds, LockedSteps
      <4>3. RowsOf(b)' = {}
        BY <1>2, <3>4, <4>1, <4>2, OwnRows, CommittedRows DEF RowsOf
      <4>4. CurrentIndex(b)' = 0
        BY <4>3 DEF CurrentIndex
      <4> QED
        BY <1>2, <3>2, <4>4
    <3> QED
      BY <3>3, <3>4
  <2> QED
    BY <2>3, <2>5, <2>6, <2>7, <2>8 DEF TransactionOK
<1> QED
  BY <1>6, <1>7, <1>9, <1>10, <1>11, <1>12 DEF IInv

LEMMA CommitKeepsIInv ==
    ASSUME IInv, NEW p \in Requests, Commit(p) PROVE IInv'
<1>1. pc[p] = "commit"
  BY DEF Commit, At
<1>2. \/ rows' = Visible(p) /\ Finish(p, "ok")
      \/ rows' = rows /\ Finish(p, "error")
  BY DEF Commit, Visible
<1> QED
  BY <1>1, <1>2, StoringCommitKeepsIInv, FinishKeepsIInv DEF Results

-----------------------------------------------------------------------------
(* The invariants                                                          *)

LEMMA StutterKeepsIInv ==
    ASSUME IInv, UNCHANGED vars PROVE IInv'
<1>1. TypeOK' /\ NamespaceInOneComposite' /\ RowsAreOfEnded'
  BY DEF IInv, vars, TypeOK, NamespaceInOneComposite, RowsAreOfEnded
<1>2. WholeRegistration'
  BY DEF IInv, vars, WholeRegistration, RowsOf, NewRows
<1>3. ASSUME NEW p \in Requests PROVE TransactionOK(p)'
  <2>1. TransactionOK(p)
    BY DEF IInv
  <2>2. RequestOK(p)'
    BY <2>1 DEF vars, TransactionOK, RequestOK, NewRows
  <2>3. FoundWhole(p)' /\ DeletedWhole(p)' /\ InsertedAreFree(p)'
    BY <2>1 DEF vars, TransactionOK, FoundWhole, DeletedWhole, InsertedAreFree
  <2>4. AloneInLock(p)' /\ IndexIsLatest(p)'
    BY <2>1 DEF vars, TransactionOK, AloneInLock, Holds, IndexIsLatest, CurrentIndex, RowsOf
  <2> QED
    BY <2>2, <2>3, <2>4 DEF TransactionOK
<1> QED
  BY <1>1, <1>2, <1>3 DEF IInv

\* The inductive invariant: what every request has found, deleted and inserted
\* but not committed is all of one composite's last registration and nothing
\* that another request could still change.
THEOREM Inductive == Spec => []IInv
<1>1. ASSUME IInv, [Next]_vars PROVE IInv'
  <2>1. ASSUME NEW p \in Requests, Submit(p) \/ Serve(p) \/ Lose(p) PROVE IInv'
    BY <1>1, <2>1, SubmitKeepsIInv, StartKeepsIInv, ReadForCleanupKeepsIInv,
       ReadForJoinKeepsIInv, LockKeepsIInv, CheckIndexKeepsIInv, FindRowsKeepsIInv,
       DeleteRowsKeepsIInv, InsertRowsKeepsIInv, CommitKeepsIInv, EndKeepsIInv DEF Serve
  <2> QED
    BY <1>1, <2>1, StutterKeepsIInv DEF Next
<1> QED
  BY <1>1, InitIInv, PTL DEF Spec

\* Every variable of the registration of composites keeps its type.
THEOREM TypeCorrect == Spec => []TypeOK
BY Inductive, PTL DEF IInv

\* Whatever upserts, destroys, clean-ups and joins overlap, no namespace is
\* stored in two composites.
THEOREM DisjointComposites == Spec => []NamespaceInOneComposite
BY Inductive, PTL DEF IInv

\* A composite is stored as one request wrote it, all of it and nothing else,
\* with its baseline among its members.
THEOREM WholeComposites == Spec => []WholeRegistration
BY Inductive, PTL DEF IInv

-----------------------------------------------------------------------------
(* The refinement of CompositeRegistry                                     *)

MembersOf(b) == {r.ns : r \in RowsOf(b)}

IndexOf(b) == IF \E r \in RowsOf(b) : r.index # NoIndex THEN CurrentIndex(b) ELSE NoIndex

LEMMA SameRowsStutter ==
    ASSUME rows' = rows
    PROVE  UNCHANGED <<[b \in Namespaces |-> MembersOf(b)], [b \in Namespaces |-> IndexOf(b)]>>
<1>1. \A b : RowsOf(b)' = RowsOf(b)
  BY DEF RowsOf
<1>2. \A b : MembersOf(b)' = MembersOf(b) /\ IndexOf(b)' = IndexOf(b)
  BY <1>1 DEF MembersOf, IndexOf, CurrentIndex
<1> QED
  BY <1>2

\* What is stored of a composite after the commit of p.
LEMMA CommittedComposites ==
    ASSUME IInv, NEW p \in Requests, pc[p] = "commit", rows' = Visible(p), form' = form
    PROVE  /\ \A b : b # form[p].base => MembersOf(b)' = MembersOf(b) /\ IndexOf(b)' = IndexOf(b)
           /\ \A b : b = form[p].base /\ form[p].op = "upsert" =>
                        MembersOf(b)' = form[p].members /\ IndexOf(b)' = form[p].index
           /\ \A b : b = form[p].base /\ form[p].op = "destroy" /\ rows' # rows =>
                        MembersOf(b)' = {} /\ IndexOf(b)' = NoIndex
<1>1. \A b : b # form[p].base => MembersOf(b)' = MembersOf(b) /\ IndexOf(b)' = IndexOf(b)
  BY CommittedRows DEF MembersOf, IndexOf, CurrentIndex
<1>2. ASSUME NEW b, b = form[p].base, form[p].op = "upsert"
      PROVE  MembersOf(b)' = form[p].members /\ IndexOf(b)' = form[p].index
  <2>1. RowsOf(b)' = NewRows(p) /\ form[p] \in Call /\ b \in form[p].members
    BY <1>2, CommittedRows, OwnRows
  <2>2. {r.ns : r \in NewRows(p)} = form[p].members
    BY <2>1, NewRowsFacts
  <2>3. MembersOf(b)' = form[p].members
    BY <2>1, <2>2 DEF MembersOf
  <2>4. \E r \in NewRows(p) : r.index = form[p].index
    <3>1. [base |-> form[p].base, ns |-> form[p].base, by |-> p, index |-> form[p].index]
             \in NewRows(p)
      BY <1>2, <2>1 DEF NewRows
    <3> QED
      BY <3>1
  <2>5. \A r \in NewRows(p) : r.index = NoIndex \/ r.index = form[p].index
    BY <2>1, NewRowsFacts
  <2>6. CASE form[p].index = NoIndex
    BY <2>1, <2>3, <2>5, <2>6 DEF IndexOf
  <2>7. CASE form[p].index # NoIndex
    <3>1. {r.index : r \in NewRows(p)} \ {NoIndex} = {form[p].index}
      BY <2>4, <2>5, <2>7
    <3>2. CurrentIndex(b)' = form[p].index
      BY <2>1, <3>1 DEF CurrentIndex
    <3> QED
      BY <2>1, <2>3, <2>4, <2>7, <3>2 DEF IndexOf
  <2> QED
    BY <2>6, <2>7
<1>3. ASSUME NEW b, b = form[p].base, form[p].op = "destroy", rows' # rows
      PROVE  MembersOf(b)' = {} /\ IndexOf(b)' = NoIndex
  <2>1. RowsOf(b)' = {}
    BY <1>3, CommittedRows
  <2> QED
    BY <2>1 DEF MembersOf, IndexOf
<1> QED
  BY <1>1, <1>2, <1>3

LEMMA CommitRefines ==
    ASSUME IInv, NEW p \in Requests, pc[p] = "commit", rows' = Visible(p), form' = form,
           rows' # rows
    PROVE  Registry!Next
<1>1. form[p] \in Call /\ form[p].op \in {"upsert", "destroy"}
  BY OwnRows
<1> PICK b \in Namespaces, M \in SUBSET Namespaces, i \in Indexes \cup {NoIndex} :
       form[p].base = b /\ form[p].members = M /\ form[p].index = i
  BY <1>1 DEF Call
<1>2. CASE form[p].op = "upsert"
  <2>1. b \in M
    BY <1>2, OwnRows
  <2>2. ASSUME NEW other \in Namespaces \ {b} PROVE MembersOf(other) \cap M = {}
    <3>1. SUFFICES ASSUME NEW r \in rows, r.base = other, r.ns \in M PROVE FALSE
      BY DEF MembersOf, RowsOf
    <3>2. r \notin deleted[p]
      BY <2>2, <3>1, OwnRows
    <3>3. PICK n \in inserted[p] : n.ns = r.ns
      BY <1>1, <1>2, <3>1, OwnRows, NewRowsFacts
    <3> QED
      BY <3>2, <3>3 DEF IInv, TransactionOK, InsertedAreFree
  <2>3. ASSUME i # NoIndex
        PROVE  (IF IndexOf(b) = NoIndex THEN 0 ELSE IndexOf(b)) <= i
    <3>1. CurrentIndex(b) <= i
      BY <1>2, <2>3 DEF IInv, TransactionOK, IndexIsLatest
    <3>2. i \in Nat
      BY <1>1, <2>3, BoundAssumption DEF Indexes
    <3> QED
      BY <3>1, <3>2 DEF IndexOf
  <2>4. /\ [c \in Namespaces |-> MembersOf(c)]'
              = [[c \in Namespaces |-> MembersOf(c)] EXCEPT ![b] = M]
        /\ [c \in Namespaces |-> IndexOf(c)]'
              = [[c \in Namespaces |-> IndexOf(c)] EXCEPT ![b] = i]
    BY <1>2, CommittedComposites
  <2>5. Registry!Replace(b, M, i)
    BY <1>1, <2>1, <2>2, <2>3, <2>4
       DEF Registry!Replace, Registry!Current, MembersOf, IndexOf
  <2> QED
    BY <1>1, <2>5 DEF Registry!Next
<1>3. CASE form[p].op = "destroy"
  <2>1. /\ [c \in Namespaces |-> MembersOf(c)]'
              = [[c \in Namespaces |-> MembersOf(c)] EXCEPT ![b] = {}]
        /\ [c \in Namespaces |-> IndexOf(c)]'
              = [[c \in Namespaces |-> IndexOf(c)] EXCEPT ![b] = NoIndex]
    BY <1>3, CommittedComposites
  <2>2. Registry!Destroy(b)
    BY <2>1 DEF Registry!Destroy, MembersOf, IndexOf
  <2> QED
    BY <1>1, <2>2 DEF Registry!Next
<1> QED
  BY <1>1, <1>2, <1>3

LEMMA StepRefines ==
    ASSUME IInv, [Next]_vars
    PROVE  [Registry!Next]_<<[b \in Namespaces |-> MembersOf(b)],
                             [b \in Namespaces |-> IndexOf(b)]>>
<1>1. CASE rows' = rows
  BY <1>1, SameRowsStutter
<1>2. CASE rows' # rows
  <2>1. PICK p \in Requests : Submit(p) \/ Serve(p) \/ Lose(p)
    BY <1>2 DEF Next, vars
  <2>2. Commit(p)
    BY <1>2, <2>1 DEF Submit, Serve, Start, ReadForCleanup, ReadForJoin, Lock, CheckIndex,
       FindRows, DeleteRows, InsertRows, DeadlockVictim, Lose
  <2>3. pc[p] = "commit" /\ rows' = Visible(p) /\ form' = form
    BY <1>2, <2>2 DEF Commit, At, Visible, Finish
  <2> QED
    BY <1>2, <2>3, CommitRefines
<1> QED
  BY <1>1, <1>2

\* A reader of the tables sees what CompositeRegistry promises: a commit
\* replaces or destroys one composite at once, with namespaces that no other
\* composite has and an index that is not behind, and nothing else shows.
THEOREM RefinesRegistry == Spec => ImplementsRegistry
<1>1. Init => Registry!Init
  BY DEF Init, Registry!Init, RowsOf
<1>2. IInv /\ [Next]_vars
        => [Registry!Next]_<<[b \in Namespaces |-> MembersOf(b)],
                             [b \in Namespaces |-> IndexOf(b)]>>
  BY StepRefines
<1> QED
  BY <1>1, <1>2, Inductive, PTL DEF Spec, ImplementsRegistry, Registry!Spec, MembersOf, IndexOf

\* A clean-up that is answered with success leaves its namespace out of the
\* composite in which it was found, whatever was committed in between.
THEOREM CleanedNamespaceIsOut == Spec => CleanedNamespaceLeaves
<1>1. ASSUME IInv, [Next]_vars, NEW p \in Requests,
             pc[p] = "commit", res'[p] = "ok", call[p].op = "cleanup", form[p].op = "upsert",
             NEW r \in rows', r.base = form[p].base, r.ns = call[p].base
      PROVE  FALSE
  <2>1. TypeOK /\ res[p] = "none" /\ call[p].base \notin form[p].members
    BY <1>1 DEF IInv, TransactionOK, RequestOK
  <2>2. PICK q \in Requests : Submit(q) \/ Serve(q) \/ Lose(q)
    BY <1>1, <2>1 DEF Next, vars
  <2>3. q = p
    BY <1>1, <2>1, <2>2 DEF TypeOK, Submit, Serve, Start, ReadForCleanup, ReadForJoin, Lock,
       CheckIndex, FindRows, DeleteRows, InsertRows, Commit, DeadlockVictim, Lose, Goto, Finish
  <2>4. Commit(p) \/ DeadlockVictim(p) \/ Lose(p)
    BY <1>1, <2>2, <2>3 DEF At, Submit, Serve, Start, ReadForCleanup, ReadForJoin, Lock,
       CheckIndex, FindRows, DeleteRows, InsertRows
  <2>5. rows' = Visible(p) /\ form' = form
    BY <1>1, <2>1, <2>4 DEF TypeOK, Commit, Visible, DeadlockVictim, Lose, Finish
  <2>6. r \in RowsOf(form[p].base)'
    BY <1>1, <2>5 DEF RowsOf
  <2>7. r \in NewRows(p)
    BY <1>1, <2>5, <2>6, CommittedRows
  <2> QED
    BY <1>1, <2>1, <2>7, OwnRows, NewRowsFacts
<1>2. IInv /\ [Next]_vars
        => [\A p \in Requests :
              /\ pc[p] = "commit" /\ res'[p] = "ok"
              /\ call[p].op = "cleanup" /\ form[p].op = "upsert"
              => ~\E r \in rows' : r.base = form[p].base /\ r.ns = call[p].base]_vars
  BY <1>1
<1> QED
  BY <1>2, Inductive, PTL DEF Spec, CleanedNamespaceLeaves

=============================================================================
