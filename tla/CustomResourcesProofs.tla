------------------------ MODULE CustomResourcesProofs ------------------------
(***************************************************************************)
(* CustomResources for every number of requests and resources: its types,  *)
(* what a completed row of the wait list says of its topic, and that the   *)
(* list forgets no resource.                                               *)
(***************************************************************************)
EXTENDS CustomResources, FiniteSetTheorems, TLAPS

-----------------------------------------------------------------------------
(* The inductive invariant                                                 *)

\* What a request has at hand at each of its steps.
RequestOK(p) ==
    /\ IF pc[p] = "idle" THEN call[p] = NoCall ELSE call[p] \in Call
    /\ pc[p] \notin {"idle", "terminate", "cleanup", "done"} => call[p].op \in {"create", "delete"}
    /\ pc[p] = "terminate" => call[p].op = "terminate"
    /\ pc[p] = "cleanup" => call[p].op = "cleanup"
    /\ pc[p] = "check" /\ cur[p] = NoRow => call[p].op = "create"
    /\ pc[p] = "wait" => /\ call[p].op = "create" /\ call[p].cr.kind = "Topic"
                         /\ call[p].cr.template # NoTemplate
    /\ pc[p] \notin {"check", "exec", "pick", "fail", "complete"} => cur[p] = NoRow
    /\ pc[p] \in {"fail", "complete"} => cur[p] # NoRow
    /\ pc[p] \in {"idle", "done"} => todo[p] = {}

\* A row is the topic of a request that has ended, and names a template.
IsWaiting(r) ==
    /\ pc[r.id] = "done" /\ call[r.id].cr = r.cr
    /\ r.cr.kind = "Topic" /\ r.cr.template # NoTemplate

RowsAreWaiting ==
    /\ \A r \in waits : IsWaiting(r)
    /\ \A p \in Requests : \A r \in todo[p] : IsWaiting(r)
    /\ \A p \in Requests : cur[p] # NoRow => IsWaiting(cur[p])

NamesAreUnique == \A r, s \in waits : r.cr.name = s.cr.name => r = s

\* A waiting topic that is about to be completed has been registered, unless its
\* row says otherwise by now; in production only a clean-up takes the topic and
\* its template away, and the row with them.
RunIsRegistered(p) ==
    load.prodMode /\ pc[p] = "complete" /\ cur[p] # NoRow =>
        \A r \in waits : r.id = cur[p].id /\ r.status = "IN_PROGRESS" =>
            r.cr.template \in templates /\ topics[r.cr.name] # Absent

\* Before a request works on the list its own resource has been applied.
OwnIsApplied(p) ==
    load.prodMode /\ NoCleanupAsked /\ (pc[p] \in {"scan", "pick", "dequeue"} \/ cur[p] # NoRow) =>
        topics[call[p].cr.name] # Absent \/ call[p].cr.name \in templates

\* With one request at a time, the rows it has read are as they were read.
ReadIsCurrent(p) ==
    /\ \A r \in todo[p] : r \in waits /\ r.status = "IN_PROGRESS"
    /\ cur[p] # NoRow =>
          /\ \A r \in waits : r.id = cur[p].id => r.status # "TERMINATED"
          /\ \A r \in todo[p] : r.id # cur[p].id

SerialOK ==
    load.maxActive = 1 =>
        /\ \A p, q \in Active : p = q
        /\ \A p \in Requests : ReadIsCurrent(p)

IInv ==
    /\ TypeOK
    /\ \A p \in Requests : RequestOK(p)
    /\ RowsAreWaiting
    /\ NamesAreUnique
    /\ \A p \in Requests : RunIsRegistered(p)
    /\ \A p \in Requests : OwnIsApplied(p)
    /\ IsFiniteSet(Active)
    /\ SerialOK

-----------------------------------------------------------------------------
(* Facts about calls, rows and the end of a step                           *)

LEMMA CallFacts ==
    ASSUME NEW c \in Call
    PROVE  /\ c.op \in {"create", "delete", "terminate", "cleanup"}
           /\ c.op \in {"create", "delete"} => c.cr \in Resource
BY DEF Call

LEMMA LoadFacts ==
    ASSUME NEW l \in Loads
    PROVE  /\ l.prodMode \in BOOLEAN /\ l.maxActive \in Nat
           /\ l.calls \in [Requests -> SUBSET Call]
BY InputAssumption

\* The row that UpdateStatus leaves in the place of r.
LEMMA WithStatusFacts ==
    ASSUME NEW r \in Row, NEW s \in Statuses
    PROVE  \E w \in Row : /\ w.id = r.id /\ w.cr = r.cr /\ w.status = s
                          /\ WithStatus(r, s) = (waits \ {r}) \cup {w}
<1>1. [r EXCEPT !.status = s] \in Row
  BY DEF Row
<1>2. /\ [r EXCEPT !.status = s].id = r.id /\ [r EXCEPT !.status = s].cr = r.cr
      /\ [r EXCEPT !.status = s].status = s
  BY DEF Row
<1> QED
  BY <1>1, <1>2 DEF WithStatus

\* A request inserts one row.
LEMMA OneRowPerId ==
    ASSUME IInv, NEW r \in waits, NEW s \in waits, r.id = s.id
    PROVE  r = s
<1>1. r.cr = s.cr
  BY DEF IInv, RowsAreWaiting, IsWaiting
<1> QED
  BY <1>1 DEF IInv, NamesAreUnique

LEMMA InitIInv == Init => IInv
<1> SUFFICES ASSUME Init PROVE IInv
  OBVIOUS
<1>1. TypeOK
  BY DEF Init, TypeOK, Steps, Results
<1>2. Active = {}
  BY DEF Init, Active
<1>3. ASSUME NEW p \in Requests
      PROVE  RequestOK(p) /\ RunIsRegistered(p) /\ OwnIsApplied(p) /\ ReadIsCurrent(p)
  BY DEF Init, RequestOK, RunIsRegistered, OwnIsApplied, ReadIsCurrent
<1>4. RowsAreWaiting /\ NamesAreUnique
  BY DEF Init, RowsAreWaiting, NamesAreUnique
<1>5. IsFiniteSet(Active) /\ SerialOK
  BY <1>2, <1>3, FS_EmptySet DEF SerialOK
<1> QED
  BY <1>1, <1>3, <1>4, <1>5 DEF IInv

\* What a step of p leaves to the other requests.
Frame(p) ==
    \A q \in Requests \ {p} :
        /\ pc'[q] = pc[q] /\ call'[q] = call[q] /\ todo'[q] = todo[q]
        /\ cur'[q] = cur[q] /\ res'[q] = res[q]

\* A waiting row is of a request that does nothing any more.
LEMMA RowsStayWaiting ==
    ASSUME IInv, NEW p \in Requests, pc[p] # "done", Frame(p), NEW r \in Row, IsWaiting(r)
    PROVE  IsWaiting(r)'
BY DEF Row, IsWaiting, Frame

\* What remains to be shown of a step of a request that is being served.
LEMMA StepKeepsIInv ==
    ASSUME IInv, NEW p \in Requests, pc[p] \notin {"idle", "done"},
           Frame(p), load' = load, TypeOK', RequestOK(p)',
           \A r \in waits' : IsWaiting(r)',
           \A r \in todo'[p] : IsWaiting(r)',
           cur'[p] # NoRow => IsWaiting(cur[p])',
           NamesAreUnique',
           \A q \in Requests : RunIsRegistered(q)' /\ OwnIsApplied(q)',
           load.maxActive = 1 => ReadIsCurrent(p)'
    PROVE  IInv'
<1>1. ASSUME NEW q \in Requests, q # p PROVE RequestOK(q)'
  BY <1>1 DEF IInv, RequestOK, Frame
<1>2. RowsAreWaiting'
  <2>1. ASSUME NEW q \in Requests, q # p
        PROVE  /\ \A r \in todo'[q] : IsWaiting(r)'
               /\ cur'[q] # NoRow => IsWaiting(cur[q])'
    <3>1. todo[q] \subseteq Row /\ cur[q] \in Row \cup {NoRow}
      BY DEF IInv, TypeOK
    <3>2. /\ \A r \in todo[q] : IsWaiting(r)
          /\ cur[q] # NoRow => IsWaiting(cur[q])
      BY DEF IInv, RowsAreWaiting
    <3>3. todo'[q] = todo[q] /\ cur'[q] = cur[q]
      BY <2>1 DEF Frame
    <3>4. \A r \in todo[q] : IsWaiting(r)'
      BY <3>1, <3>2, RowsStayWaiting
    <3>5. cur[q] # NoRow => /\ pc'[cur[q].id] = "done" /\ call'[cur[q].id].cr = cur[q].cr
                            /\ cur[q].cr.kind = "Topic" /\ cur[q].cr.template # NoTemplate
      BY <3>1, <3>2 DEF Row, IsWaiting, Frame
    <3> QED
      BY <3>3, <3>4, <3>5 DEF IsWaiting
  <2> QED
    BY <2>1 DEF RowsAreWaiting
<1>3. Active' \subseteq Active
  BY DEF Active, Frame
<1>4. IsFiniteSet(Active')
  BY <1>3, FS_Subset DEF IInv
<1>5. SerialOK'
  <2> SUFFICES ASSUME load.maxActive = 1
               PROVE  /\ \A q, r \in Active' : q = r
                      /\ \A q \in Requests : ReadIsCurrent(q)'
    BY DEF SerialOK
  <2>1. \A q, r \in Active : q = r
    BY DEF IInv, SerialOK
  <2>2. ASSUME NEW q \in Requests, q # p PROVE ReadIsCurrent(q)'
    <3>1. pc[q] \in {"idle", "done"}
      BY <2>1, <2>2 DEF Active
    <3>2. todo[q] = {} /\ cur[q] = NoRow
      BY <3>1 DEF IInv, RequestOK
    <3> QED
      BY <2>2, <3>2 DEF Frame, ReadIsCurrent
  <2> QED
    BY <1>3, <2>1, <2>2
<1> QED
  BY <1>1, <1>2, <1>4, <1>5 DEF IInv

-----------------------------------------------------------------------------
(* Steps that change neither the list nor what is registered               *)

LEMMA LocalStepKeepsIInv ==
    ASSUME IInv, NEW p \in Requests, pc[p] \notin {"idle", "done"}, Frame(p),
           call' = call, UNCHANGED <<load, templates, topics, waits>>, TypeOK', RequestOK(p)',
           \A r \in todo'[p] : IsWaiting(r)',
           cur'[p] # NoRow => IsWaiting(cur[p])',
           RunIsRegistered(p)', OwnIsApplied(p)',
           load.maxActive = 1 => ReadIsCurrent(p)'
    PROVE  IInv'
<1>1. ASSUME NEW r \in waits PROVE IsWaiting(r)'
  BY RowsStayWaiting DEF IInv, TypeOK, RowsAreWaiting
<1>2. NamesAreUnique'
  BY DEF IInv, NamesAreUnique
<1>3. ASSUME NEW q \in Requests PROVE RunIsRegistered(q)' /\ OwnIsApplied(q)'
  <2>1. CASE q # p
    BY <2>1 DEF IInv, RunIsRegistered, OwnIsApplied, NoCleanupAsked, Frame
  <2> QED
    BY <2>1
<1> QED
  BY <1>1, <1>2, <1>3, StepKeepsIInv

\* A request ends without effect: an error, a crash.
LEMMA FinishKeepsIInv ==
    ASSUME IInv, NEW p \in Requests, NEW s \in Results, pc[p] \notin {"idle", "done"},
           Finish(p, s), UNCHANGED <<load, templates, topics, waits>>
    PROVE  IInv'
<1>1. TypeOK
  BY DEF IInv
<1>2. TypeOK' /\ Frame(p)
  BY <1>1 DEF TypeOK, Finish, Frame, Steps
<1>3. /\ pc'[p] = "done" /\ call' = call /\ todo'[p] = {} /\ cur'[p] = NoRow
  BY <1>1 DEF TypeOK, Finish
<1>4. RequestOK(p)'
  BY <1>3 DEF IInv, RequestOK
<1>5. RunIsRegistered(p)' /\ OwnIsApplied(p)' /\ ReadIsCurrent(p)'
  BY <1>3 DEF RunIsRegistered, OwnIsApplied, ReadIsCurrent
<1> QED
  BY <1>2, <1>3, <1>4, <1>5, LocalStepKeepsIInv

\* A request goes on with the resource it has at hand.
LEMMA GotoKeepsIInv ==
    ASSUME IInv, NEW p \in Requests, NEW s \in Steps, pc[p] \in {"check", "exec"},
           s \in {"exec", "wait", "pick", "fail"},
           Goto(p, s), UNCHANGED <<load, todo, cur, templates, topics, waits>>,
           s = "wait" => /\ cur[p] = NoRow /\ call[p].cr.kind = "Topic"
                         /\ call[p].cr.template # NoTemplate /\ pc[p] = "check",
           s \in {"pick", "fail"} => cur[p] # NoRow,
           pc[p] = "exec" => s = "fail"
    PROVE  IInv'
<1>1. TypeOK /\ RequestOK(p)
  BY DEF IInv
<1>2. TypeOK' /\ Frame(p)
  BY <1>1 DEF TypeOK, Goto, Frame
<1>3. pc'[p] = s /\ call' = call
  BY <1>1 DEF TypeOK, Goto
<1>4. RequestOK(p)'
  BY <1>1, <1>3 DEF RequestOK
<1>5. /\ todo[p] \subseteq Row /\ \A r \in todo[p] : IsWaiting(r)
      /\ cur[p] # NoRow => cur[p] \in Row /\ IsWaiting(cur[p])
  BY <1>1 DEF IInv, TypeOK, RowsAreWaiting
<1>6. \A r \in todo'[p] : IsWaiting(r)'
  BY <1>2, <1>5, RowsStayWaiting
<1>7. cur'[p] # NoRow => IsWaiting(cur[p])'
  <2>1. cur[p] # NoRow => /\ pc'[cur[p].id] = "done" /\ call[cur[p].id].cr = cur[p].cr
                          /\ cur[p].cr.kind = "Topic" /\ cur[p].cr.template # NoTemplate
    BY <1>2, <1>5 DEF Row, IsWaiting, Frame
  <2> QED
    BY <1>3, <2>1 DEF IsWaiting
<1>8. RunIsRegistered(p)'
  BY <1>3 DEF RunIsRegistered
<1>9. OwnIsApplied(p)'
  BY <1>3 DEF IInv, OwnIsApplied, NoCleanupAsked
<1>10. load.maxActive = 1 => ReadIsCurrent(p)'
  BY DEF IInv, SerialOK, ReadIsCurrent
<1> QED
  BY <1>2, <1>3, <1>4, <1>6, <1>7, <1>8, <1>9, <1>10, LocalStepKeepsIInv

LEMMA CheckKeepsIInv ==
    ASSUME IInv, NEW p \in Requests, Check(p) PROVE IInv'
<1> DEFINE s == IF ~DependencyMissing(Subject(p)) THEN "exec"
                ELSE IF cur[p] = NoRow THEN "wait" ELSE "pick"
<1>1. /\ pc[p] = "check" /\ Goto(p, s)
      /\ UNCHANGED <<load, todo, cur, templates, topics, waits>>
  BY DEF Check
<1>2. s \in Steps /\ s \in {"exec", "wait", "pick", "fail"}
  BY DEF Steps
<1>3. s = "wait" => /\ cur[p] = NoRow /\ call[p].cr.kind = "Topic"
                    /\ call[p].cr.template # NoTemplate
  BY DEF DependencyMissing, Subject
<1>4. s \in {"pick", "fail"} => cur[p] # NoRow
  OBVIOUS
<1> QED
  BY <1>1, <1>2, <1>3, <1>4, GotoKeepsIInv

LEMMA HandlerFailsKeepsIInv ==
    ASSUME IInv, NEW p \in Requests, CheckFails(p) \/ ExecFails(p) PROVE IInv'
<1>1. pc[p] \in {"check", "exec"} /\ HandlerFails(p)
  BY DEF CheckFails, ExecFails
<1>2. CASE Finish(p, "error")
  BY <1>1, <1>2, FinishKeepsIInv DEF HandlerFails, Results
<1>3. CASE Goto(p, "fail") /\ cur[p] # NoRow /\ UNCHANGED <<todo, cur>>
  BY <1>1, <1>3, GotoKeepsIInv DEF HandlerFails, Steps
<1> QED
  BY <1>1, <1>2, <1>3 DEF HandlerFails

LEMMA LoseKeepsIInv ==
    ASSUME IInv, NEW p \in Requests, Lose(p) PROVE IInv'
BY FinishKeepsIInv DEF Lose, Active, Results

LEMMA FindWaitingKeepsIInv ==
    ASSUME IInv, NEW p \in Requests, FindWaiting(p) PROVE IInv'
<1> DEFINE found == {r \in waits : r.status = "IN_PROGRESS"}
<1>1. /\ pc[p] = "scan" /\ Goto(p, "pick") /\ todo' = [todo EXCEPT ![p] = found]
      /\ UNCHANGED <<load, cur, templates, topics, waits>>
  BY DEF FindWaiting
<1>2. TypeOK /\ RequestOK(p)
  BY DEF IInv
<1>3. TypeOK' /\ Frame(p)
  BY <1>1, <1>2 DEF TypeOK, Goto, Frame, Steps
<1>4. pc'[p] = "pick" /\ call' = call /\ todo'[p] = found /\ cur'[p] = NoRow
  BY <1>1, <1>2 DEF TypeOK, Goto, RequestOK
<1>5. RequestOK(p)'
  BY <1>1, <1>2, <1>4 DEF RequestOK
<1>6. \A r \in todo'[p] : IsWaiting(r)'
  <2>1. \A r \in waits : r \in Row /\ IsWaiting(r)
    BY <1>2 DEF IInv, RowsAreWaiting, TypeOK
  <2> QED
    BY <1>1, <1>3, <1>4, <2>1, RowsStayWaiting
<1>7. RunIsRegistered(p)'
  BY <1>4 DEF RunIsRegistered
<1>8. OwnIsApplied(p)'
  BY <1>1, <1>4 DEF IInv, OwnIsApplied, NoCleanupAsked
<1>9. ReadIsCurrent(p)'
  BY <1>1, <1>4 DEF ReadIsCurrent
<1> QED
  BY <1>1, <1>3, <1>4, <1>5, <1>6, <1>7, <1>8, <1>9, LocalStepKeepsIInv

LEMMA PickKeepsIInv ==
    ASSUME IInv, NEW p \in Requests, Pick(p) PROVE IInv'
<1>1. pc[p] = "pick" /\ UNCHANGED <<load, templates, topics, waits>>
  BY DEF Pick
<1>2. TypeOK /\ RequestOK(p)
  BY DEF IInv
<1>3. todo[p] \subseteq Row /\ \A r \in todo[p] : IsWaiting(r)
  BY <1>2 DEF IInv, TypeOK, RowsAreWaiting
<1>4. ASSUME NEW r \in todo[p], cur' = [cur EXCEPT ![p] = r],
             todo' = [todo EXCEPT ![p] = @ \ {r}], Goto(p, "check")
      PROVE  IInv'
  <2>1. TypeOK' /\ Frame(p)
    BY <1>1, <1>2, <1>3, <1>4 DEF TypeOK, Goto, Frame, Steps
  <2>2. pc'[p] = "check" /\ call' = call /\ todo'[p] = todo[p] \ {r} /\ cur'[p] = r
    BY <1>2, <1>4 DEF TypeOK, Goto
  <2>3. RequestOK(p)'
    BY <1>1, <1>2, <1>3, <2>2, NoRowAssumption DEF RequestOK
  <2>4. ASSUME NEW s \in todo[p] PROVE IsWaiting(s)'
    BY <1>1, <1>3, <2>1, RowsStayWaiting
  <2>5. IsWaiting(cur[p])'
    BY <2>2, <2>4 DEF IsWaiting
  <2>6. RunIsRegistered(p)' /\ OwnIsApplied(p)'
    BY <1>1, <2>2 DEF IInv, RunIsRegistered, OwnIsApplied, NoCleanupAsked
  <2>7. ASSUME load.maxActive = 1 PROVE ReadIsCurrent(p)'
    <3>1. \A s \in todo[p] : s \in waits /\ s.status = "IN_PROGRESS"
      BY <2>7 DEF IInv, SerialOK, ReadIsCurrent
    <3>2. \A s \in waits : s.id = r.id => s = r
      BY <3>1, OneRowPerId
    <3>3. \A s \in waits : s.id = r.id => s.status # "TERMINATED"
      BY <3>1, <3>2
    <3> QED
      BY <1>1, <2>2, <3>1, <3>2, <3>3 DEF ReadIsCurrent
  <2> QED
    BY <1>1, <2>1, <2>2, <2>3, <2>4, <2>5, <2>6, <2>7, LocalStepKeepsIInv
<1>5. ASSUME cur' = [cur EXCEPT ![p] = NoRow], Goto(p, "dequeue"), UNCHANGED todo, todo[p] = {}
      PROVE  IInv'
  <2>1. TypeOK' /\ Frame(p)
    BY <1>1, <1>2, <1>5 DEF TypeOK, Goto, Frame, Steps
  <2>2. pc'[p] = "dequeue" /\ call' = call /\ todo'[p] = {} /\ cur'[p] = NoRow
    BY <1>2, <1>5 DEF TypeOK, Goto
  <2>3. RequestOK(p)'
    BY <1>1, <1>2, <2>2 DEF RequestOK
  <2>4. RunIsRegistered(p)' /\ OwnIsApplied(p)' /\ ReadIsCurrent(p)'
    BY <1>1, <2>2 DEF IInv, RunIsRegistered, OwnIsApplied, NoCleanupAsked, ReadIsCurrent
  <2> QED
    BY <1>1, <2>1, <2>2, <2>3, <2>4, LocalStepKeepsIInv
<1> QED
  BY <1>4, <1>5 DEF Pick

\* A new request: the others go on as before.
LEMMA SubmitKeepsIInv ==
    ASSUME IInv, NEW p \in Requests, Submit(p) PROVE IInv'
<1>1. /\ pc[p] = "idle" /\ Cardinality(Active) < load.maxActive
      /\ UNCHANGED <<load, todo, cur, res, templates, topics, waits>>
  BY DEF Submit
<1>2. TypeOK /\ RequestOK(p)
  BY DEF IInv
<1> DEFINE first(c) == CASE c.op \in {"terminate", "cleanup"} -> c.op
                         [] c.op = "create" -> "check"
                         [] c.op = "delete" -> "exec"
<1>3. PICK c \in load.calls[p] : /\ call' = [call EXCEPT ![p] = c]
                                 /\ pc' = [pc EXCEPT ![p] = first(c)]
  BY DEF Submit
<1>4. c \in Call /\ c # NoCall
  BY <1>2, LoadFacts, DistinctAssumption DEF TypeOK
<1>5. /\ c.op \in {"terminate", "cleanup"} => first(c) = c.op
      /\ c.op = "create" => first(c) = "check"
      /\ c.op = "delete" => first(c) = "exec"
  OBVIOUS
<1> HIDE DEF first
<1>6. /\ first(c) \in {"check", "exec", "terminate", "cleanup"}
      /\ c.op \in {"create", "delete", "terminate", "cleanup"}
  BY <1>4, <1>5, CallFacts
<1>7. TypeOK'
  BY <1>1, <1>2, <1>3, <1>4, <1>6 DEF TypeOK, Steps
<1>8. Frame(p)
  BY <1>1, <1>2, <1>3 DEF TypeOK, Frame
<1>9. /\ pc'[p] = first(c) /\ call'[p] = c /\ call[p] = NoCall
      /\ todo[p] = {} /\ cur[p] = NoRow
  BY <1>1, <1>2, <1>3 DEF TypeOK, RequestOK
<1>10. ASSUME NEW q \in Requests PROVE RequestOK(q)'
  <2>1. CASE q = p
    BY <1>1, <1>4, <1>5, <1>6, <1>9, <2>1 DEF RequestOK
  <2>2. CASE q # p
    BY <1>1, <1>8, <2>2 DEF IInv, RequestOK, Frame
  <2> QED
    BY <2>1, <2>2
<1>11. RowsAreWaiting'
  <2>1. \A r \in Row : IsWaiting(r) => IsWaiting(r)'
    BY <1>1, <1>8, RowsStayWaiting
  <2>2. \A q \in Requests : cur[q] # NoRow => IsWaiting(cur[q])'
    <3> SUFFICES ASSUME NEW q \in Requests, cur[q] # NoRow PROVE IsWaiting(cur[q])'
      OBVIOUS
    <3> PICK r \in Row : cur[q] = r
      BY <1>2 DEF TypeOK
    <3>1. IsWaiting(r)'
      BY <2>1 DEF IInv, RowsAreWaiting
    <3> QED
      BY <1>1, <3>1 DEF IsWaiting
  <2> QED
    BY <1>1, <1>2, <2>1, <2>2 DEF IInv, RowsAreWaiting, TypeOK
<1>12. NamesAreUnique'
  BY <1>1 DEF IInv, NamesAreUnique
<1>13. NoCleanupAsked' => NoCleanupAsked
  BY <1>8, <1>9 DEF NoCleanupAsked, Frame
<1>14. ASSUME NEW q \in Requests PROVE RunIsRegistered(q)' /\ OwnIsApplied(q)'
  <2>1. CASE q = p
    BY <1>1, <1>6, <1>9, <2>1 DEF RunIsRegistered, OwnIsApplied
  <2>2. CASE q # p
    BY <1>1, <1>8, <1>13, <2>2 DEF IInv, RunIsRegistered, OwnIsApplied, Frame
  <2> QED
    BY <2>1, <2>2
<1>15. Active' \subseteq Active \cup {p}
  BY <1>8 DEF Active, Frame
<1>16. IsFiniteSet(Active)'
  <2>1. IsFiniteSet(Active \cup {p})
    BY FS_AddElement DEF IInv
  <2> QED
    BY <1>15, <2>1, FS_Subset
<1>17. SerialOK'
  <2> SUFFICES ASSUME load.maxActive = 1
               PROVE  /\ \A q, r \in Active' : q = r
                      /\ \A q \in Requests : ReadIsCurrent(q)'
    BY <1>1 DEF SerialOK
  <2>1. Cardinality(Active) = 0
    BY <1>1, FS_CardinalityType DEF IInv
  <2>2. Active = {}
    BY <2>1, FS_EmptySet DEF IInv
  <2> QED
    BY <1>1, <1>15, <2>2 DEF IInv, SerialOK, ReadIsCurrent
<1> QED
  BY <1>7, <1>10, <1>11, <1>12, <1>14, <1>16, <1>17 DEF IInv

-----------------------------------------------------------------------------
(* The handlers                                                            *)

LEMMA SubjectIsResource ==
    ASSUME IInv, NEW p \in Requests, pc[p] \in {"check", "exec"}
    PROVE  Subject(p) \in Resource
<1>1. cur[p] \in Row \cup {NoRow} /\ call[p] \in Call /\ call[p].op \in {"create", "delete"}
  BY DEF IInv, TypeOK, RequestOK
<1>2. call[p].cr \in Resource
  BY <1>1, CallFacts
<1> QED
  BY <1>1, <1>2 DEF Subject, Row

\* What a handler leaves of the topics and templates.
LEMMA AppliedFacts ==
    ASSUME IInv, NEW p \in Requests, pc[p] = "exec", Applied(p), UNCHANGED load
    PROVE  /\ templates' \subseteq Names
           /\ topics' \in [Names -> templates' \cup {NoTemplate, Absent}]
           /\ load.prodMode =>
                /\ templates \subseteq templates'
                /\ \A n \in Names : topics[n] # Absent => topics'[n] # Absent
                /\ topics'[Subject(p).name] # Absent \/ Subject(p).name \in templates'
           /\ Creates(p) /\ Subject(p).kind = "Topic" =>
                /\ topics'[Subject(p).name] # Absent
                /\ Subject(p).template \in templates' \cup {NoTemplate}
<1> DEFINE cr == Subject(p)
<1>1. cr.name \in Names /\ cr.template \in Names \cup {NoTemplate}
  BY SubjectIsResource DEF Resource
<1>2. templates \subseteq Names /\ topics \in [Names -> templates \cup {NoTemplate, Absent}]
  BY DEF IInv, TypeOK
<1>3. CASE /\ cr.kind = "Topic" /\ ~DependencyMissing(cr)
           /\ topics' = [topics EXCEPT ![cr.name] = cr.template] /\ UNCHANGED templates
  <2>1. cr.template \in templates \cup {NoTemplate}
    BY <1>1, <1>3 DEF DependencyMissing
  <2> QED
    BY <1>1, <1>2, <1>3, <2>1, DistinctAssumption
<1>4. CASE /\ cr.kind = "TopicTemplate" /\ templates' = templates \cup {cr.name}
           /\ UNCHANGED topics
  BY <1>1, <1>2, <1>4
<1>5. CASE /\ ~Creates(p) /\ ~load.prodMode /\ topics' \in {topics, [topics EXCEPT ![cr.name] = Absent]}
           /\ UNCHANGED templates
  BY <1>1, <1>2, <1>5
<1>6. CASE /\ ~Creates(p) /\ ~load.prodMode /\ \A n \in Names : topics[n] # cr.name
           /\ templates' = templates \ {cr.name} /\ UNCHANGED topics
  BY <1>1, <1>2, <1>6
<1> QED
  BY <1>3, <1>4, <1>5, <1>6 DEF Applied

LEMMA ExecKeepsIInv ==
    ASSUME IInv, NEW p \in Requests, Exec(p) PROVE IInv'
<1> DEFINE s == IF cur[p] = NoRow THEN "scan" ELSE "complete"
<1>1. /\ pc[p] = "exec" /\ Applied(p) /\ Goto(p, s)
      /\ UNCHANGED <<load, todo, cur, waits>>
  BY DEF Exec
<1>2. TypeOK /\ RequestOK(p)
  BY DEF IInv
<1>3. TypeOK' /\ Frame(p)
  BY <1>1, <1>2, AppliedFacts DEF TypeOK, Goto, Frame, Steps
<1>4. pc'[p] = s /\ call' = call /\ call[p] \in Call /\ call[p].op \in {"create", "delete"}
  BY <1>1, <1>2 DEF TypeOK, Goto, RequestOK
<1>5. RequestOK(p)'
  BY <1>1, <1>2, <1>4 DEF RequestOK
<1>6. \A r \in Row : IsWaiting(r) => IsWaiting(r)'
  BY <1>1, <1>3, RowsStayWaiting
<1>7. \A r \in waits \cup todo[p] : IsWaiting(r)'
  BY <1>2, <1>6 DEF IInv, RowsAreWaiting, TypeOK
<1>8. cur'[p] # NoRow => IsWaiting(cur[p])'
  <2> SUFFICES ASSUME cur[p] # NoRow PROVE IsWaiting(cur[p])'
    BY <1>1
  <2> PICK r \in Row : cur[p] = r
    BY <1>2 DEF TypeOK
  <2>1. IsWaiting(r)'
    BY <1>6 DEF IInv, RowsAreWaiting
  <2> QED
    BY <1>1, <2>1 DEF IsWaiting
<1>9. NamesAreUnique'
  BY <1>1, AppliedFacts DEF IInv, NamesAreUnique
<1>10. ASSUME NEW q \in Requests PROVE RunIsRegistered(q)'
  <2> SUFFICES ASSUME load.prodMode, pc'[q] = "complete", cur[q] # NoRow, NEW r \in waits,
                      r.id = cur[q].id, r.status = "IN_PROGRESS"
               PROVE  r.cr.template \in templates' /\ topics'[r.cr.name] # Absent
    BY <1>1 DEF RunIsRegistered
  <2>1. r.cr.name \in Names
    BY <1>2 DEF TypeOK, Row, Resource
  <2>2. CASE q = p
    <3>1. Subject(p) = r.cr /\ Creates(p) /\ r.cr.kind = "Topic" /\ r.cr.template # NoTemplate
      BY <2>2 DEF IInv, RowsAreWaiting, IsWaiting, Subject, Creates
    <3> QED
      BY <1>1, <3>1, AppliedFacts
  <2>3. CASE q # p
    <3>1. pc[q] = "complete"
      BY <1>3, <2>3 DEF Frame
    <3>2. r.cr.template \in templates /\ topics[r.cr.name] # Absent
      BY <3>1 DEF IInv, RunIsRegistered
    <3> QED
      BY <1>1, <2>1, <3>2, AppliedFacts
  <2> QED
    BY <2>2, <2>3
<1>11. ASSUME NEW q \in Requests PROVE OwnIsApplied(q)'
  <2> SUFFICES ASSUME load.prodMode, NoCleanupAsked,
                      pc'[q] \in {"scan", "pick", "dequeue"} \/ cur[q] # NoRow
               PROVE  topics'[call[q].cr.name] # Absent \/ call[q].cr.name \in templates'
    BY <1>1, <1>4 DEF OwnIsApplied, NoCleanupAsked
  <2>1. CASE q = p /\ cur[p] = NoRow
    BY <1>1, <2>1, AppliedFacts DEF Subject
  <2>2. CASE q # p \/ cur[p] # NoRow
    <3>1. pc[q] \in {"scan", "pick", "dequeue"} \/ cur[q] # NoRow
      BY <2>2, <1>3 DEF Frame
    <3>2. topics[call[q].cr.name] # Absent \/ call[q].cr.name \in templates
      BY <3>1 DEF IInv, OwnIsApplied
    <3>3. call[q].cr.name \in Names
      <4>1. call[q] \in Call /\ call[q].op \in {"create", "delete"}
        BY <3>1 DEF IInv, RequestOK
      <4> QED
        BY <4>1, CallFacts DEF Resource
    <3> QED
      BY <1>1, <3>2, <3>3, AppliedFacts
  <2> QED
    BY <2>1, <2>2
<1>12. load.maxActive = 1 => ReadIsCurrent(p)'
  BY <1>1 DEF IInv, SerialOK, ReadIsCurrent
<1> QED
  BY <1>1, <1>3, <1>4, <1>5, <1>7, <1>8, <1>9, <1>10, <1>11, <1>12, StepKeepsIInv

-----------------------------------------------------------------------------
(* The wait list                                                           *)

\* The row s later on: its status may have changed, but not back.
SameRow(r, s) ==
    r.id = s.id /\ r.cr = s.cr /\ (r.status = "IN_PROGRESS" => s.status = "IN_PROGRESS")

\* A step of p that changes the list: rows keep their resource, and new ones
\* are of p.
LEMMA ListStepKeepsIInv ==
    ASSUME IInv, NEW p \in Requests, pc[p] \notin {"idle", "done"}, Frame(p),
           call' = call, UNCHANGED <<load, templates, topics>>, TypeOK', RequestOK(p)',
           \A r \in waits' : \/ \E s \in waits : SameRow(r, s)
                             \/ r.id = p /\ IsWaiting(r)',
           \A r \in todo'[p] : IsWaiting(r)',
           cur'[p] # NoRow => IsWaiting(cur[p])',
           NamesAreUnique', RunIsRegistered(p)', OwnIsApplied(p)',
           load.maxActive = 1 => ReadIsCurrent(p)'
    PROVE  IInv'
<1>1. ASSUME NEW r \in waits' PROVE IsWaiting(r)'
  <2>1. ASSUME NEW s \in waits, r.id = s.id, r.cr = s.cr PROVE IsWaiting(r)'
    <3>1. IsWaiting(s) /\ s \in Row
      BY DEF IInv, RowsAreWaiting, TypeOK
    <3>2. IsWaiting(s)'
      BY <3>1, RowsStayWaiting
    <3> QED
      BY <2>1, <3>2 DEF IsWaiting
  <2> QED
    BY <2>1 DEF SameRow
<1>2. ASSUME NEW q \in Requests, q # p PROVE RunIsRegistered(q)'
  <2> SUFFICES ASSUME load.prodMode, pc[q] = "complete", cur[q] # NoRow,
                      NEW r \in waits', r.id = cur[q].id, r.status = "IN_PROGRESS"
               PROVE  r.cr.template \in templates /\ topics[r.cr.name] # Absent
    BY <1>2 DEF RunIsRegistered, Frame
  <2>1. r.id # p
    BY DEF IInv, RowsAreWaiting, IsWaiting
  <2> QED
    BY <2>1 DEF IInv, RunIsRegistered, SameRow
<1>3. ASSUME NEW q \in Requests, q # p PROVE OwnIsApplied(q)'
  BY <1>3 DEF IInv, OwnIsApplied, NoCleanupAsked, Frame
<1>4. \A q \in Requests : RunIsRegistered(q)' /\ OwnIsApplied(q)'
  BY <1>2, <1>3
<1> QED
  BY <1>1, <1>4, StepKeepsIInv

LEMMA LastListStepKeepsIInv ==
    ASSUME IInv, NEW p \in Requests, NEW s \in Results, pc[p] \notin {"idle", "done"},
           Finish(p, s), UNCHANGED <<load, templates, topics>>, waits' \subseteq Row,
           \A r \in waits' : \/ \E w \in waits : SameRow(r, w)
                             \/ r.id = p /\ IsWaiting(r)',
           NamesAreUnique'
    PROVE  IInv'
<1>1. TypeOK
  BY DEF IInv
<1>2. TypeOK' /\ Frame(p)
  BY <1>1 DEF TypeOK, Finish, Frame, Steps
<1>3. /\ pc'[p] = "done" /\ call' = call /\ todo'[p] = {} /\ cur'[p] = NoRow
  BY <1>1 DEF TypeOK, Finish
<1>4. RequestOK(p)'
  BY <1>3 DEF IInv, RequestOK
<1>5. RunIsRegistered(p)' /\ OwnIsApplied(p)' /\ ReadIsCurrent(p)'
  BY <1>3 DEF RunIsRegistered, OwnIsApplied, ReadIsCurrent
<1> QED
  BY <1>2, <1>3, <1>4, <1>5, ListStepKeepsIInv

LEMMA PutToWaitListKeepsIInv ==
    ASSUME IInv, NEW p \in Requests, PutToWaitList(p) PROVE IInv'
<1>1. /\ pc[p] = "wait" /\ Finish(p, "accepted") /\ UNCHANGED <<load, templates, topics>>
      /\ waits' = IF RowsNamed(call[p].cr.name) # {} THEN waits
                  ELSE waits \cup {[id |-> p, cr |-> call[p].cr, status |-> "IN_PROGRESS"]}
  BY DEF PutToWaitList
<1>2. TypeOK /\ RequestOK(p) /\ NamesAreUnique
  BY DEF IInv
<1>3. call[p].cr \in Resource /\ call[p].cr.kind = "Topic" /\ call[p].cr.template # NoTemplate
  BY <1>1, <1>2, CallFacts DEF RequestOK
<1>4. [id |-> p, cr |-> call[p].cr, status |-> "IN_PROGRESS"] \in Row
  BY <1>3 DEF Row, Statuses
<1> PICK own \in Row : own = [id |-> p, cr |-> call[p].cr, status |-> "IN_PROGRESS"]
  BY <1>4
<1>5. own.id = p /\ IsWaiting(own)'
  BY <1>1, <1>2, <1>3 DEF IsWaiting, Finish, TypeOK
<1>6. waits' \subseteq Row /\ waits' \subseteq waits \cup {own}
  BY <1>1, <1>2 DEF TypeOK
<1>7. NamesAreUnique'
  BY <1>1, <1>2 DEF NamesAreUnique, RowsNamed
<1> QED
  BY <1>1, <1>5, <1>6, <1>7, LastListStepKeepsIInv DEF SameRow, Results

LEMMA DequeueKeepsIInv ==
    ASSUME IInv, NEW p \in Requests, Dequeue(p) PROVE IInv'
<1>1. /\ pc[p] = "dequeue" /\ Finish(p, "ok") /\ UNCHANGED <<load, templates, topics>>
      /\ waits' \subseteq waits
  BY DEF Dequeue
<1>2. waits' \subseteq Row /\ NamesAreUnique'
  BY <1>1 DEF IInv, TypeOK, NamesAreUnique
<1> QED
  BY <1>1, <1>2, LastListStepKeepsIInv DEF SameRow, Results

\* One row of the list gets another status.
LEMMA ChangedStatus ==
    ASSUME IInv, NEW r \in waits, NEW s \in Statuses, waits' = WithStatus(r, s),
           s # "IN_PROGRESS"
    PROVE  /\ waits' \subseteq Row /\ NamesAreUnique'
           /\ \A w \in waits' : \E v \in waits : SameRow(w, v)
           /\ \A v \in waits : v.id # r.id => v \in waits'
           /\ \A w \in waits' : w.id = r.id => w.status = s
<1>1. waits \subseteq Row /\ r \in Row
  BY DEF IInv, TypeOK
<1>2. PICK w \in Row : /\ w.id = r.id /\ w.cr = r.cr /\ w.status = s
                       /\ waits' = (waits \ {r}) \cup {w}
  BY <1>1, WithStatusFacts
<1>3. NamesAreUnique'
  BY <1>2 DEF IInv, NamesAreUnique
<1>5. \A v \in waits : v.id = r.id => v = r
  BY OneRowPerId
<1>6. waits' \subseteq Row /\ \A x \in waits' : \E v \in waits : SameRow(x, v)
  BY <1>1, <1>2 DEF SameRow
<1>7. \A v \in waits : v.id # r.id => v \in waits'
  BY <1>2
<1>8. \A x \in waits' : x.id = r.id => x.status = s
  <2> SUFFICES ASSUME NEW x \in waits', x.id = r.id PROVE x.status = s
    OBVIOUS
  <2>1. x = w \/ (x \in waits /\ x # r)
    BY <1>2
  <2> QED
    BY <1>2, <1>5, <2>1
<1> QED
  BY <1>3, <1>6, <1>7, <1>8

\* MarkFailed and MarkCompleted: the row that p runs is settled.
LEMMA SettleKeepsIInv ==
    ASSUME IInv, NEW p \in Requests, NEW s \in {"FAILED", "COMPLETED"},
           NEW next \in {"complete", "pick"},
           pc[p] \in {"fail", "complete"}, UpdateStatus(p, cur[p].id, s, next)
    PROVE  IInv'
<1>1. TypeOK /\ RequestOK(p) /\ cur[p] # NoRow
  BY DEF IInv, RequestOK
<1>2. CASE Finish(p, "error") /\ UNCHANGED <<load, waits, templates, topics>>
  BY <1>2, FinishKeepsIInv DEF Results
<1>3. ASSUME NEW r \in waits, r.id = cur[p].id, waits' = WithStatus(r, s),
             Goto(p, next), UNCHANGED <<load, todo, cur, templates, topics>>
      PROVE  IInv'
  <2>2. /\ waits' \subseteq Row /\ NamesAreUnique'
        /\ \A w \in waits' : \E v \in waits : SameRow(w, v)
        /\ \A v \in waits : v.id # r.id => v \in waits'
        /\ \A w \in waits' : w.id = r.id => w.status = s
    BY <1>3, ChangedStatus DEF Statuses
  <2>3. TypeOK' /\ Frame(p)
    BY <1>1, <1>3, <2>2 DEF TypeOK, Goto, Frame, Steps
  <2>4. pc'[p] = next /\ call' = call
    BY <1>1, <1>3 DEF TypeOK, Goto
  <2>5. RequestOK(p)'
    BY <1>1, <1>3, <2>4 DEF RequestOK
  <2>6. \A v \in Row : IsWaiting(v) => IsWaiting(v)'
    BY <2>3, RowsStayWaiting
  <2>7. \A v \in todo'[p] : IsWaiting(v)'
    BY <1>1, <1>3, <2>6 DEF IInv, RowsAreWaiting, TypeOK
  <2>8. IsWaiting(cur[p])'
    <3>1. PICK v \in Row : cur[p] = v
      BY <1>1 DEF TypeOK
    <3>2. IsWaiting(v)'
      BY <1>1, <2>6, <3>1 DEF IInv, RowsAreWaiting
    <3> QED
      BY <1>3, <3>1, <3>2 DEF IsWaiting
  <2>9. RunIsRegistered(p)'
    BY <1>1, <1>3, <2>2 DEF IInv, RunIsRegistered
  <2>10. OwnIsApplied(p)'
    BY <1>1, <1>3, <2>4 DEF IInv, OwnIsApplied, NoCleanupAsked
  <2>11. load.maxActive = 1 => ReadIsCurrent(p)'
    BY <1>1, <1>3, <2>2 DEF IInv, SerialOK, ReadIsCurrent
  <2> QED
    BY <1>3, <2>2, <2>3, <2>4, <2>5, <2>7, <2>8, <2>9, <2>10, <2>11, ListStepKeepsIInv
<1> QED
  BY <1>2, <1>3 DEF UpdateStatus, RowsWithId

LEMMA TerminateKeepsIInv ==
    ASSUME IInv, NEW p \in Requests, Terminate(p) PROVE IInv'
<1>1. pc[p] = "terminate" /\ UNCHANGED <<load, templates, topics>>
  BY DEF Terminate, UpdateStatus
<1>2. CASE Finish(p, "error") /\ UNCHANGED waits
  BY <1>1, <1>2, FinishKeepsIInv DEF Results
<1>3. ASSUME NEW r \in waits, waits' = WithStatus(r, "TERMINATED"), Finish(p, "ok")
      PROVE  IInv'
  <2>1. /\ waits' \subseteq Row /\ NamesAreUnique'
        /\ \A w \in waits' : \E v \in waits : SameRow(w, v)
    BY <1>1, <1>3, ChangedStatus DEF Statuses
  <2> QED
    BY <1>1, <1>3, <2>1, LastListStepKeepsIInv DEF Results
<1> QED
  BY <1>2, <1>3 DEF Terminate, UpdateStatus, RowsWithId

LEMMA CleanupKeepsIInv ==
    ASSUME IInv, NEW p \in Requests, CleanupNamespace(p) PROVE IInv'
<1>1. /\ pc[p] = "cleanup" /\ Finish(p, "ok") /\ UNCHANGED load
      /\ topics' = [n \in Names |-> Absent] /\ templates' = {} /\ waits' = {}
  BY DEF CleanupNamespace
<1>2. TypeOK /\ RequestOK(p)
  BY DEF IInv
<1>3. TypeOK' /\ Frame(p)
  BY <1>1, <1>2 DEF TypeOK, Finish, Frame, Steps, Results
<1>4. /\ pc'[p] = "done" /\ call' = call /\ todo'[p] = {} /\ cur'[p] = NoRow
      /\ call[p].op = "cleanup" /\ call[p] # NoCall
  BY <1>1, <1>2, DistinctAssumption DEF TypeOK, Finish, RequestOK
<1>5. RequestOK(p)'
  BY <1>1, <1>2, <1>4 DEF RequestOK
<1>6. NamesAreUnique'
  BY <1>1 DEF NamesAreUnique
<1>7. ~NoCleanupAsked'
  BY <1>4 DEF NoCleanupAsked
<1>8. \A q \in Requests : RunIsRegistered(q)' /\ OwnIsApplied(q)'
  BY <1>1, <1>7 DEF RunIsRegistered, OwnIsApplied
<1>9. ReadIsCurrent(p)'
  BY <1>4 DEF ReadIsCurrent
<1> QED
  BY <1>1, <1>3, <1>4, <1>5, <1>6, <1>8, <1>9, StepKeepsIInv

-----------------------------------------------------------------------------
(* The properties                                                          *)

LEMMA StutterKeepsIInv ==
    ASSUME IInv, UNCHANGED vars PROVE IInv'
<1>1. TypeOK' /\ NamesAreUnique'
  BY DEF IInv, vars, TypeOK, NamesAreUnique
<1>2. RowsAreWaiting'
  BY DEF IInv, vars, RowsAreWaiting, IsWaiting
<1>3. \A p \in Requests : RequestOK(p)' /\ RunIsRegistered(p)' /\ OwnIsApplied(p)'
  BY DEF IInv, vars, RequestOK, RunIsRegistered, OwnIsApplied, NoCleanupAsked
<1>4. IsFiniteSet(Active)' /\ SerialOK'
  BY DEF IInv, vars, Active, SerialOK, ReadIsCurrent
<1> QED
  BY <1>1, <1>2, <1>3, <1>4 DEF IInv

\* The inductive invariant: waiting rows are of requests that have ended, and a
\* run that is about to complete a row in progress has registered its topic.
THEOREM Inductive == Spec => []IInv
<1>1. ASSUME IInv, [Next]_vars PROVE IInv'
  <2>1. ASSUME NEW p \in Requests, Submit(p) \/ Serve(p) \/ Lose(p) PROVE IInv'
    <3>1. CASE MarkFailed(p)
      BY <1>1, <3>1, SettleKeepsIInv DEF MarkFailed
    <3>2. CASE MarkCompleted(p)
      BY <1>1, <3>2, SettleKeepsIInv DEF MarkCompleted
    <3> QED
      BY <1>1, <2>1, <3>1, <3>2, SubmitKeepsIInv, CheckKeepsIInv, ExecKeepsIInv,
         HandlerFailsKeepsIInv, PutToWaitListKeepsIInv, FindWaitingKeepsIInv, PickKeepsIInv,
         TerminateKeepsIInv, DequeueKeepsIInv, CleanupKeepsIInv, LoseKeepsIInv DEF Serve
  <2> QED
    BY <1>1, <2>1, StutterKeepsIInv DEF Next
<1> QED
  BY <1>1, InitIInv, PTL DEF Spec

\* Every variable of the wait list keeps its type, and a topic refers to a
\* template that is there.
THEOREM TypeCorrect == Spec => []TypeOK
BY Inductive, PTL DEF IInv

\* In production a row that goes straight to COMPLETED is of a topic that is
\* registered with its template there, whoever runs the list, fails or crashes.
THEOREM CompletedIsRegistered == Spec => ProdCompletedIsRegistered
<1>1. ASSUME IInv, [Next]_vars, load.prodMode, NEW r \in waits, NEW s \in waits',
             r.id = s.id, r.status = "IN_PROGRESS", s.status = "COMPLETED"
      PROVE  r.cr.template \in templates /\ topics[r.cr.name] # Absent
  <2>1. s \notin waits
    BY <1>1, OneRowPerId
  <2>2. PICK p \in Requests : Submit(p) \/ Serve(p) \/ Lose(p)
    BY <1>1, <2>1 DEF Next, vars
  <2>3. ASSUME NEW i, NEW st \in Statuses, NEW next, UpdateStatus(p, i, st, next)
        PROVE  s.id = i /\ s.status = st
    <3>1. PICK v \in waits : v.id = i /\ waits' = WithStatus(v, st)
      BY <2>1, <2>3 DEF UpdateStatus, RowsWithId
    <3>2. v \in Row
      BY <1>1 DEF IInv, TypeOK
    <3> QED
      BY <2>1, <3>1, <3>2, WithStatusFacts
  <2>4. ~MarkFailed(p) /\ ~Terminate(p)
    BY <1>1, <2>3 DEF MarkFailed, Terminate, Statuses
  <2>5. CASE MarkCompleted(p)
    <3>1. r.id = cur[p].id /\ pc[p] = "complete"
      BY <1>1, <2>3, <2>5 DEF MarkCompleted, Statuses
    <3> QED
      BY <1>1, <3>1 DEF IInv, RunIsRegistered, RequestOK
  <2>6. CASE PutToWaitList(p)
    BY <1>1, <2>1, <2>6 DEF PutToWaitList
  <2> QED
    BY <2>1, <2>2, <2>4, <2>5, <2>6
       DEF Submit, Serve, Check, CheckFails, Exec, ExecFails, HandlerFails, FindWaiting, Pick,
           Lose, Dequeue, CleanupNamespace
<1>2. IInv /\ [Next]_vars
        => [load.prodMode =>
              \A r \in waits, s \in waits' :
                r.id = s.id /\ r.status = "IN_PROGRESS" /\ s.status = "COMPLETED" =>
                  r.cr.template \in templates /\ topics[r.cr.name] # Absent]_vars
  BY <1>1
<1> QED
  BY <1>2, Inductive, PTL DEF Spec, ProdCompletedIsRegistered

\* In production, and unless the namespace is cleaned up, a resource that was
\* accepted leaves the list only when a resource of its name has been applied.
THEOREM AcceptedIsNotForgotten == Spec => ProdAcceptedIsNotForgotten
<1>1. ASSUME IInv, [Next]_vars, load.prodMode, NoCleanupAsked',
             NEW r \in waits, \A s \in waits' : s.id # r.id
      PROVE  topics'[r.cr.name] # Absent \/ r.cr.name \in templates'
  <2>1. r \notin waits'
    BY <1>1
  <2>2. PICK p \in Requests : Submit(p) \/ Serve(p) \/ Lose(p)
    BY <1>1, <2>1 DEF Next, vars
  <2>3. CASE Dequeue(p)
    <3>1. r.cr.name = call[p].cr.name /\ UNCHANGED <<topics, templates>>
      BY <2>1, <2>3 DEF Dequeue, RowsNamed
    <3>2. NoCleanupAsked
      BY <1>1, <2>3 DEF Dequeue, Finish, NoCleanupAsked
    <3> QED
      BY <1>1, <2>3, <3>1, <3>2 DEF IInv, OwnIsApplied, Dequeue
  <2>4. CASE CleanupNamespace(p)
    <3>1. call'[p] = call[p] /\ call[p].op = "cleanup" /\ call[p] # NoCall
      BY <1>1, <2>4, DistinctAssumption DEF CleanupNamespace, Finish, IInv, RequestOK
    <3> QED
      BY <1>1, <3>1 DEF NoCleanupAsked
  <2>5. ASSUME NEW i, NEW st \in Statuses, NEW next, UpdateStatus(p, i, st, next)
        PROVE  \E s \in waits' : s.id = r.id
    <3>1. CASE waits' = waits
      BY <3>1
    <3>2. ASSUME NEW v \in waits, waits' = WithStatus(v, st) PROVE \E s \in waits' : s.id = r.id
      <4>1. v \in Row
        BY <1>1 DEF IInv, TypeOK
      <4> QED
        BY <3>2, <4>1, WithStatusFacts
    <3> QED
      BY <2>5, <3>1, <3>2 DEF UpdateStatus, RowsWithId
  <2>6. CASE MarkFailed(p) \/ MarkCompleted(p) \/ Terminate(p)
    BY <1>1, <2>5, <2>6 DEF MarkFailed, MarkCompleted, Terminate, Statuses
  <2>7. CASE PutToWaitList(p)
    BY <2>1, <2>7 DEF PutToWaitList
  <2> QED
    BY <2>1, <2>2, <2>3, <2>4, <2>6, <2>7
       DEF Submit, Serve, Check, CheckFails, Exec, ExecFails, HandlerFails, FindWaiting, Pick, Lose
<1>2. IInv /\ [Next]_vars
        => [load.prodMode /\ NoCleanupAsked' =>
              \A r \in waits : (\A s \in waits' : s.id # r.id) =>
                 topics'[r.cr.name] # Absent \/ r.cr.name \in templates']_vars
  BY <1>1
<1> QED
  BY <1>2, Inductive, PTL DEF Spec, ProdAcceptedIsNotForgotten

\* With one request at a time a terminated resource stays terminated as long as
\* it is listed: no run of the list settles it, and no new apply replaces it.
THEOREM TerminatedStays == Spec => TerminatedStaysTerminated
<1>1. ASSUME IInv, [Next]_vars, load.maxActive = 1,
             NEW r \in waits, r.status = "TERMINATED",
             NEW s \in waits', s.cr.name = r.cr.name
      PROVE  s.status = "TERMINATED"
  <2>1. CASE s \in waits
    BY <1>1, <2>1 DEF IInv, NamesAreUnique
  <2>2. CASE s \notin waits
    <3>1. PICK p \in Requests : Submit(p) \/ Serve(p) \/ Lose(p)
      BY <1>1, <2>2 DEF Next, vars
    <3>2. ~PutToWaitList(p)
      BY <1>1, <2>2 DEF PutToWaitList, RowsNamed
    <3>3. ASSUME NEW i, NEW st \in Statuses, NEW next, UpdateStatus(p, i, st, next)
          PROVE  r.id = i /\ s.status = st
      <4>1. PICK v \in waits : v.id = i /\ waits' = WithStatus(v, st)
        BY <2>2, <3>3 DEF UpdateStatus, RowsWithId
      <4>2. v \in Row
        BY <1>1 DEF IInv, TypeOK
      <4>3. s.cr = v.cr /\ s.status = st
        BY <2>2, <4>1, <4>2, WithStatusFacts
      <4>4. v = r
        BY <1>1, <4>3 DEF IInv, NamesAreUnique
      <4> QED
        BY <4>1, <4>3, <4>4
    <3>4. CASE MarkFailed(p) \/ MarkCompleted(p)
      <4>1. r.id = cur[p].id /\ pc[p] \in {"fail", "complete"}
        BY <3>3, <3>4 DEF MarkFailed, MarkCompleted, Statuses
      <4>2. cur[p] # NoRow
        BY <1>1, <4>1 DEF IInv, RequestOK
      <4> QED
        BY <1>1, <4>1, <4>2 DEF IInv, SerialOK, ReadIsCurrent
    <3>5. CASE Terminate(p)
      BY <3>3, <3>5 DEF Terminate, Statuses
    <3> QED
      BY <2>2, <3>1, <3>2, <3>4, <3>5
         DEF Submit, Serve, Check, CheckFails, Exec, ExecFails, HandlerFails, FindWaiting, Pick, Lose, Dequeue,
             CleanupNamespace
  <2> QED
    BY <2>1, <2>2
<1>2. IInv /\ [Next]_vars
        => [load.maxActive = 1 => \A r \in waits : r.status = "TERMINATED" =>
              \A s \in waits' : s.cr.name = r.cr.name => s.status = "TERMINATED"]_vars
  BY <1>1
<1> QED
  BY <1>2, Inductive, PTL DEF Spec, TerminatedStaysTerminated

=============================================================================
