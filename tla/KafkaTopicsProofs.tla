------------------------- MODULE KafkaTopicsProofs -------------------------
(***************************************************************************)
(* KafkaTopics for every number of requests, keys and classifiers: type    *)
(* correctness and, in production mode, the registrations, their topics,   *)
(* the clean-up of topics and the topics of requests that were answered.   *)
(***************************************************************************)
EXTENDS KafkaTopics, TLAPS

-----------------------------------------------------------------------------
(* What a request has at hand at each of its steps: TypeOK alone is not    *)
(* inductive, because a step reads fields of rows that earlier steps found.*)

SearchSteps == {"lookup", "compare", "probe", "save"}

InsertSteps == {"insert", "own", "sibling", "broker"}

StepOK(p) ==
    /\ pc[p] \notin {"idle", "done"} => call[p] \in Call
    /\ pc[p] \in SearchSteps \cup InsertSteps => call[p].op = "getOrCreate"
    /\ pc[p] \in {"sync", "syncCreate"} => call[p].op = "sync"
    /\ pc[p] \in {"compare", "save", "remove", "drop", "sync", "syncCreate"}
          => seen[p] \in Row
    /\ pc[p] \in SearchSteps \cup {"idle", "waiting", "remove", "sync", "syncCreate", "done"}
          => work[p].kind = "none"
    /\ pc[p] \in {"own", "sibling", "broker"} => work[p].row \in Row
    /\ pc[p] = "describe" => IF call[p].op = "sync"
                                THEN seen[p] \in Row /\ work[p].kind = "none"
                                ELSE work[p].row \in Row
    /\ pc[p] \in {"drop", "commit"} /\ work[p].kind # "none" => work[p].row \in Row

TypeInv == TypeOK /\ \A p \in Requests : StepOK(p)

LEMMA InitTypeInv == Init => TypeInv
<1> SUFFICES ASSUME Init PROVE TypeInv
  OBVIOUS
<1>1. regs \subseteq Row
  BY LegacyAssumption DEF Init
<1>2. ASSUME NEW k \in Keys, \E r \in regs : r.key = k
      PROVE  (CHOOSE r \in regs : r.key = k).id \in Ids
  BY <1>1, <1>2 DEF Row
<1>3. kafka \in [Keys -> Ids \cup {Absent, Foreign}]
  BY <1>2 DEF Init
<1>4. NoWork \in [kind : WorkKinds, row : Row \cup {NoRow}, claims : SUBSET Claims]
  BY DEF NoWork, WorkKinds
<1>5. TypeOK
  BY <1>1, <1>3, <1>4, InputAssumption DEF Init, TypeOK, Steps, LockedSteps, Results
<1>6. \A p \in Requests : StepOK(p)
  BY DEF Init, StepOK, SearchSteps, InsertSteps, NoWork
<1> QED
  BY <1>5, <1>6 DEF TypeInv

-----------------------------------------------------------------------------
(* A step of request p changes only p's entries of the request variables:  *)
(* it ends the request (Finish), or moves it on to step s with row x and   *)
(* work w at hand (Moves).                                                 *)

Work == [kind : WorkKinds, row : Row \cup {NoRow}, claims : SUBSET Claims]

RequestsOK ==
    /\ call \in [Requests -> Call \cup {NoCall}]
    /\ pc \in [Requests -> Steps]
    /\ seen \in [Requests -> Row \cup {NoRow}]
    /\ work \in [Requests -> Work]
    /\ res \in [Requests -> Results]

StoresOK ==
    /\ prodMode \in BOOLEAN
    /\ regs \subseteq Row
    /\ claims \subseteq Claims
    /\ kafka \in [Keys -> Ids \cup {Absent, Foreign}]
    /\ tunedBy \in [Keys -> Requests \cup {Absent}]

LEMMA TypeOKParts == TypeOK <=> RequestsOK /\ StoresOK
BY DEF TypeOK, RequestsOK, StoresOK, Work

LEMMA TypeOKPartsPrimed == TypeOK' <=> RequestsOK' /\ StoresOK'
BY DEF TypeOK, RequestsOK, StoresOK, Work

Frame(p) ==
    \A q \in Requests \ {p} :
        pc'[q] = pc[q] /\ call'[q] = call[q] /\ seen'[q] = seen[q] /\ work'[q] = work[q]

Moves(p, s, x, w) ==
    /\ Goto(p, s)
    /\ seen' = [seen EXCEPT ![p] = x]
    /\ work' = [work EXCEPT ![p] = w]

\* What remains to be shown of a step of p that keeps its frame.
LEMMA StepKeepsTypeInv ==
    ASSUME NEW p \in Requests, TypeInv, RequestsOK', StoresOK', Frame(p), StepOK(p)'
    PROVE  TypeInv'
<1>1. ASSUME NEW q \in Requests PROVE StepOK(q)'
  <2>1. CASE q = p
    BY <2>1
  <2>2. CASE q # p
    <3>1. pc'[q] = pc[q] /\ call'[q] = call[q] /\ seen'[q] = seen[q] /\ work'[q] = work[q]
      BY <2>2 DEF Frame
    <3>2. StepOK(q)
      BY DEF TypeInv
    <3> QED
      BY <3>1, <3>2 DEF StepOK
  <2> QED
    BY <2>1, <2>2
<1> QED
  BY <1>1, TypeOKPartsPrimed DEF TypeInv

LEMMA FinishKeepsTypeInv ==
    ASSUME NEW p \in Requests, NEW r \in Results, TypeInv, StoresOK', Finish(p, r)
    PROVE  TypeInv'
<1>1. RequestsOK
  BY TypeOKParts DEF TypeInv
<1>2. NoWork \in Work
  BY DEF NoWork, Work, WorkKinds
<1>3. RequestsOK'
  BY <1>1, <1>2 DEF RequestsOK, Finish, Steps
<1>4. Frame(p)
  BY <1>1 DEF RequestsOK, Finish, Frame
<1>5. StepOK(p)'
  BY <1>1 DEF RequestsOK, Finish, StepOK, NoWork, SearchSteps, InsertSteps
<1> QED
  BY <1>3, <1>4, <1>5, StepKeepsTypeInv

LEMMA MoveKeepsTypeInv ==
    ASSUME NEW p \in Requests, NEW s \in Steps, NEW x \in Row \cup {NoRow}, NEW w \in Work,
           TypeInv, StoresOK', Moves(p, s, x, w),
           pc'[p] = s /\ call'[p] = call[p] /\ seen'[p] = x /\ work'[p] = w => StepOK(p)'
    PROVE  TypeInv'
<1>1. RequestsOK
  BY TypeOKParts DEF TypeInv
<1>2. RequestsOK'
  BY <1>1 DEF RequestsOK, Moves, Goto
<1>3. Frame(p)
  BY <1>1 DEF RequestsOK, Moves, Goto, Frame
<1>4. pc'[p] = s /\ call'[p] = call[p] /\ seen'[p] = x /\ work'[p] = w
  BY <1>1 DEF RequestsOK, Moves, Goto
<1> QED
  BY <1>2, <1>3, <1>4, StepKeepsTypeInv

LEMMA ContinueKeepsTypeInv ==
    ASSUME NEW p \in Requests, NEW s \in Steps, TypeInv, StoresOK', Continue(p, s),
           pc'[p] = s /\ call'[p] = call[p] /\ seen'[p] = seen[p] /\ work'[p] = work[p]
              => StepOK(p)'
    PROVE  TypeInv'
<1>1. RequestsOK
  BY TypeOKParts DEF TypeInv
<1>2. Moves(p, s, seen[p], work[p])
  BY <1>1 DEF RequestsOK, Continue, Moves
<1>3. seen[p] \in Row \cup {NoRow} /\ work[p] \in Work
  BY <1>1 DEF RequestsOK
<1> QED
  BY <1>2, <1>3, MoveKeepsTypeInv

LEMMA StatePartsOf ==
    ASSUME NEW p \in Requests, TypeInv
    PROVE  /\ RequestsOK /\ StoresOK /\ StepOK(p)
           /\ seen[p] \in Row \cup {NoRow} /\ work[p] \in Work
BY TypeOKParts DEF TypeInv, RequestsOK

\* The claims that a search inserts are typed.
LEMMA ToMigrateType ==
    ASSUME StoresOK, NEW p \in Requests
    PROVE  ToMigrate(p) \subseteq Claims
BY DEF StoresOK, ToMigrate, Claims, Row

\* The row that a request would insert is typed.
LEMMA NewRowType ==
    ASSUME NEW p \in Requests, call[p] \in Call
    PROVE  NewRow(p) \in Row
BY DEF NewRow, Row, Call, Ids

-----------------------------------------------------------------------------
(* The actions, one lemma each                                             *)

LEMMA SubmitType ==
    ASSUME NEW p \in Requests, TypeInv, Submit(p) PROVE TypeInv'
<1>1. RequestsOK /\ StoresOK /\ StepOK(p)
  BY StatePartsOf
<1>2. StoresOK'
  BY <1>1 DEF StoresOK, Submit
<1>3. PICK c \in Calls[p] : call' = [call EXCEPT ![p] = c]
  BY DEF Submit
<1>4. c \in Call
  BY InputAssumption
<1>5. RequestsOK'
  BY <1>1, <1>3, <1>4 DEF RequestsOK, Submit, Steps
<1>6. Frame(p)
  BY <1>1, <1>3 DEF RequestsOK, Submit, Frame
<1>7. StepOK(p)'
  BY <1>1, <1>3, <1>4 DEF RequestsOK, Submit, At, StepOK, SearchSteps, InsertSteps
<1> QED
  BY <1>2, <1>5, <1>6, <1>7, StepKeepsTypeInv

LEMMA LockType ==
    ASSUME NEW p \in Requests, TypeInv, Lock(p) PROVE TypeInv'
<1>1. RequestsOK /\ StoresOK /\ StepOK(p)
  BY StatePartsOf
<1>2. StoresOK'
  BY <1>1 DEF StoresOK, Lock
<1>3. pc'[p] = "lookup" /\ call'[p] = call[p] /\ seen'[p] = seen[p] /\ work'[p] = work[p]
         => StepOK(p)'
  BY <1>1 DEF Lock, At, StepOK, SearchSteps, InsertSteps
<1> QED
  BY <1>2, <1>3, ContinueKeepsTypeInv DEF Lock, Steps, LockedSteps

LEMMA LookupType ==
    ASSUME NEW p \in Requests, TypeInv, Lookup(p) PROVE TypeInv'
<1>1. RequestsOK /\ StoresOK /\ StepOK(p) /\ seen[p] \in Row \cup {NoRow} /\ work[p] \in Work
  BY StatePartsOf
<1>2. StoresOK'
  BY <1>1 DEF StoresOK, Lookup
<1>3. CASE Finish(p, "error")
  BY <1>2, <1>3, FinishKeepsTypeInv DEF Results
<1>4. CASE /\ LookupNext(p)
           /\ work' = [work EXCEPT ![p].claims = @ \cup ToMigrate(p)]
  <2> DEFINE w == [work[p] EXCEPT !.claims = @ \cup ToMigrate(p)]
  <2>1. w \in Work /\ w.kind = work[p].kind /\ w.row = work[p].row
    BY <1>1, ToMigrateType DEF Work
  <2>2. work' = [work EXCEPT ![p] = w]
    BY <1>4
  <2>3. Matches(call[p].cls) \subseteq Row
    BY <1>1 DEF StoresOK, Matches
  <2>4. \E x \in Row \cup {NoRow}, s \in {"probe", "compare", "save"} :
           /\ Moves(p, s, x, w)
           /\ s # "probe" => x \in Row
    <3>1. CASE Matches(call[p].cls) = {} /\ UNCHANGED seen /\ Goto(p, "probe")
      <4>1. seen' = [seen EXCEPT ![p] = seen[p]]
        BY <1>1, <3>1 DEF RequestsOK
      <4> QED
        BY <1>1, <2>2, <3>1, <4>1 DEF Moves
    <3>2. CASE \E r \in Matches(call[p].cls), s \in {"probe", "compare", "save"} :
                  seen' = [seen EXCEPT ![p] = r] /\ Goto(p, s)
      BY <2>2, <2>3, <3>2 DEF Moves
    <3> QED
      BY <1>4, <3>1, <3>2 DEF LookupNext, SettingsAreEqual
  <2>5. PICK x \in Row \cup {NoRow}, s \in {"probe", "compare", "save"} :
           Moves(p, s, x, w) /\ (s # "probe" => x \in Row)
    BY <2>4
  <2>6. pc'[p] = s /\ call'[p] = call[p] /\ seen'[p] = x /\ work'[p] = w => StepOK(p)'
    BY <1>1, <2>1, <2>5 DEF StepOK, Lookup, At, SearchSteps, InsertSteps
  <2> HIDE DEF w
  <2> QED
    BY <1>2, <2>1, <2>5, <2>6, MoveKeepsTypeInv DEF Steps, LockedSteps
<1> QED
  BY <1>3, <1>4 DEF Lookup

LEMMA CompareType ==
    ASSUME NEW p \in Requests, TypeInv, Compare(p) PROVE TypeInv'
<1>1. RequestsOK /\ StoresOK /\ StepOK(p)
  BY StatePartsOf
<1>2. StoresOK'
  BY <1>1 DEF StoresOK, Compare
<1>3. CASE Finish(p, "error")
  BY <1>2, <1>3, FinishKeepsTypeInv DEF Results
<1>4. CASE Continue(p, "commit")
  <2>1. pc'[p] = "commit" /\ call'[p] = call[p] /\ seen'[p] = seen[p] /\ work'[p] = work[p]
           => StepOK(p)'
    BY <1>1 DEF Compare, At, StepOK, SearchSteps, InsertSteps
  <2> QED
    BY <1>2, <1>4, <2>1, ContinueKeepsTypeInv DEF Steps, LockedSteps
<1> QED
  BY <1>3, <1>4 DEF Compare

LEMMA ProbeType ==
    ASSUME NEW p \in Requests, TypeInv, Probe(p) PROVE TypeInv'
<1>1. RequestsOK /\ StoresOK /\ StepOK(p) /\ seen[p] \in Row \cup {NoRow} /\ work[p] \in Work
  BY StatePartsOf
<1>2. StoresOK'
  BY <1>1 DEF StoresOK, Probe
<1>3. CASE Finish(p, "error")
  BY <1>2, <1>3, FinishKeepsTypeInv DEF Results
<1>4. ASSUME NEW kind \in {"make", "adopt", "none"}, NEW s \in {"insert", "commit"},
             kind = "none" <=> s = "commit",
             Goto(p, s), UNCHANGED seen,
             work' = [work EXCEPT ![p] = [work[p] EXCEPT !.kind = kind,
                                             !.claims = work[p].claims \cup ToMigrate(p)]]
      PROVE  TypeInv'
  <2> DEFINE w == [work[p] EXCEPT !.kind = kind,
                                  !.claims = work[p].claims \cup ToMigrate(p)]
  <2>1. w \in Work /\ w.kind = kind
    BY <1>1, ToMigrateType DEF Work, WorkKinds
  <2>2. Moves(p, s, seen[p], w)
    BY <1>1, <1>4 DEF Moves, RequestsOK
  <2>3. pc'[p] = s /\ call'[p] = call[p] /\ seen'[p] = seen[p] /\ work'[p] = w
           => StepOK(p)'
    BY <1>1, <1>4, <2>1 DEF Probe, At, StepOK, SearchSteps, InsertSteps
  <2> HIDE DEF w
  <2> QED
    BY <1>1, <1>2, <2>1, <2>2, <2>3, MoveKeepsTypeInv DEF Steps, LockedSteps
<1>5. CASE ProbeNext(p) /\ ~Finish(p, "error")
  <2> DEFINE migrated == work[p].claims \cup ToMigrate(p)
  <2>1. CASE /\ work' = [work EXCEPT ![p] = [@ EXCEPT !.kind = "adopt", !.claims = migrated]]
             /\ Goto(p, "insert") /\ UNCHANGED seen
    BY <1>4, <2>1
  <2>2. CASE /\ work' = [work EXCEPT ![p] = [@ EXCEPT !.kind = "make", !.claims = migrated]]
             /\ Goto(p, "insert") /\ UNCHANGED seen
    BY <1>4, <2>2
  <2>3. CASE work' = [work EXCEPT ![p].claims = migrated] /\ Goto(p, "commit") /\ UNCHANGED seen
    <3>1. [work[p] EXCEPT !.claims = migrated]
             = [work[p] EXCEPT !.kind = "none", !.claims = migrated]
      BY <1>1 DEF Work, Probe, At, StepOK, SearchSteps
    <3> QED
      BY <1>4, <2>3, <3>1
  <2> QED
    BY <1>5, <2>1, <2>2, <2>3 DEF ProbeNext
<1> QED
  BY <1>3, <1>5 DEF Probe

LEMMA InsertRowType ==
    ASSUME NEW p \in Requests, TypeInv, InsertRow(p) PROVE TypeInv'
<1>1. RequestsOK /\ StoresOK /\ StepOK(p) /\ seen[p] \in Row \cup {NoRow} /\ work[p] \in Work
  BY StatePartsOf
<1>2. StoresOK'
  BY <1>1 DEF StoresOK, InsertRow
<1>3. CASE RowTaken(NewRow(p))
  BY <1>2, <1>3, FinishKeepsTypeInv DEF InsertRow, Results
<1>4. CASE ~RowTaken(NewRow(p))
  <2> DEFINE w == [work[p] EXCEPT !.row = NewRow(p)]
  <2>1. NewRow(p) \in Row
    BY <1>1, NewRowType DEF StepOK, InsertRow, At
  <2>2. w \in Work /\ w.row = NewRow(p)
    BY <1>1, <2>1 DEF Work
  <2>3. Moves(p, "own", seen[p], w)
    BY <1>1, <1>4 DEF InsertRow, Moves, RequestsOK
  <2>4. pc'[p] = "own" /\ call'[p] = call[p] /\ seen'[p] = seen[p] /\ work'[p] = w
           => StepOK(p)'
    BY <1>1, <2>1, <2>2 DEF StepOK, InsertRow, At, SearchSteps, InsertSteps
  <2> HIDE DEF w
  <2> QED
    BY <1>1, <1>2, <2>2, <2>3, <2>4, MoveKeepsTypeInv DEF Steps, LockedSteps
<1> QED
  BY <1>3, <1>4

LEMMA InsertClaimType ==
    ASSUME NEW p \in Requests, TypeInv, NEW c \in Classifiers,
           NEW next \in {"sibling", "broker"}, pc[p] \in {"own", "sibling"},
           InsertClaim(p, c, next)
    PROVE  TypeInv'
<1>1. RequestsOK /\ StoresOK /\ StepOK(p) /\ seen[p] \in Row \cup {NoRow} /\ work[p] \in Work
  BY StatePartsOf
<1>2. StoresOK'
  BY <1>1 DEF StoresOK, InsertClaim
<1>3. CASE Finish(p, "error")
  BY <1>2, <1>3, FinishKeepsTypeInv DEF Results
<1>4. CASE ~Finish(p, "error")
  <2> DEFINE w == [work[p] EXCEPT !.claims = @ \cup {<<c, p>>}]
  <2>1. w \in Work /\ w.row = work[p].row
    BY <1>1 DEF Work, Claims, Ids
  <2>2. Moves(p, next, seen[p], w)
    BY <1>1, <1>4 DEF InsertClaim, Moves, RequestsOK
  <2>3. pc'[p] = next /\ call'[p] = call[p] /\ seen'[p] = seen[p] /\ work'[p] = w
           => StepOK(p)'
    BY <1>1, <2>1 DEF StepOK, SearchSteps, InsertSteps
  <2> HIDE DEF w
  <2> QED
    BY <1>1, <1>2, <2>1, <2>2, <2>3, MoveKeepsTypeInv DEF Steps, LockedSteps
<1> QED
  BY <1>3, <1>4

LEMMA InsertOwnClaimType ==
    ASSUME NEW p \in Requests, TypeInv, InsertOwnClaim(p) PROVE TypeInv'
<1>1. call[p].cls \in Classifiers
  BY StatePartsOf DEF StepOK, InsertOwnClaim, At, Call
<1> QED
  BY <1>1, InsertClaimType DEF InsertOwnClaim, At

LEMMA InsertSiblingClaimType ==
    ASSUME NEW p \in Requests, TypeInv, InsertSiblingClaim(p) PROVE TypeInv'
<1>1. SiblingOf[call[p].cls] \in Classifiers
  BY StatePartsOf, SiblingAssumption DEF StepOK, InsertSiblingClaim, At, Call
<1> QED
  BY <1>1, InsertClaimType DEF InsertSiblingClaim, At

LEMMA SaveRowType ==
    ASSUME NEW p \in Requests, TypeInv, SaveRow(p) PROVE TypeInv'
<1>1. RequestsOK /\ StoresOK /\ StepOK(p) /\ seen[p] \in Row \cup {NoRow} /\ work[p] \in Work
  BY StatePartsOf
<1>2. StoresOK'
  BY <1>1 DEF StoresOK, SaveRow
<1>3. CASE Finish(p, "error")
  BY <1>2, <1>3, FinishKeepsTypeInv DEF Results
<1>4. CASE ~Finish(p, "error")
  <2> DEFINE kind == IF Stored(seen[p].id) THEN "update" ELSE "reinsert"
             w == [work[p] EXCEPT !.kind = kind, !.row = SavedRow(p)]
  <2>1. SavedRow(p) \in Row
    BY <1>1 DEF StepOK, SaveRow, At, SavedRow, Row, Call
  <2>2. w \in Work /\ w.row = SavedRow(p)
    BY <1>1, <2>1 DEF Work, WorkKinds
  <2>3. Moves(p, "broker", seen[p], w)
    BY <1>1, <1>4 DEF SaveRow, Moves, RequestsOK
  <2>4. pc'[p] = "broker" /\ call'[p] = call[p] /\ seen'[p] = seen[p] /\ work'[p] = w
           => StepOK(p)'
    BY <1>1, <2>1, <2>2 DEF StepOK, SaveRow, At, SearchSteps, InsertSteps
  <2> HIDE DEF w
  <2> QED
    BY <1>1, <1>2, <2>2, <2>3, <2>4, MoveKeepsTypeInv DEF Steps, LockedSteps
<1> QED
  BY <1>3, <1>4 DEF SaveRow

LEMMA MakeTopicType ==
    ASSUME NEW p \in Requests, TypeInv, MakeTopic(p) PROVE TypeInv'
<1>1. RequestsOK /\ StoresOK /\ StepOK(p)
  BY StatePartsOf
<1>2. StoresOK'
  BY <1>1 DEF StoresOK, MakeTopic, CreateOnKafka, Ids
<1>3. CASE \E r \in {"error", "leaked"} : Finish(p, r)
  BY <1>2, <1>3, FinishKeepsTypeInv DEF Results
<1>4. ASSUME NEW s \in {"describe", "commit"}, Continue(p, s)
      PROVE  TypeInv'
  <2>1. pc'[p] = s /\ call'[p] = call[p] /\ seen'[p] = seen[p] /\ work'[p] = work[p]
           => StepOK(p)'
    BY <1>1 DEF MakeTopic, At, StepOK, SearchSteps, InsertSteps
  <2> QED
    BY <1>2, <1>4, <2>1, ContinueKeepsTypeInv DEF Steps, LockedSteps
<1> QED
  BY <1>3, <1>4 DEF MakeTopic, CreateOnKafka

LEMMA DescribeNewTopicType ==
    ASSUME NEW p \in Requests, TypeInv, DescribeNewTopic(p) PROVE TypeInv'
<1>1. RequestsOK /\ StoresOK /\ StepOK(p)
  BY StatePartsOf
<1>2. StoresOK'
  BY <1>1 DEF StoresOK, DescribeNewTopic
<1>3. CASE \E r \in {"synced", "error", "leaked"} : Finish(p, r)
  BY <1>2, <1>3, FinishKeepsTypeInv DEF Results
<1>4. CASE call[p].op # "sync" /\ Continue(p, "commit")
  <2>1. pc'[p] = "commit" /\ call'[p] = call[p] /\ seen'[p] = seen[p] /\ work'[p] = work[p]
           => StepOK(p)'
    BY <1>1, <1>4 DEF DescribeNewTopic, At, StepOK, SearchSteps, InsertSteps
  <2> QED
    BY <1>2, <1>4, <2>1, ContinueKeepsTypeInv DEF Steps, LockedSteps
<1> QED
  BY <1>3, <1>4 DEF DescribeNewTopic

LEMMA ApplySettingsType ==
    ASSUME NEW p \in Requests, TypeInv, ApplySettings(p) PROVE TypeInv'
<1>1. RequestsOK /\ StoresOK /\ StepOK(p)
  BY StatePartsOf
<1>2. StoresOK'
  BY <1>1 DEF StoresOK, ApplySettings
<1>3. CASE Finish(p, "error")
  BY <1>2, <1>3, FinishKeepsTypeInv DEF Results
<1>4. CASE Continue(p, "commit")
  <2>1. pc'[p] = "commit" /\ call'[p] = call[p] /\ seen'[p] = seen[p] /\ work'[p] = work[p]
           => StepOK(p)'
    BY <1>1 DEF ApplySettings, At, StepOK, SearchSteps, InsertSteps
  <2> QED
    BY <1>2, <1>4, <2>1, ContinueKeepsTypeInv DEF Steps, LockedSteps
<1> QED
  BY <1>3, <1>4 DEF ApplySettings

LEMMA CommitType ==
    ASSUME NEW p \in Requests, TypeInv, Commit(p) PROVE TypeInv'
<1>1. RequestsOK /\ StoresOK /\ StepOK(p) /\ work[p] \in Work
  BY StatePartsOf
<1>2. work[p].kind # "none" => work[p].row \in Row
  BY <1>1 DEF Commit, At, StepOK
<1>3. regs' \subseteq Row
  BY <1>1, <1>2 DEF StoresOK, Commit
<1>4. claims' \subseteq Claims
  BY <1>1 DEF StoresOK, Commit, Work
<1>5. StoresOK'
  BY <1>1, <1>3, <1>4 DEF StoresOK, Commit
<1>6. Outcomes(p) \subseteq Results
  BY DEF Outcomes, Outcome, Results
<1> QED
  BY <1>5, <1>6, FinishKeepsTypeInv DEF Commit

LEMMA LoseType ==
    ASSUME NEW p \in Requests, TypeInv, Lose(p) PROVE TypeInv'
<1>1. StoresOK'
  BY StatePartsOf DEF StoresOK, Lose
<1> QED
  BY <1>1, FinishKeepsTypeInv DEF Lose, Results

LEMMA DeadlockVictimType ==
    ASSUME NEW p \in Requests, TypeInv, DeadlockVictim(p) PROVE TypeInv'
<1>1. StoresOK'
  BY StatePartsOf DEF StoresOK, DeadlockVictim
<1> QED
  BY <1>1, FinishKeepsTypeInv DEF DeadlockVictim, Results

LEMMA SearchType ==
    ASSUME NEW p \in Requests, TypeInv, pc[p] = "waiting",
           NEW next \in {"remove", "sync"}, next = "sync" => call[p].op = "sync",
           Search(p, next), UNCHANGED <<prodMode, regs, kafka, tunedBy>>
    PROVE  TypeInv'
<1>1. RequestsOK /\ StoresOK /\ StepOK(p) /\ work[p] \in Work
  BY StatePartsOf
<1>2. StoresOK'
  BY <1>1, ToMigrateType DEF StoresOK, Search
<1>3. CASE \E r \in {"error", "missing"} : Finish(p, r)
  BY <1>2, <1>3, FinishKeepsTypeInv DEF Results
<1>4. CASE /\ \E r \in Matches(call[p].cls) : seen' = [seen EXCEPT ![p] = r]
           /\ Goto(p, next) /\ UNCHANGED work
  <2>1. PICK r \in Matches(call[p].cls) : seen' = [seen EXCEPT ![p] = r]
    BY <1>4
  <2>2. r \in Row
    BY <1>1 DEF StoresOK, Matches
  <2>3. Moves(p, next, r, work[p])
    BY <1>1, <1>4, <2>1 DEF Moves, RequestsOK
  <2>4. pc'[p] = next /\ call'[p] = call[p] /\ seen'[p] = r /\ work'[p] = work[p]
           => StepOK(p)'
    BY <1>1, <2>2 DEF StepOK, SearchSteps, InsertSteps
  <2> QED
    BY <1>1, <1>2, <2>2, <2>3, <2>4, MoveKeepsTypeInv DEF Steps, LockedSteps
<1> QED
  BY <1>3, <1>4 DEF Search

LEMMA FindForDeleteType ==
    ASSUME NEW p \in Requests, TypeInv, FindForDelete(p) PROVE TypeInv'
<1>1. CASE prodMode
  <2>1. StoresOK'
    BY <1>1, StatePartsOf DEF StoresOK, FindForDelete
  <2> QED
    BY <1>1, <2>1, FinishKeepsTypeInv DEF FindForDelete, Results
<1>2. CASE ~prodMode
  BY <1>2, SearchType DEF FindForDelete, At
<1> QED
  BY <1>1, <1>2

LEMMA FindForSyncType ==
    ASSUME NEW p \in Requests, TypeInv, FindForSync(p) PROVE TypeInv'
BY SearchType DEF FindForSync, At

LEMMA RemoveRowType ==
    ASSUME NEW p \in Requests, TypeInv, RemoveRow(p) PROVE TypeInv'
<1>1. RequestsOK /\ StoresOK /\ StepOK(p) /\ seen[p] \in Row \cup {NoRow} /\ work[p] \in Work
  BY StatePartsOf
<1>2. StoresOK'
  BY <1>1 DEF StoresOK, RemoveRow
<1>3. seen[p] \in Row /\ work[p].kind = "none"
  BY <1>1 DEF RemoveRow, At, StepOK
<1>4. ASSUME NEW w \in Work, w.kind # "none" => w.row \in Row, work' = [work EXCEPT ![p] = w]
      PROVE  TypeInv'
  <2>1. Moves(p, "drop", seen[p], w)
    BY <1>1, <1>4 DEF RemoveRow, Moves, RequestsOK
  <2>2. pc'[p] = "drop" /\ call'[p] = call[p] /\ seen'[p] = seen[p] /\ work'[p] = w
           => StepOK(p)'
    BY <1>1, <1>3, <1>4 DEF RemoveRow, At, StepOK, SearchSteps, InsertSteps
  <2> QED
    BY <1>1, <1>2, <2>1, <2>2, MoveKeepsTypeInv DEF Steps, LockedSteps
<1>5. CASE Stored(seen[p].id)
  <2> DEFINE w == [work[p] EXCEPT !.kind = "delete", !.row = seen[p]]
  <2>1. w \in Work /\ w.row = seen[p]
    BY <1>1, <1>3 DEF Work, WorkKinds
  <2>2. work' = [work EXCEPT ![p] = w]
    BY <1>1, <1>5 DEF RemoveRow, RequestsOK
  <2> QED
    BY <1>3, <1>4, <2>1, <2>2
<1>6. CASE ~Stored(seen[p].id)
  <2>1. work' = [work EXCEPT ![p] = work[p]]
    BY <1>1, <1>6 DEF RemoveRow, RequestsOK
  <2> QED
    BY <1>1, <1>3, <1>4, <2>1
<1> QED
  BY <1>5, <1>6

LEMMA DropTopicType ==
    ASSUME NEW p \in Requests, TypeInv, DropTopic(p) PROVE TypeInv'
<1>1. RequestsOK /\ StoresOK /\ StepOK(p)
  BY StatePartsOf
<1>2. StoresOK'
  BY <1>1 DEF StoresOK, DropTopic
<1>3. CASE Finish(p, "error")
  BY <1>2, <1>3, FinishKeepsTypeInv DEF Results
<1>4. CASE Continue(p, "commit")
  <2>1. pc'[p] = "commit" /\ call'[p] = call[p] /\ seen'[p] = seen[p] /\ work'[p] = work[p]
           => StepOK(p)'
    BY <1>1 DEF DropTopic, At, StepOK, SearchSteps, InsertSteps
  <2> QED
    BY <1>2, <1>4, <2>1, ContinueKeepsTypeInv DEF Steps, LockedSteps
<1> QED
  BY <1>3, <1>4 DEF DropTopic

LEMMA ProbeForSyncType ==
    ASSUME NEW p \in Requests, TypeInv, ProbeForSync(p) PROVE TypeInv'
<1>1. RequestsOK /\ StoresOK /\ StepOK(p)
  BY StatePartsOf
<1>2. StoresOK'
  BY <1>1 DEF StoresOK, ProbeForSync
<1>3. CASE \E r \in {"found", "error"} : Finish(p, r)
  BY <1>2, <1>3, FinishKeepsTypeInv DEF Results
<1>4. CASE Continue(p, "syncCreate")
  <2>1. pc'[p] = "syncCreate" /\ call'[p] = call[p] /\ seen'[p] = seen[p]
           /\ work'[p] = work[p] => StepOK(p)'
    BY <1>1 DEF ProbeForSync, At, StepOK, SearchSteps, InsertSteps
  <2> QED
    BY <1>2, <1>4, <2>1, ContinueKeepsTypeInv DEF Steps, LockedSteps
<1> QED
  BY <1>3, <1>4 DEF ProbeForSync

LEMMA SyncTopicType ==
    ASSUME NEW p \in Requests, TypeInv, SyncTopic(p) PROVE TypeInv'
<1>1. RequestsOK /\ StoresOK /\ StepOK(p)
  BY StatePartsOf
<1>2. StoresOK'
  BY <1>1 DEF StoresOK, SyncTopic, CreateOnKafka, Ids
<1>3. CASE \E r \in {"synced", "error", "leaked"} : Finish(p, r)
  BY <1>2, <1>3, FinishKeepsTypeInv DEF Results
<1>4. CASE Continue(p, "describe")
  <2>1. pc'[p] = "describe" /\ call'[p] = call[p] /\ seen'[p] = seen[p] /\ work'[p] = work[p]
           => StepOK(p)'
    BY <1>1 DEF SyncTopic, At, StepOK, SearchSteps, InsertSteps
  <2> QED
    BY <1>2, <1>4, <2>1, ContinueKeepsTypeInv DEF Steps, LockedSteps
<1> QED
  BY <1>3, <1>4 DEF SyncTopic, CreateOnKafka

-----------------------------------------------------------------------------

LEMMA CreateOutsideType ==
    ASSUME NEW k \in Keys, TypeInv, CreateOutside(k) PROVE TypeInv'
<1>1. RequestsOK' /\ StoresOK'
  BY TypeOKParts DEF TypeInv, RequestsOK, StoresOK, CreateOutside
<1>2. \A p \in Requests : StepOK(p)'
  BY DEF TypeInv, StepOK, CreateOutside
<1> QED
  BY <1>1, <1>2, TypeOKPartsPrimed DEF TypeInv

LEMMA NextKeepsTypeInv == TypeInv /\ [Next]_vars => TypeInv'
<1> SUFFICES ASSUME TypeInv, [Next]_vars PROVE TypeInv'
  OBVIOUS
<1>1. CASE UNCHANGED vars
  <2>1. TypeOK'
    BY <1>1, TypeOKParts, TypeOKPartsPrimed DEF vars, TypeInv, RequestsOK, StoresOK
  <2>2. (\A p \in Requests : StepOK(p))'
    BY <1>1 DEF vars, TypeInv, StepOK
  <2> QED
    BY <2>1, <2>2 DEF TypeInv
<1>2. ASSUME NEW p \in Requests, Submit(p) \/ Serve(p) \/ Lose(p) PROVE TypeInv'
  BY <1>2, SubmitType, LockType, LookupType, CompareType, ProbeType, InsertRowType,
     InsertOwnClaimType, InsertSiblingClaimType, SaveRowType, MakeTopicType,
     DescribeNewTopicType, ApplySettingsType, CommitType, FindForDeleteType,
     RemoveRowType, DropTopicType, FindForSyncType, ProbeForSyncType, SyncTopicType,
     DeadlockVictimType, LoseType DEF Serve
<1>3. ASSUME NEW k \in Keys, CreateOutside(k) PROVE TypeInv'
  BY <1>3, CreateOutsideType
<1> QED
  BY <1>1, <1>2, <1>3 DEF Next

\* Every variable of KafkaTopics keeps its type, and every step of a request
\* finds the call, the registration and the uncommitted row that it reads.
THEOREM TypeInvariant == Spec => []TypeInv
BY InitTypeInv, NextKeepsTypeInv, PTL DEF Spec

\* Type correctness of topic registrations under any interleaving of requests.
THEOREM TypeCorrect == Spec => []TypeOK
<1>1. TypeInv => TypeOK
  BY DEF TypeInv
<1> QED
  BY <1>1, TypeInvariant, PTL

-----------------------------------------------------------------------------
(* What a step of a request, and what somebody else, changes               *)

Step(p) == Submit(p) \/ Serve(p) \/ Lose(p)

\* Creation by others puts a foreign topic where there was none.
LEMMA OutsideFrame ==
    ASSUME NEW k \in Keys, TypeInv, CreateOutside(k)
    PROVE  /\ \A j \in Keys : kafka'[j] = kafka[j] \/ (kafka[j] = Absent /\ kafka'[j] = Foreign)
           /\ UNCHANGED <<prodMode, call, pc, seen, work, res, regs, claims, tunedBy>>
BY StatePartsOf, TypeOKParts DEF TypeInv, StoresOK, CreateOutside

\* The ways in which a step of p changes the topics on Kafka.
LEMMA KafkaChanges ==
    ASSUME NEW p \in Requests, TypeInv, Step(p), NEW k \in Keys
    PROVE  \/ kafka'[k] = kafka[k]
           \/ kafka[k] = Absent /\ kafka'[k] = p
           \/ /\ kafka'[k] = Absent
              /\ \/ pc[p] = "describe" /\ k = NewTopicKey(p)
                 \/ pc[p] = "drop" /\ ~seen[p].ext /\ k = seen[p].key
<1>1. kafka \in [Keys -> Ids \cup {Absent, Foreign}]
  BY StatePartsOf DEF StoresOK
<1>2. CASE MakeTopic(p)
  BY <1>1, <1>2 DEF MakeTopic, CreateOnKafka
<1>3. CASE SyncTopic(p)
  BY <1>1, <1>3 DEF SyncTopic, CreateOnKafka
<1>4. CASE DescribeNewTopic(p)
  BY <1>1, <1>4 DEF DescribeNewTopic, At
<1>5. CASE DropTopic(p)
  BY <1>1, <1>5 DEF DropTopic, At, LeftAlone
<1>6. CASE \/ Submit(p) \/ Lose(p) \/ Lock(p) \/ Lookup(p) \/ Compare(p) \/ Probe(p)
           \/ InsertRow(p) \/ InsertOwnClaim(p) \/ InsertSiblingClaim(p) \/ SaveRow(p)
           \/ ApplySettings(p) \/ Commit(p) \/ FindForDelete(p) \/ RemoveRow(p)
           \/ FindForSync(p) \/ ProbeForSync(p) \/ DeadlockVictim(p)
  <2>1. kafka' = kafka
    BY <1>6 DEF Submit, Lose, Lock, Lookup, Compare, Probe, InsertRow, InsertOwnClaim,
                InsertSiblingClaim, InsertClaim, SaveRow, ApplySettings, Commit,
                FindForDelete, RemoveRow, FindForSync, ProbeForSync, DeadlockVictim
  <2> QED
    BY <2>1
<1> QED
  BY <1>2, <1>3, <1>4, <1>5, <1>6 DEF Step, Serve

\* A row that a request remembers is one that it has just found, or found before.
LEMMA SeenChanges ==
    ASSUME NEW p \in Requests, TypeInv, Step(p)
    PROVE  seen'[p] \in regs \cup {seen[p], NoRow}
<1>1. RequestsOK
  BY StatePartsOf
<1>2. ASSUME NEW r, Finish(p, r) PROVE seen'[p] = NoRow
  BY <1>1, <1>2 DEF RequestsOK, Finish
<1>3. CASE Lookup(p)
  BY <1>1, <1>2, <1>3 DEF RequestsOK, Lookup, LookupNext, SettingsAreEqual, Matches
<1>4. CASE FindForDelete(p)
  BY <1>1, <1>2, <1>4 DEF RequestsOK, FindForDelete, Search, Matches
<1>5. CASE FindForSync(p)
  BY <1>1, <1>2, <1>5 DEF RequestsOK, FindForSync, Search, Matches
<1>6. CASE ~Lookup(p) /\ ~FindForDelete(p) /\ ~FindForSync(p)
  <2>1. UNCHANGED seen \/ \E r \in Results \cup Outcomes(p) : Finish(p, r)
    BY <1>6 DEF Step, Serve, Submit, Lose, Lock, Compare, Probe, ProbeNext, InsertRow,
                InsertOwnClaim, InsertSiblingClaim, InsertClaim, SaveRow, MakeTopic,
                CreateOnKafka, DescribeNewTopic, ApplySettings, Commit, RemoveRow,
                DropTopic, ProbeForSync, SyncTopic, DeadlockVictim, Continue, Results
  <2> QED
    BY <1>2, <2>1
<1> QED
  BY <1>3, <1>4, <1>5, <1>6

\* Only a commit changes the registrations.
LEMMA RegsChanges ==
    ASSUME NEW p \in Requests, TypeInv, Step(p), NEW r \in regs'
    PROVE  \/ r \in regs
           \/ pc[p] = "commit" /\ work[p].kind \notin {"none", "delete"} /\ r = work[p].row
<1>1. CASE Commit(p)
  BY <1>1 DEF Commit, At
<1>2. CASE ~Commit(p)
  <2>1. regs' = regs
    BY <1>2 DEF Step, Serve, Submit, Lose, Lock, Lookup, Compare, Probe, InsertRow,
                InsertOwnClaim, InsertSiblingClaim, InsertClaim, SaveRow, MakeTopic,
                DescribeNewTopic, ApplySettings, FindForDelete, RemoveRow, DropTopic,
                FindForSync, ProbeForSync, SyncTopic, DeadlockVictim
  <2> QED
    BY <2>1
<1> QED
  BY <1>1, <1>2

\* A step of p leaves the entries of the other requests alone.
LEMMA StepFrame ==
    ASSUME NEW p \in Requests, TypeInv, Step(p)
    PROVE  Frame(p)
<1>1. RequestsOK
  BY StatePartsOf
<1>2. ASSUME NEW r, Finish(p, r) PROVE Frame(p)
  BY <1>1, <1>2 DEF RequestsOK, Finish, Frame
<1>3. ASSUME NEW s, Continue(p, s) PROVE Frame(p)
  BY <1>1, <1>3 DEF RequestsOK, Continue, Goto, Frame
<1>4. CASE Submit(p)
  BY <1>1, <1>4 DEF RequestsOK, Submit, Frame
<1>5. CASE \/ Lose(p) \/ Lock(p) \/ Compare(p) \/ MakeTopic(p) \/ DescribeNewTopic(p)
           \/ ApplySettings(p) \/ Commit(p) \/ DropTopic(p) \/ ProbeForSync(p)
           \/ SyncTopic(p) \/ DeadlockVictim(p)
  BY <1>2, <1>3, <1>5 DEF Lose, Lock, Compare, MakeTopic, CreateOnKafka, DescribeNewTopic,
      ApplySettings, Commit, DropTopic, ProbeForSync, SyncTopic, DeadlockVictim
<1>6. CASE Lookup(p)
  BY <1>1, <1>2, <1>6 DEF RequestsOK, Lookup, LookupNext, SettingsAreEqual, Goto, Frame
<1>7. CASE Probe(p)
  BY <1>1, <1>2, <1>7 DEF RequestsOK, Probe, ProbeNext, Goto, Frame
<1>8. CASE InsertRow(p) \/ SaveRow(p) \/ RemoveRow(p)
  BY <1>1, <1>2, <1>8 DEF RequestsOK, InsertRow, SaveRow, RemoveRow, Goto, Frame
<1>9. CASE InsertOwnClaim(p) \/ InsertSiblingClaim(p)
  BY <1>1, <1>2, <1>9 DEF RequestsOK, InsertOwnClaim, InsertSiblingClaim, InsertClaim,
      Goto, Frame
<1>10. CASE FindForDelete(p) \/ FindForSync(p)
  BY <1>1, <1>2, <1>10 DEF RequestsOK, FindForDelete, FindForSync, Search, Goto, Frame
<1> QED
  BY <1>4, <1>5, <1>6, <1>7, <1>8, <1>9, <1>10 DEF Step, Serve

-----------------------------------------------------------------------------
(* The topics that a request has made: only until it has read back their   *)
(* settings and committed can it still fail with them on Kafka.            *)

MadeBy(p) ==
    \A k \in Keys : kafka[k] = p =>
        \/ pc[p] = "describe" /\ k = NewTopicKey(p)
        \/ pc[p] = "commit"
        \/ pc[p] = "done" /\ res[p] # "error"

MadeInv == \A p \in Requests : MadeBy(p)

LEMMA InitMadeInv == Init => MadeInv
<1> SUFFICES ASSUME Init, NEW p \in Requests, NEW k \in Keys PROVE kafka[k] # p
  BY DEF MadeInv, MadeBy
<1>1. ASSUME NEW r \in regs, r.key = k PROVE (CHOOSE s \in regs : s.key = k).id \in OldIds
  BY <1>1, LegacyAssumption DEF Init
<1> QED
  BY <1>1, DistinctAssumption DEF Init, Ids

\* A request is chosen to end a deadlock only where it waits for another.
LEMMA VictimWaits ==
    ASSUME NEW p \in Requests, DeadlockVictim(p)
    PROVE  pc[p] \notin {"describe", "commit", "done"}
BY DEF DeadlockVictim, Circle, BlockedBy

LEMMA StepKeepsOwnMade ==
    ASSUME NEW p \in Requests, TypeInv, MadeBy(p), Step(p)
    PROVE  MadeBy(p)'
<1>1. /\ RequestsOK /\ StoresOK /\ StepOK(p) /\ p # Absent
  BY StatePartsOf, DistinctAssumption DEF Ids
<1>2. ASSUME NEW r, Finish(p, r) PROVE pc'[p] = "done" /\ res'[p] = r
  BY <1>1, <1>2 DEF RequestsOK, Finish
<1>3. ASSUME NEW s, Continue(p, s) PROVE pc'[p] = s /\ call' = call /\ seen' = seen /\ work' = work
  BY <1>1, <1>3 DEF RequestsOK, Continue, Goto
<1>4. CASE MakeTopic(p)
  <2>1. work[p].row.key \in Keys /\ call[p].op # "sync" /\ \A k \in Keys : kafka[k] # p
    BY <1>1, <1>4 DEF MakeTopic, At, StepOK, InsertSteps, Row, MadeBy
  <2>2. CASE Continue(p, "describe") /\ kafka' = [kafka EXCEPT ![work[p].row.key] = p]
    <3>1. NewTopicKey(p)' = work[p].row.key
      BY <1>3, <2>1, <2>2 DEF NewTopicKey
    <3> QED
      BY <1>1, <1>3, <2>1, <2>2, <3>1 DEF MadeBy, StoresOK
  <2>3. CASE Finish(p, "leaked")
    BY <1>2, <2>3 DEF MadeBy
  <2>4. CASE kafka' = kafka
    BY <2>1, <2>4 DEF MadeBy
  <2> QED
    BY <1>4, <2>2, <2>3, <2>4 DEF MakeTopic, CreateOnKafka
<1>5. CASE SyncTopic(p)
  <2>1. seen[p].key \in Keys /\ call[p].op = "sync" /\ \A k \in Keys : kafka[k] # p
    BY <1>1, <1>5 DEF SyncTopic, At, StepOK, Row, MadeBy
  <2>2. CASE Continue(p, "describe") /\ kafka' = [kafka EXCEPT ![seen[p].key] = p]
    <3>1. NewTopicKey(p)' = seen[p].key
      BY <1>3, <2>1, <2>2 DEF NewTopicKey
    <3> QED
      BY <1>1, <1>3, <2>1, <2>2, <3>1 DEF MadeBy, StoresOK
  <2>3. CASE Finish(p, "leaked")
    BY <1>2, <2>3 DEF MadeBy
  <2>4. CASE kafka' = kafka
    BY <2>1, <2>4 DEF MadeBy
  <2> QED
    BY <1>5, <2>2, <2>3, <2>4 DEF SyncTopic, CreateOnKafka
<1>6. CASE DescribeNewTopic(p)
  <2>1. pc[p] = "describe" /\ \A k \in Keys : kafka[k] = p => k = NewTopicKey(p)
    BY <1>6 DEF DescribeNewTopic, At, MadeBy
  <2>2. CASE kafka' = [kafka EXCEPT ![NewTopicKey(p)] = Absent]
    BY <1>1, <2>1, <2>2 DEF MadeBy, StoresOK
  <2>3. CASE Finish(p, "synced") \/ Finish(p, "leaked") \/ Continue(p, "commit")
    BY <1>2, <1>3, <2>3 DEF MadeBy
  <2> QED
    BY <1>6, <2>2, <2>3 DEF DescribeNewTopic
<1>7. CASE Commit(p)
  BY <1>2, <1>7 DEF Commit, Outcomes, Outcome, MadeBy
<1>8. CASE Lose(p)
  BY <1>2, <1>8 DEF Lose, MadeBy
<1>9. CASE DropTopic(p)
  <2>1. \A k \in Keys : kafka[k] # p
    BY <1>9 DEF DropTopic, At, MadeBy
  <2>2. \A k \in Keys : kafka'[k] # p
    BY <1>1, <1>9, <2>1 DEF DropTopic, StoresOK
  <2> QED
    BY <2>2 DEF MadeBy
<1>10. CASE \/ Submit(p) \/ Lock(p) \/ Lookup(p) \/ Compare(p) \/ Probe(p) \/ InsertRow(p)
            \/ InsertOwnClaim(p) \/ InsertSiblingClaim(p) \/ SaveRow(p) \/ ApplySettings(p)
            \/ FindForDelete(p) \/ RemoveRow(p) \/ FindForSync(p) \/ ProbeForSync(p)
            \/ DeadlockVictim(p)
  <2>1. kafka' = kafka
    BY <1>10 DEF Submit, Lock, Lookup, Compare, Probe, InsertRow, InsertOwnClaim,
        InsertSiblingClaim, InsertClaim, SaveRow, ApplySettings, FindForDelete, RemoveRow,
        FindForSync, ProbeForSync, DeadlockVictim
  <2>2. pc[p] \notin {"describe", "commit", "done"}
    BY <1>10, VictimWaits DEF Submit, Lock, Lookup, Compare, Probe, InsertRow, InsertOwnClaim,
        InsertSiblingClaim, SaveRow, ApplySettings, FindForDelete, RemoveRow, FindForSync,
        ProbeForSync, At
  <2> QED
    BY <2>1, <2>2 DEF MadeBy
<1> QED
  BY <1>4, <1>5, <1>6, <1>7, <1>8, <1>9, <1>10 DEF Step, Serve

\* A request that has been answered takes no step.
LEMMA DoneStays ==
    ASSUME NEW p \in Requests, Step(p) PROVE pc[p] # "done"
BY VictimWaits DEF Step, Serve, Submit, Lose, Lock, Lookup, Compare, Probe, InsertRow,
    InsertOwnClaim, InsertSiblingClaim, SaveRow, MakeTopic, DescribeNewTopic, ApplySettings,
    Commit, FindForDelete, RemoveRow, DropTopic, FindForSync, ProbeForSync, SyncTopic, At

\* A step either ends the request or leaves all answers alone.
LEMMA ResChanges ==
    ASSUME NEW p \in Requests, Step(p) PROVE res' = res \/ \E r : Finish(p, r)
BY DEF Step, Serve, Submit, Lose, Lock, Lookup, LookupNext, Compare, Probe, ProbeNext,
    InsertRow, InsertOwnClaim, InsertSiblingClaim, InsertClaim, SaveRow, MakeTopic,
    CreateOnKafka, DescribeNewTopic, ApplySettings, Commit, FindForDelete, RemoveRow,
    DropTopic, FindForSync, Search, ProbeForSync, SyncTopic, DeadlockVictim, Continue, Goto

\* A step of p leaves the answers of the other requests alone.
LEMMA ResFrame ==
    ASSUME NEW p \in Requests, TypeInv, Step(p), NEW q \in Requests \ {p}
    PROVE  res'[q] = res[q]
<1>1. RequestsOK
  BY StatePartsOf
<1>2. ASSUME NEW r, Finish(p, r) PROVE res'[q] = res[q]
  BY <1>1, <1>2 DEF RequestsOK, Finish
<1> QED
  BY <1>2, ResChanges

LEMMA NextKeepsMadeInv == TypeInv /\ MadeInv /\ [Next]_vars => MadeInv'
<1> SUFFICES ASSUME TypeInv, MadeInv, [Next]_vars PROVE MadeInv'
  OBVIOUS
<1>1. CASE UNCHANGED vars
  BY <1>1 DEF vars, MadeInv, MadeBy, NewTopicKey
<1>2. ASSUME NEW p \in Requests, Step(p), NEW q \in Requests PROVE MadeBy(q)'
  <2>1. CASE q = p
    BY <1>2, <2>1, StepKeepsOwnMade DEF MadeInv
  <2>2. CASE q # p
    <3>1. /\ pc'[q] = pc[q] /\ res'[q] = res[q] /\ NewTopicKey(q)' = NewTopicKey(q)
          /\ q # Absent
      BY <1>2, <2>2, StepFrame, ResFrame, DistinctAssumption DEF Frame, NewTopicKey, Ids
    <3>2. \A k \in Keys : kafka'[k] = q => kafka[k] = q
      BY <1>2, <2>2, <3>1, KafkaChanges
    <3> QED
      BY <3>1, <3>2 DEF MadeInv, MadeBy
  <2> QED
    BY <2>1, <2>2
<1>3. ASSUME NEW k \in Keys, CreateOutside(k), NEW q \in Requests PROVE MadeBy(q)'
  <2>1. q # Foreign /\ NewTopicKey(q)' = NewTopicKey(q)
    BY <1>3, OutsideFrame, DistinctAssumption DEF NewTopicKey, Ids
  <2> QED
    BY <1>3, <2>1, OutsideFrame DEF MadeInv, MadeBy
<1> QED
  BY <1>1, <1>2, <1>3 DEF Next, Step, MadeInv

\* A request has an answer only once it is done.
Answered == \A p \in Requests : res[p] # "none" => pc[p] = "done"

LEMMA NextKeepsAnswered == TypeInv /\ Answered /\ [Next]_vars => Answered'
<1> SUFFICES ASSUME TypeInv, Answered, [Next]_vars, NEW q \in Requests, res'[q] # "none"
             PROVE  pc'[q] = "done"
  BY DEF Answered
<1>1. CASE UNCHANGED vars
  BY <1>1 DEF vars, Answered
<1>2. ASSUME NEW p \in Requests, Step(p) PROVE pc'[q] = "done"
  <2>1. CASE q # p
    BY <1>2, <2>1, StepFrame, ResFrame DEF Frame, Answered
  <2>2. CASE q = p
    <3>1. res[q] = "none"
      BY <1>2, <2>2, DoneStays DEF Answered
    <3> QED
      BY <1>2, <2>2, <3>1, ResChanges, StatePartsOf DEF RequestsOK, Finish
  <2> QED
    BY <2>1, <2>2
<1>3. ASSUME NEW k \in Keys, CreateOutside(k) PROVE pc'[q] = "done"
  BY <1>3 DEF CreateOutside, Answered
<1> QED
  BY <1>1, <1>2, <1>3 DEF Next, Step

-----------------------------------------------------------------------------
(* Production mode, where the topic API does not delete: one registration  *)
(* per classifier, a topic for every registration, and externally managed  *)
(* topics left alone.                                                      *)

(* The inductive invariant                                                 *)

\* Registrations are unique by id, by key and by classifier, and those that
\* requests have inserted are of requests that have ended.
RegsAreUnique ==
    /\ \A r, s \in regs : r.id = s.id \/ Collides(r, s) => r = s
    /\ \A r \in regs : r.id \in Requests => pc[r.id] = "done"

\* A registration has claimed its classifier, or is unversioned, has claimed
\* none, and no other has claimed its classifier in the meantime.
Unclaimed(r) == \A c \in Classifiers : <<c, r.id>> \notin claims

RegsAreClaimed ==
    /\ \A m, n \in claims : m[1] = n[1] => m = n
    /\ \A r \in regs : <<r.cls, r.id>> \in claims \/ (~r.versioned /\ Unclaimed(r))
    /\ \A r \in regs, m \in claims : m[1] = r.cls => m[2] = r.id

\* The steps of a getOrCreate request after its search.
SearchedSteps == {"compare", "probe", "save", "insert", "own", "sibling",
                  "broker", "describe", "commit"}

HasNewRow(p) ==
    work[p].kind \in {"make", "adopt"} /\ work[p].row = NewRow(p)

\* What the transaction of a request has at hand at each of its steps.
ProdRequest(p) ==
    /\ pc[p] \notin {"remove", "drop"}
    /\ pc[p] \in SearchedSteps => call[p].op = "getOrCreate"
    /\ pc[p] \in {"idle", "waiting", "lookup", "sync", "syncCreate", "done"} => work[p] = NoWork
    /\ pc[p] \in {"compare", "probe", "save"} => work[p].kind = "none" /\ work[p].row = NoRow
    /\ pc[p] = "insert" => work[p].kind \in {"make", "adopt"} /\ work[p].row = NoRow
    /\ pc[p] \in {"own", "sibling"} => HasNewRow(p)
    /\ pc[p] \in {"broker", "describe", "commit"} =>
          \/ work[p].kind = "none" /\ work[p].row = NoRow /\ pc[p] = "commit"
          \/ HasNewRow(p)
          \/ work[p].kind = "update" /\ work[p].row \in Row
    /\ pc[p] \in {"sibling", "broker", "describe", "commit"} /\ HasNewRow(p)
          => <<call[p].cls, p>> \in work[p].claims
    /\ pc[p] = "describe" => work[p].kind = "make" /\ ~work[p].row.ext

\* After its search a transaction has claimed, committed or not, a classifier
\* for every unversioned registration.
SearchIsDone(p) == pc[p] \in SearchedSteps => ToMigrate(p) = {}

\* A classifier that a transaction has claimed is claimed by nobody else, and
\* for no other registration than its own.
ClaimsAreFree(p) ==
    \A m \in work[p].claims :
        /\ \A n \in work[p].claims : m[1] = n[1] => m = n
        /\ \A n \in claims : m[1] # n[1]
        /\ \A q \in Requests \ {p} : \A n \in work[q].claims : m[1] # n[1]
        /\ \A r \in regs : m[1] = r.cls => m[2] = r.id

\* Nobody else has the key or the classifier of an inserted registration.
RowIsFree(p) ==
    HasNewRow(p) =>
        /\ \A r \in regs : ~Collides(r, work[p].row)
        /\ \A q \in Requests \ {p} : HasNewRow(q) => ~Collides(work[q].row, work[p].row)

\* A registration that was read is still stored; an update changes only its versioned flag.
SameTopic(r, s) == r.id = s.id /\ r.cls = s.cls /\ r.key = s.key /\ r.ext = s.ext

ReadIsStored(p) ==
    /\ seen[p] # NoRow => \E r \in regs : SameTopic(r, seen[p])
    /\ work[p].kind = "update" => \E r \in regs : SameTopic(r, work[p].row)

\* The topic of an inserted registration is there once it has been created or
\* its settings have been applied.
TopicIsThere(p) ==
    pc[p] \in {"describe", "commit"} /\ HasNewRow(p) /\ ~work[p].row.ext =>
        kafka[work[p].row.key] # Absent

RegisteredTopicsExist == \A r \in regs : ~r.ext => kafka[r.key] # Absent

\* What a transaction has of its own and against the others, and the tables.
Holds(p) ==
    ProdRequest(p) /\ SearchIsDone(p) /\ ClaimsAreFree(p) /\ RowIsFree(p)

TablesHold ==
    /\ RegsAreUnique
    /\ RegsAreClaimed
    /\ \A p \in Requests : Holds(p)

\* The tables and the topics on Kafka.
TopicsHold ==
    /\ RegisteredTopicsExist
    /\ \A p \in Requests : ReadIsStored(p) /\ TopicIsThere(p)

ProdInv == TablesHold /\ TopicsHold

LEMMA InitProdInv == Init => ProdInv
<1> SUFFICES ASSUME Init PROVE ProdInv
  OBVIOUS
<1>1. /\ regs \subseteq Row /\ \A r \in regs : r.id \in OldIds /\ ~r.versioned
      /\ \A r, s \in regs : r.id = s.id \/ r.key = s.key \/ r.cls = s.cls => r = s
  BY LegacyAssumption DEF Init
<1>2. RegsAreUnique
  BY <1>1, DistinctAssumption DEF RegsAreUnique, Collides
<1>3. RegsAreClaimed
  BY <1>1 DEF RegsAreClaimed, Unclaimed, Init
<1>4. RegisteredTopicsExist
  <2> SUFFICES ASSUME NEW r \in regs, ~r.ext PROVE kafka[r.key] # Absent
    BY DEF RegisteredTopicsExist
  <2>1. r.key \in Keys
    BY <1>1 DEF Row
  <2>2. kafka[r.key] = (CHOOSE s \in regs : s.key = r.key).id
    BY <2>1 DEF Init
  <2>3. (CHOOSE s \in regs : s.key = r.key).id \in Ids
    BY <1>1 DEF Row
  <2> QED
    BY <2>2, <2>3, DistinctAssumption
<1>5. ASSUME NEW p \in Requests PROVE Holds(p) /\ ReadIsStored(p) /\ TopicIsThere(p)
  <2>1. pc[p] = "idle" /\ work[p] = NoWork /\ seen[p] = NoRow
    BY DEF Init
  <2>2. ~HasNewRow(p) /\ work[p].claims = {} /\ work[p].kind = "none"
    BY <2>1 DEF HasNewRow, NoWork
  <2>3. ProdRequest(p)
    BY <2>1 DEF ProdRequest, SearchedSteps
  <2> QED
    BY <2>1, <2>2, <2>3 DEF Holds, SearchIsDone, SearchedSteps, ClaimsAreFree, RowIsFree,
        ReadIsStored, TopicIsThere
<1> QED
  BY <1>2, <1>3, <1>4, <1>5 DEF ProdInv, TablesHold, TopicsHold

-----------------------------------------------------------------------------
(* A step that leaves the tables alone keeps them, and what all the         *)
(* transactions have, when it keeps it for the request that takes it.      *)

Prod == prodMode /\ TypeInv /\ TablesHold

LEMMA HeldByOthers ==
    ASSUME NEW p \in Requests, Prod, Frame(p), regs' = regs, claims' = claims,
           pc[p] # "done", Holds(p)'
    PROVE  TablesHold'
<1>1. RegsAreUnique' /\ RegsAreClaimed'
  <2>1. \A r \in regs : r.id \in Requests => r.id # p
    BY DEF Prod, TablesHold, RegsAreUnique
  <2> QED
    BY <2>1 DEF Prod, TablesHold, RegsAreUnique, RegsAreClaimed, Unclaimed, Frame, Collides
<1>2. ASSUME NEW q \in Requests \ {p} PROVE Holds(q)'
  <2>1. /\ pc'[q] = pc[q] /\ call'[q] = call[q] /\ work'[q] = work[q]
        /\ NewRow(q)' = NewRow(q) /\ HasNewRow(q)' = HasNewRow(q)
        /\ ToMigrate(q)' = ToMigrate(q)
    BY DEF Frame, NewRow, HasNewRow, ToMigrate
  <2>2. Holds(q)
    BY DEF Prod, TablesHold
  <2>3. ProdRequest(q)' /\ SearchIsDone(q)'
    BY <2>1, <2>2 DEF Holds, ProdRequest, SearchIsDone
  <2>4. ClaimsAreFree(q)'
    <3> SUFFICES ASSUME NEW m \in work[q].claims, NEW o \in Requests \ {q},
                        NEW n \in work'[o].claims
                 PROVE  m[1] # n[1]
      BY <2>1, <2>2 DEF Holds, ClaimsAreFree
    <3>1. CASE o = p
      BY <2>1, <3>1 DEF Holds, ClaimsAreFree
    <3>2. CASE o # p
      <4>1. work'[o] = work[o]
        BY <3>2 DEF Frame
      <4> QED
        BY <2>2, <4>1 DEF Holds, ClaimsAreFree
    <3> QED
      BY <3>1, <3>2
  <2>5. RowIsFree(q)'
    <3> SUFFICES ASSUME HasNewRow(q), NEW o \in Requests \ {q}, HasNewRow(o)'
                 PROVE  ~Collides(work'[o].row, work[q].row)
      BY <2>1, <2>2 DEF Holds, RowIsFree, Collides
    <3>1. CASE o = p
      BY <2>1, <3>1 DEF Holds, RowIsFree, Collides
    <3>2. CASE o # p
      <4>1. work'[o] = work[o] /\ HasNewRow(o)
        BY <3>2 DEF Frame, HasNewRow, NewRow
      <4> QED
        BY <2>2, <4>1 DEF Holds, RowIsFree
    <3> QED
      BY <3>1, <3>2
  <2> QED
    BY <2>3, <2>4, <2>5 DEF Holds
<1> QED
  BY <1>1, <1>2 DEF TablesHold

LEMMA FinishHolds ==
    ASSUME NEW p \in Requests, NEW r, Prod, Finish(p, r)
    PROVE  Holds(p)'
<1>1. pc'[p] = "done" /\ work'[p] = NoWork
  BY StatePartsOf DEF Prod, RequestsOK, Finish
<1>2. ~HasNewRow(p)' /\ work'[p].claims = {} /\ work'[p].kind = "none"
  BY <1>1 DEF HasNewRow, NoWork
<1> QED
  BY <1>1, <1>2 DEF Holds, ProdRequest, SearchIsDone, SearchedSteps, ClaimsAreFree, RowIsFree

\* A request that keeps its claims and its new row keeps what is free for them.
LEMMA SameWorkHolds ==
    ASSUME NEW p \in Requests, Prod, Frame(p), regs' = regs, claims' = claims,
           work'[p].claims = work[p].claims, call'[p] = call[p],
           HasNewRow(p)' => HasNewRow(p) /\ work'[p].row = work[p].row,
           pc'[p] \in SearchedSteps => pc[p] \in SearchedSteps,
           ProdRequest(p)'
    PROVE  Holds(p)'
<1>1. Holds(p)
  BY DEF Prod, TablesHold
<1>2. ToMigrate(p)' = ToMigrate(p)
  BY DEF ToMigrate
<1>3. SearchIsDone(p)'
  BY <1>1, <1>2 DEF Holds, SearchIsDone
<1>4. ASSUME NEW q \in Requests \ {p}
      PROVE  work'[q] = work[q] /\ HasNewRow(q)' = HasNewRow(q)
  BY DEF Frame, HasNewRow, NewRow
<1>5. ClaimsAreFree(p)'
  BY <1>1, <1>4 DEF Holds, ClaimsAreFree
<1>6. RowIsFree(p)'
  BY <1>1, <1>4 DEF Holds, RowIsFree, Collides
<1> QED
  BY <1>3, <1>5, <1>6 DEF Holds

LEMMA ContinueHolds ==
    ASSUME NEW p \in Requests, NEW s, Prod, regs' = regs, claims' = claims,
           Step(p), Continue(p, s),
           s \in SearchedSteps => pc[p] \in SearchedSteps,
           pc'[p] = s /\ call'[p] = call[p] /\ work'[p] = work[p] => ProdRequest(p)'
    PROVE  Holds(p)'
<1>1. pc'[p] = s /\ call'[p] = call[p] /\ work'[p] = work[p]
  BY StatePartsOf DEF Prod, RequestsOK, Continue, Goto
<1>2. Frame(p)
  BY StepFrame DEF Prod
<1>3. HasNewRow(p)' = HasNewRow(p)
  BY <1>1 DEF HasNewRow, NewRow
<1> QED
  BY <1>1, <1>2, <1>3, SameWorkHolds

-----------------------------------------------------------------------------
(* The steps of getOrCreate up to the commit                               *)

\* The claims that a search may insert are nobody's, and one per classifier.
LEMMA MigratedAreFree ==
    ASSUME NEW p \in Requests, Prod, ~MigrationFails(p), MigrationBlockers(p) = {},
           NEW m \in ToMigrate(p)
    PROVE  /\ \A n \in ToMigrate(p) : m[1] = n[1] => m = n
           /\ \A n \in claims \cup work[p].claims : m[1] # n[1]
           /\ \A q \in Requests \ {p} : \A n \in work[q].claims : m[1] # n[1]
           /\ \A r \in regs : m[1] = r.cls => m[2] = r.id
<1>1. claims \subseteq Claims /\ \A q \in Requests : work[q].claims \subseteq Claims
  BY StatePartsOf DEF Prod, StoresOK, Work
<1>2. PICK s \in regs : m = <<s.cls, s.id>>
  BY DEF ToMigrate
<1>3. \A r \in regs : r.cls = s.cls => r = s
  BY DEF Prod, TablesHold, RegsAreUnique, Collides
<1>4. \A n \in ToMigrate(p) : m[1] = n[1] => m = n
  BY <1>2, <1>3 DEF ToMigrate
<1>5. \A n \in claims \cup work[p].claims : m[1] # n[1]
  BY <1>1 DEF MigrationFails, ClaimTaken, Claims
<1>6. ASSUME NEW q \in Requests \ {p}, NEW n \in work[q].claims PROVE m[1] # n[1]
  <2>1. q \notin ClaimBlockers(p, m[1])
    BY DEF MigrationBlockers
  <2> QED
    BY <1>1, <2>1 DEF ClaimBlockers, Claims
<1> QED
  BY <1>2, <1>3, <1>4, <1>5, <1>6

LEMMA MigratedHolds ==
    ASSUME NEW p \in Requests, Prod, Frame(p), ~MigrationFails(p), MigrationBlockers(p) = {},
           regs' = regs, claims' = claims,
           work'[p].claims = work[p].claims \cup ToMigrate(p),
           ~HasNewRow(p)', ProdRequest(p)'
    PROVE  Holds(p)'
<1>1. SearchIsDone(p)'
  BY DEF SearchIsDone, ToMigrate
<1>2. \A q \in Requests \ {p} : work'[q] = work[q]
  BY DEF Frame
<1>3. ClaimsAreFree(p)
  BY DEF Prod, TablesHold, Holds
<1>4. ClaimsAreFree(p)'
  <2> SUFFICES ASSUME NEW m \in work[p].claims \cup ToMigrate(p)
               PROVE  /\ \A n \in work[p].claims \cup ToMigrate(p) : m[1] = n[1] => m = n
                      /\ \A n \in claims : m[1] # n[1]
                      /\ \A q \in Requests \ {p} : \A n \in work[q].claims : m[1] # n[1]
                      /\ \A r \in regs : m[1] = r.cls => m[2] = r.id
    BY <1>2 DEF ClaimsAreFree
  <2> QED
    BY <1>3, MigratedAreFree DEF ClaimsAreFree
<1> QED
  BY <1>1, <1>4 DEF Holds, RowIsFree

LEMMA LookupHolds ==
    ASSUME NEW p \in Requests, Prod, Lookup(p) PROVE Holds(p)'
<1>1. /\ RequestsOK /\ StepOK(p) /\ work[p] \in Work /\ ProdRequest(p) /\ Frame(p)
      /\ pc[p] = "lookup" /\ MigrationBlockers(p) = {} /\ regs' = regs /\ claims' = claims
  BY StatePartsOf, StepFrame DEF Prod, TablesHold, Holds, Step, Serve, Lookup, At, BlockedBy
<1>2. CASE Finish(p, "error")
  BY <1>2, FinishHolds
<1>3. CASE /\ ~MigrationFails(p) /\ LookupNext(p)
           /\ work' = [work EXCEPT ![p].claims = @ \cup ToMigrate(p)]
  <2>1. pc'[p] \in {"probe", "compare", "save"} /\ call'[p] = call[p]
    BY <1>1, <1>3 DEF LookupNext, Goto, SettingsAreEqual, RequestsOK
  <2>2. /\ work'[p].claims = work[p].claims \cup ToMigrate(p)
        /\ work'[p].kind = "none" /\ work'[p].row = NoRow
    BY <1>1, <1>3 DEF ProdRequest, RequestsOK, Work, NoWork
  <2>3. ProdRequest(p)'
    BY <1>1, <2>1, <2>2 DEF ProdRequest, StepOK, SearchSteps, SearchedSteps, HasNewRow
  <2>4. ~HasNewRow(p)'
    BY <2>2 DEF HasNewRow
  <2> QED
    BY <1>1, <1>3, <2>2, <2>3, <2>4, MigratedHolds
<1> QED
  BY <1>2, <1>3 DEF Lookup

LEMMA ProbeHolds ==
    ASSUME NEW p \in Requests, Prod, Probe(p) PROVE Holds(p)'
<1>1. /\ RequestsOK /\ StepOK(p) /\ work[p] \in Work /\ ProdRequest(p) /\ Frame(p)
      /\ pc[p] = "probe" /\ MigrationBlockers(p) = {} /\ regs' = regs /\ claims' = claims
  BY StatePartsOf, StepFrame DEF Prod, TablesHold, Holds, Step, Serve, Probe, At, BlockedBy
<1>2. CASE Finish(p, "error")
  BY <1>2, FinishHolds
<1>3. CASE ~MigrationFails(p) /\ ProbeNext(p) /\ ~Finish(p, "error")
  <2>1. /\ call'[p] = call[p]
        /\ work'[p].claims = work[p].claims \cup ToMigrate(p) /\ work'[p].row = NoRow
        /\ \/ pc'[p] = "insert" /\ work'[p].kind \in {"make", "adopt"}
           \/ pc'[p] = "commit" /\ work'[p].kind = "none"
    <3> DEFINE migrated == work[p].claims \cup ToMigrate(p)
    <3>1. work[p].kind = "none" /\ work[p].row = NoRow
      BY <1>1 DEF ProdRequest
    <3>2. CASE /\ work' = [work EXCEPT ![p] = [@ EXCEPT !.kind = "adopt", !.claims = migrated]]
               /\ Goto(p, "insert")
      BY <1>1, <3>1, <3>2 DEF Goto, RequestsOK, Work
    <3>3. CASE /\ work' = [work EXCEPT ![p] = [@ EXCEPT !.kind = "make", !.claims = migrated]]
               /\ Goto(p, "insert")
      BY <1>1, <3>1, <3>3 DEF Goto, RequestsOK, Work
    <3>4. CASE work' = [work EXCEPT ![p].claims = migrated] /\ Goto(p, "commit")
      BY <1>1, <3>1, <3>4 DEF Goto, RequestsOK, Work
    <3> QED
      BY <1>3, <3>2, <3>3, <3>4 DEF ProbeNext
  <2>2. ~HasNewRow(p)'
    <3>1. NewRow(p) \in Row
      BY <1>1, NewRowType DEF StepOK
    <3> QED
      BY <2>1, <3>1, DistinctAssumption DEF HasNewRow, NewRow
  <2>3. ProdRequest(p)'
    BY <1>1, <2>1, <2>2 DEF ProdRequest, SearchedSteps
  <2> QED
    BY <1>1, <1>3, <2>1, <2>2, <2>3, MigratedHolds
<1> QED
  BY <1>2, <1>3 DEF Probe

LEMMA CompareHolds ==
    ASSUME NEW p \in Requests, Prod, Compare(p) PROVE Holds(p)'
<1>1. /\ RequestsOK /\ ProdRequest(p) /\ pc[p] = "compare" /\ regs' = regs /\ claims' = claims
      /\ Step(p)
  BY StatePartsOf DEF Prod, TablesHold, Holds, Step, Serve, Compare, At
<1>2. CASE Finish(p, "error")
  BY <1>2, FinishHolds
<1>3. CASE Continue(p, "commit")
  <2>1. pc'[p] = "commit" /\ call'[p] = call[p] /\ work'[p] = work[p] => ProdRequest(p)'
    BY <1>1 DEF ProdRequest, SearchedSteps, HasNewRow
  <2> QED
    BY <1>1, <1>3, <2>1, ContinueHolds DEF SearchedSteps
<1> QED
  BY <1>2, <1>3 DEF Compare

LEMMA InsertRowHolds ==
    ASSUME NEW p \in Requests, Prod, InsertRow(p) PROVE Holds(p)'
<1>1. /\ RequestsOK /\ StepOK(p) /\ work[p] \in Work /\ Holds(p) /\ Frame(p)
      /\ pc[p] = "insert" /\ RowBlockers(p, NewRow(p)) = {} /\ regs' = regs /\ claims' = claims
  BY StatePartsOf, StepFrame DEF Prod, TablesHold, Step, Serve, InsertRow, At, BlockedBy
<1>2. CASE RowTaken(NewRow(p))
  BY <1>2, FinishHolds DEF InsertRow
<1>3. CASE ~RowTaken(NewRow(p))
  <2>1. /\ pc'[p] = "own" /\ call'[p] = call[p] /\ work'[p].kind = work[p].kind
        /\ work'[p].claims = work[p].claims /\ work'[p].row = NewRow(p)
    BY <1>1, <1>3 DEF InsertRow, Goto, RequestsOK, Work
  <2>2. NewRow(p)' = NewRow(p) /\ ToMigrate(p)' = ToMigrate(p)
    BY <1>1, <2>1 DEF NewRow, ToMigrate
  <2>3. ProdRequest(p)'
    BY <1>1, <2>1, <2>2 DEF Holds, ProdRequest, SearchedSteps, HasNewRow
  <2>4. SearchIsDone(p)'
    BY <1>1, <2>2 DEF Holds, SearchIsDone, SearchedSteps
  <2>5. \A q \in Requests \ {p} : work'[q] = work[q] /\ HasNewRow(q)' = HasNewRow(q)
    BY <1>1 DEF Frame, HasNewRow, NewRow
  <2>6. ClaimsAreFree(p)'
    BY <1>1, <2>1, <2>5 DEF Holds, ClaimsAreFree
  <2>7. ASSUME NEW q \in Requests \ {p}, HasNewRow(q)
        PROVE  ~Collides(work[q].row, NewRow(p))
    <3>1. call[q] \in Call
      BY <2>7, StatePartsOf DEF Prod, TablesHold, Holds, ProdRequest, NoWork, HasNewRow, StepOK
    <3>2. work[q].row # NoRow
      BY <2>7, <3>1, NewRowType, DistinctAssumption DEF HasNewRow
    <3> QED
      BY <1>1, <2>7, <3>2 DEF RowBlockers, Inserting, HasNewRow
  <2>8. RowIsFree(p)'
    BY <1>1, <1>3, <2>1, <2>5, <2>7 DEF RowIsFree, RowTaken
  <2> QED
    BY <2>3, <2>4, <2>6, <2>8 DEF Holds
<1> QED
  BY <1>2, <1>3

\* A claim inserted for a new registration is nobody's, and its classifier is
\* no registration's.
LEMMA InsertClaimHolds ==
    ASSUME NEW p \in Requests, Prod, Step(p), NEW c \in Classifiers,
           NEW next \in {"sibling", "broker"}, pc[p] \in {"own", "sibling"},
           InsertClaim(p, c, next), ClaimBlockers(p, c) = {},
           pc[p] = "own" => c = call[p].cls
    PROVE  Holds(p)'
<1>1. /\ RequestsOK /\ StoresOK /\ StepOK(p) /\ work[p] \in Work /\ Holds(p) /\ Frame(p)
      /\ regs' = regs /\ claims' = claims
      /\ \A q \in Requests : work[q].claims \subseteq Claims
  BY StatePartsOf, StepFrame DEF Prod, TablesHold, InsertClaim, Work
<1>2. CASE Finish(p, "error")
  BY <1>2, FinishHolds
<1>3. CASE ~ClaimTaken(p, c) /\ ~Finish(p, "error")
  <2>1. /\ pc'[p] = next /\ call'[p] = call[p] /\ work'[p].kind = work[p].kind
        /\ work'[p].claims = work[p].claims \cup {<<c, p>>} /\ work'[p].row = work[p].row
    BY <1>1, <1>3 DEF InsertClaim, Goto, RequestsOK, Work
  <2>2. HasNewRow(p)' = HasNewRow(p) /\ HasNewRow(p)
    BY <1>1, <2>1 DEF HasNewRow, NewRow, Holds, ProdRequest
  <2>3. ProdRequest(p)'
    BY <1>1, <2>1, <2>2 DEF Holds, ProdRequest, SearchedSteps, HasNewRow
  <2>4. SearchIsDone(p)'
    BY <1>1, <2>1 DEF Holds, SearchIsDone, SearchedSteps, ToMigrate
  <2>5. \A q \in Requests \ {p} : work'[q] = work[q] /\ HasNewRow(q)' = HasNewRow(q)
    BY <1>1 DEF Frame, HasNewRow, NewRow
  <2>6. RowIsFree(p)'
    BY <1>1, <2>1, <2>2, <2>5 DEF Holds, RowIsFree
  <2>7. \A n \in claims \cup work[p].claims : n[1] # c
    BY <1>1, <1>3 DEF ClaimTaken, StoresOK, Claims
  <2>8. \A q \in Requests \ {p} : \A n \in work[q].claims : n[1] # c
    BY <1>1 DEF ClaimBlockers, Claims
  <2>9. \A r \in regs : r.cls # c
    <3> SUFFICES ASSUME NEW r \in regs, r.cls = c PROVE FALSE
      OBVIOUS
    <3>1. <<r.cls, r.id>> \notin claims \cup work[p].claims
      BY <2>7
    <3>2. ~r.versioned /\ Unclaimed(r)
      BY <3>1 DEF Prod, TablesHold, RegsAreClaimed
    <3>3. <<r.cls, r.id>> \in ToMigrate(p)
      BY <3>1, <3>2 DEF ToMigrate, Unclaimed
    <3> QED
      BY <1>1, <3>3 DEF Holds, SearchIsDone, SearchedSteps
  <2>10. ClaimsAreFree(p)'
    <3> SUFFICES ASSUME NEW m \in work[p].claims \cup {<<c, p>>}
                 PROVE  /\ \A n \in work[p].claims \cup {<<c, p>>} : m[1] = n[1] => m = n
                        /\ \A n \in claims : m[1] # n[1]
                        /\ \A q \in Requests \ {p} : \A n \in work[q].claims : m[1] # n[1]
                        /\ \A r \in regs : m[1] = r.cls => m[2] = r.id
      BY <1>1, <2>1, <2>5 DEF ClaimsAreFree
    <3>1. CASE m = <<c, p>>
      BY <2>7, <2>8, <2>9, <3>1
    <3>2. CASE m \in work[p].claims
      BY <1>1, <2>7, <3>2 DEF Holds, ClaimsAreFree
    <3> QED
      BY <3>1, <3>2
  <2> QED
    BY <2>3, <2>4, <2>6, <2>10 DEF Holds
<1> QED
  BY <1>2, <1>3 DEF InsertClaim

LEMMA InsertOwnClaimHolds ==
    ASSUME NEW p \in Requests, Prod, InsertOwnClaim(p) PROVE Holds(p)'
<1>1. call[p].cls \in Classifiers /\ pc[p] = "own" /\ ClaimBlockers(p, call[p].cls) = {}
  BY StatePartsOf DEF Prod, StepOK, InsertOwnClaim, At, BlockedBy, Call
<1> QED
  BY <1>1, InsertClaimHolds DEF InsertOwnClaim, Step, Serve

LEMMA InsertSiblingClaimHolds ==
    ASSUME NEW p \in Requests, Prod, InsertSiblingClaim(p) PROVE Holds(p)'
<1>1. /\ SiblingOf[call[p].cls] \in Classifiers /\ pc[p] = "sibling"
      /\ ClaimBlockers(p, SiblingOf[call[p].cls]) = {}
  BY StatePartsOf, SiblingAssumption
     DEF Prod, StepOK, InsertSiblingClaim, At, BlockedBy, Call
<1> QED
  BY <1>1, InsertClaimHolds DEF InsertSiblingClaim, Step, Serve

LEMMA SaveRowHolds ==
    ASSUME NEW p \in Requests, Prod, ReadIsStored(p), SaveRow(p) PROVE Holds(p)'
<1>1. /\ RequestsOK /\ StepOK(p) /\ work[p] \in Work /\ ProdRequest(p) /\ Frame(p)
      /\ pc[p] = "save" /\ regs' = regs /\ claims' = claims
  BY StatePartsOf, StepFrame DEF Prod, TablesHold, Holds, Step, Serve, SaveRow, At
<1>2. CASE Finish(p, "error")
  BY <1>2, FinishHolds
<1>3. CASE ~Finish(p, "error")
  <2>1. seen[p] \in Row /\ seen[p] # NoRow
    BY <1>1, DistinctAssumption DEF StepOK
  <2>2. Stored(seen[p].id)
    BY <2>1 DEF ReadIsStored, SameTopic, Stored
  <2>3. SavedRow(p) \in Row
    BY <1>1, <2>1 DEF StepOK, SavedRow, Row, Call
  <2>4. /\ pc'[p] = "broker" /\ call'[p] = call[p] /\ work'[p].kind = "update"
        /\ work'[p].claims = work[p].claims /\ work'[p].row = SavedRow(p)
    <3>1. /\ work' = [work EXCEPT ![p] = [work[p] EXCEPT !.kind = "update", !.row = SavedRow(p)]]
          /\ Goto(p, "broker")
      BY <1>3, <2>2 DEF SaveRow
    <3> HIDE DEF SavedRow
    <3> QED
      BY <1>1, <3>1 DEF Goto, RequestsOK, Work
  <2>5. ~HasNewRow(p)'
    BY <2>4 DEF HasNewRow
  <2>6. ProdRequest(p)'
    BY <1>1, <2>3, <2>4, <2>5 DEF ProdRequest, SearchedSteps
  <2> QED
    BY <1>1, <2>4, <2>5, <2>6, SameWorkHolds DEF SearchedSteps
<1> QED
  BY <1>2, <1>3

-----------------------------------------------------------------------------
(* The broker steps, and the requests that make no registration            *)

LEMMA MakeTopicHolds ==
    ASSUME NEW p \in Requests, Prod, MakeTopic(p) PROVE Holds(p)'
<1>1. /\ RequestsOK /\ ProdRequest(p) /\ pc[p] = "broker" /\ work[p].kind = "make"
      /\ regs' = regs /\ claims' = claims /\ Step(p)
  BY StatePartsOf DEF Prod, TablesHold, Holds, Step, Serve, MakeTopic, At
<1>2. CASE \E r \in {"error", "leaked"} : Finish(p, r)
  BY <1>2, FinishHolds
<1>3. ASSUME NEW s \in {"describe", "commit"}, Continue(p, s), s = "describe" => ~work[p].row.ext
      PROVE  Holds(p)'
  <2>1. pc'[p] = s /\ call'[p] = call[p] /\ work'[p] = work[p] => ProdRequest(p)'
    BY <1>1, <1>3 DEF ProdRequest, SearchedSteps, HasNewRow, NewRow
  <2> QED
    BY <1>1, <1>3, <2>1, ContinueHolds DEF SearchedSteps
<1> QED
  BY <1>2, <1>3 DEF MakeTopic, CreateOnKafka

LEMMA DescribeHolds ==
    ASSUME NEW p \in Requests, Prod, DescribeNewTopic(p) PROVE Holds(p)'
<1>1. /\ RequestsOK /\ ProdRequest(p) /\ pc[p] = "describe" /\ call[p].op # "sync"
      /\ regs' = regs /\ claims' = claims /\ Step(p)
  BY StatePartsOf
     DEF Prod, TablesHold, Holds, ProdRequest, SearchedSteps, Step, Serve, DescribeNewTopic, At
<1>2. CASE \E r \in {"error", "leaked"} : Finish(p, r)
  BY <1>2, FinishHolds
<1>3. CASE Continue(p, "commit")
  <2>1. pc'[p] = "commit" /\ call'[p] = call[p] /\ work'[p] = work[p] => ProdRequest(p)'
    BY <1>1 DEF ProdRequest, SearchedSteps, HasNewRow, NewRow
  <2> QED
    BY <1>1, <1>3, <2>1, ContinueHolds DEF SearchedSteps
<1> QED
  BY <1>1, <1>2, <1>3 DEF DescribeNewTopic

LEMMA ApplySettingsHolds ==
    ASSUME NEW p \in Requests, Prod, ApplySettings(p) PROVE Holds(p)'
<1>1. /\ RequestsOK /\ ProdRequest(p) /\ pc[p] = "broker"
      /\ regs' = regs /\ claims' = claims /\ Step(p)
  BY StatePartsOf DEF Prod, TablesHold, Holds, Step, Serve, ApplySettings, At
<1>2. CASE Finish(p, "error")
  BY <1>2, FinishHolds
<1>3. CASE Continue(p, "commit")
  <2>1. pc'[p] = "commit" /\ call'[p] = call[p] /\ work'[p] = work[p] => ProdRequest(p)'
    BY <1>1 DEF ProdRequest, SearchedSteps, HasNewRow, NewRow
  <2> QED
    BY <1>1, <1>3, <2>1, ContinueHolds DEF SearchedSteps
<1> QED
  BY <1>2, <1>3 DEF ApplySettings

LEMMA SubmitHolds ==
    ASSUME NEW p \in Requests, Prod, Submit(p) PROVE Holds(p)'
<1>1. pc'[p] = "waiting" /\ work'[p] = NoWork
  BY StatePartsOf DEF Prod, TablesHold, Holds, ProdRequest, RequestsOK, Submit, At
<1>2. ~HasNewRow(p)' /\ work'[p].claims = {} /\ work'[p].kind = "none"
  BY <1>1 DEF HasNewRow, NoWork
<1> QED
  BY <1>1, <1>2 DEF Holds, ProdRequest, SearchIsDone, SearchedSteps, ClaimsAreFree, RowIsFree

LEMMA LockHolds ==
    ASSUME NEW p \in Requests, Prod, Lock(p) PROVE Holds(p)'
<1>1. /\ ProdRequest(p) /\ pc[p] = "waiting" /\ Continue(p, "lookup")
      /\ regs' = regs /\ claims' = claims /\ Step(p)
  BY DEF Prod, TablesHold, Holds, Step, Serve, Lock, At
<1>2. pc'[p] = "lookup" /\ call'[p] = call[p] /\ work'[p] = work[p] => ProdRequest(p)'
  BY <1>1 DEF ProdRequest, SearchedSteps, HasNewRow, NewRow
<1> QED
  BY <1>1, <1>2, ContinueHolds DEF SearchedSteps

LEMMA ProbeForSyncHolds ==
    ASSUME NEW p \in Requests, Prod, ProbeForSync(p) PROVE Holds(p)'
<1>1. /\ ProdRequest(p) /\ pc[p] = "sync" /\ regs' = regs /\ claims' = claims /\ Step(p)
  BY DEF Prod, TablesHold, Holds, Step, Serve, ProbeForSync, At
<1>2. CASE Continue(p, "syncCreate")
  <2>1. pc'[p] = "syncCreate" /\ call'[p] = call[p] /\ work'[p] = work[p] => ProdRequest(p)'
    BY <1>1 DEF ProdRequest, SearchedSteps, HasNewRow, NewRow
  <2> QED
    BY <1>1, <1>2, <2>1, ContinueHolds DEF SearchedSteps
<1> QED
  BY <1>2, FinishHolds DEF ProbeForSync

\* The topic of a registration that sync has read is there, or is left alone.
LEMMA ReadTopicExists ==
    ASSUME NEW p \in Requests, ReadIsStored(p), RegisteredTopicsExist, seen[p] # NoRow
    PROVE  seen[p].ext \/ kafka[seen[p].key] # Absent
BY DEF ReadIsStored, SameTopic, RegisteredTopicsExist

LEMMA SyncTopicFinishes ==
    ASSUME NEW p \in Requests, TypeInv, ReadIsStored(p), RegisteredTopicsExist, SyncTopic(p)
    PROVE  /\ UNCHANGED kafka
           /\ \E r \in {"synced", "error"} : Finish(p, r)
<1>1. seen[p] # NoRow
  BY StatePartsOf, DistinctAssumption DEF StepOK, SyncTopic, At
<1>2. seen[p].ext \/ kafka[seen[p].key] # Absent
  BY <1>1, ReadTopicExists
<1> QED
  BY <1>2 DEF SyncTopic, CreateOnKafka

-----------------------------------------------------------------------------
(* The steps that change the tables: the search of sync, which commits the *)
(* claims it migrates, and the commit of getOrCreate                       *)

LEMMA FindForSyncKeepsTables ==
    ASSUME NEW p \in Requests, Prod, FindForSync(p) PROVE TablesHold'
<1>1. /\ RequestsOK /\ StoresOK /\ ProdRequest(p) /\ Frame(p) /\ pc[p] = "waiting"
      /\ work[p] = NoWork /\ MigrationBlockers(p) = {} /\ regs' = regs
  BY StatePartsOf, StepFrame
     DEF Prod, TablesHold, Holds, ProdRequest, Step, Serve, FindForSync, At, BlockedBy
<1>2. CASE MigrationFails(p)
  <2>1. claims' = claims /\ Finish(p, "error")
    BY <1>2 DEF FindForSync, Search
  <2> QED
    BY <1>1, <2>1, FinishHolds, HeldByOthers
<1>3. CASE ~MigrationFails(p)
  <2>1. claims' = claims \cup ToMigrate(p)
    BY <1>3 DEF FindForSync, Search
  <2>2. work'[p] = NoWork /\ pc'[p] \in {"sync", "done"}
    BY <1>1, <1>3 DEF FindForSync, Search, Finish, Goto, RequestsOK
  <2>3. ~HasNewRow(p)' /\ work'[p].claims = {} /\ work'[p].kind = "none" /\ work[p].claims = {}
    BY <1>1, <2>2 DEF HasNewRow, NoWork
  <2>4. RegsAreUnique'
    BY <1>1, <2>2 DEF Prod, TablesHold, RegsAreUnique, Frame, Collides
  <2>5. RegsAreClaimed'
    <3>1. \A m \in ToMigrate(p) :
             /\ \A n \in ToMigrate(p) \cup claims : m[1] = n[1] => m = n
             /\ \A r \in regs : m[1] = r.cls => m[2] = r.id
      BY <1>1, <1>3, MigratedAreFree
    <3>2. \A m, n \in claims' : m[1] = n[1] => m = n
      BY <2>1, <3>1 DEF Prod, TablesHold, RegsAreClaimed
    <3>3. \A r \in regs, m \in claims' : m[1] = r.cls => m[2] = r.id
      BY <2>1, <3>1 DEF Prod, TablesHold, RegsAreClaimed
    <3>4. ASSUME NEW r \in regs PROVE <<r.cls, r.id>> \in claims'
      BY <2>1, <2>3, <3>4 DEF ToMigrate, Prod, TablesHold, RegsAreClaimed, Unclaimed
    <3> QED
      BY <1>1, <3>2, <3>3, <3>4 DEF RegsAreClaimed
  <2>6. Holds(p)'
    BY <2>2, <2>3 DEF Holds, ProdRequest, SearchIsDone, SearchedSteps, ClaimsAreFree, RowIsFree
  <2>7. ASSUME NEW q \in Requests \ {p} PROVE Holds(q)'
    <3>1. /\ pc'[q] = pc[q] /\ call'[q] = call[q] /\ work'[q] = work[q]
          /\ NewRow(q)' = NewRow(q) /\ HasNewRow(q)' = HasNewRow(q)
      BY <1>1 DEF Frame, NewRow, HasNewRow
    <3>2. Holds(q)
      BY DEF Prod, TablesHold
    <3>3. ProdRequest(q)'
      BY <3>1, <3>2 DEF Holds, ProdRequest
    <3>4. SearchIsDone(q)'
      BY <1>1, <2>1, <3>1, <3>2 DEF Holds, SearchIsDone, ToMigrate
    <3>5. \A o \in Requests \ {q} : work'[o].claims \subseteq work[o].claims
                                    /\ (HasNewRow(o)' => HasNewRow(o) /\ work'[o] = work[o])
      BY <1>1, <2>3 DEF Frame, HasNewRow, NewRow
    <3>6. ClaimsAreFree(q)'
      <4>1. \A m \in work[q].claims, n \in ToMigrate(p) : m[1] # n[1]
        BY <1>1, <1>3, MigratedAreFree
      <4> QED
        BY <1>1, <2>1, <3>1, <3>2, <3>5, <4>1 DEF Holds, ClaimsAreFree
    <3>7. RowIsFree(q)'
      BY <1>1, <3>1, <3>2, <3>5 DEF Holds, RowIsFree, Collides
    <3> QED
      BY <3>3, <3>4, <3>6, <3>7 DEF Holds
  <2> QED
    BY <2>4, <2>5, <2>6, <2>7 DEF TablesHold
<1> QED
  BY <1>2, <1>3

\* What a commit stores: nothing, a new registration, or an update of one.
LEMMA CommitStores ==
    ASSUME NEW p \in Requests, Prod, ReadIsStored(p), Commit(p)
    PROVE  /\ claims' = claims \cup work[p].claims
           /\ \/ work[p].kind = "none" /\ regs' = regs
              \/ /\ HasNewRow(p) /\ <<call[p].cls, p>> \in work[p].claims
                 /\ regs' = regs \cup {work[p].row}
              \/ /\ work[p].kind = "update"
                 /\ \E s \in regs : SameTopic(s, work[p].row)
                                    /\ regs' = (regs \ {s}) \cup {work[p].row}
<1>1. ProdRequest(p) /\ pc[p] = "commit" /\ RegsAreUnique
  BY DEF Prod, TablesHold, Holds, Commit, At
<1>2. CASE work[p].kind = "none"
  BY <1>2 DEF Commit
<1>3. CASE HasNewRow(p)
  <2>1. <<call[p].cls, p>> \in work[p].claims
    BY <1>1, <1>3 DEF ProdRequest
  <2>2. \A r \in regs : r.id # work[p].row.id
    BY <1>1, <1>3 DEF HasNewRow, NewRow, RegsAreUnique
  <2>3. {r \in regs : r.id # work[p].row.id} = regs
    BY <2>2
  <2> QED
    BY <1>3, <2>1, <2>3 DEF Commit, HasNewRow
<1>4. CASE work[p].kind = "update"
  <2>1. PICK s \in regs : SameTopic(s, work[p].row)
    BY <1>4 DEF ReadIsStored
  <2>2. {r \in regs : r.id # work[p].row.id} = regs \ {s}
    BY <1>1, <2>1 DEF RegsAreUnique, SameTopic
  <2> QED
    BY <1>4, <2>1, <2>2 DEF Commit
<1> QED
  BY <1>1, <1>2, <1>3, <1>4 DEF ProdRequest

\* The registrations after a commit are those from before, perhaps with another
\* versioned flag, and the new one; those that are new or updated have claims.
LEMMA CommittedRegs ==
    ASSUME NEW p \in Requests, Prod, ReadIsStored(p), Commit(p)
    PROVE  /\ \A r \in regs' : (\E s \in regs : SameTopic(s, r))
                               \/ (HasNewRow(p) /\ r = work[p].row)
           /\ \A r \in regs' : r \in regs \/ <<r.cls, r.id>> \in claims'
           /\ \A r \in regs : \E s \in regs' : SameTopic(s, r)
           /\ \A r, s \in regs' : r.id = s.id \/ Collides(r, s) => r = s
<1>1. /\ RegsAreUnique /\ RegsAreClaimed /\ Holds(p) /\ pc[p] = "commit"
      /\ claims' = claims \cup work[p].claims
  BY CommitStores DEF Prod, TablesHold, Commit, At
<1>2. \A r, s \in regs : r.id = s.id \/ Collides(r, s) => r = s
  BY <1>1 DEF RegsAreUnique
<1>3. CASE regs' = regs
  BY <1>2, <1>3 DEF SameTopic
<1>4. CASE /\ HasNewRow(p) /\ <<call[p].cls, p>> \in work[p].claims
           /\ regs' = regs \cup {work[p].row}
  <2>1. work[p].row.cls = call[p].cls /\ work[p].row.id = p
    BY <1>4 DEF HasNewRow, NewRow
  <2>2. \A r \in regs : r.id # p /\ ~Collides(r, work[p].row) /\ ~Collides(work[p].row, r)
    BY <1>1, <1>4 DEF RegsAreUnique, Holds, RowIsFree, Collides
  <2> QED
    BY <1>1, <1>2, <1>4, <2>1, <2>2 DEF SameTopic
<1>5. ASSUME NEW s \in regs, SameTopic(s, work[p].row), regs' = (regs \ {s}) \cup {work[p].row}
      PROVE  /\ \A r \in regs' : \E t \in regs : SameTopic(t, r)
             /\ \A r \in regs' : r \in regs \/ <<r.cls, r.id>> \in claims'
             /\ \A r \in regs : \E t \in regs' : SameTopic(t, r)
             /\ \A r, t \in regs' : r.id = t.id \/ Collides(r, t) => r = t
  <2>1. <<s.cls, s.id>> \in claims'
    <3>1. CASE <<s.cls, s.id>> \in claims
      BY <1>1, <3>1
    <3>2. CASE ~s.versioned /\ Unclaimed(s)
      <4>1. <<s.cls, s.id>> \in work[p].claims
        BY <1>1, <3>2 DEF Holds, SearchIsDone, SearchedSteps, ToMigrate, Unclaimed
      <4> QED
        BY <1>1, <4>1
    <3> QED
      BY <1>1, <3>1, <3>2 DEF RegsAreClaimed
  <2>2. \A r \in regs' : \E t \in regs : SameTopic(t, r)
    BY <1>5 DEF SameTopic
  <2>3. \A r \in regs : \E t \in regs' : SameTopic(t, r)
    BY <1>5 DEF SameTopic
  <2>4. \A r, t \in regs' : r.id = t.id \/ Collides(r, t) => r = t
    BY <1>2, <1>5 DEF SameTopic, Collides
  <2> QED
    BY <1>5, <2>1, <2>2, <2>3, <2>4 DEF SameTopic
<1> QED
  BY <1>3, <1>4, <1>5, CommitStores

LEMMA CommitKeepsTables ==
    ASSUME NEW p \in Requests, Prod, ReadIsStored(p), Commit(p) PROVE TablesHold'
<1>1. /\ RequestsOK /\ StoresOK /\ Holds(p) /\ Frame(p) /\ pc[p] = "commit"
      /\ claims' = claims \cup work[p].claims /\ \E r : Finish(p, r)
      /\ RegsAreUnique /\ RegsAreClaimed /\ regs \subseteq Row
  BY StatePartsOf, StepFrame, CommitStores
     DEF Prod, TablesHold, Step, Serve, Commit, At, StoresOK
<1>2. work'[p] = NoWork /\ pc'[p] = "done"
  BY <1>1 DEF Finish, RequestsOK
<1>3. ~HasNewRow(p)' /\ work'[p].claims = {} /\ work'[p].kind = "none"
  BY <1>2 DEF HasNewRow, NoWork
<1>4. HasNewRow(p) => /\ <<call[p].cls, p>> \in work[p].claims
                      /\ work[p].row.cls = call[p].cls /\ work[p].row.id = p
  BY <1>1 DEF Holds, ProdRequest, HasNewRow, NewRow
<1>5. RegsAreUnique'
  <2>1. ASSUME NEW r \in regs', r.id \in Requests PROVE pc'[r.id] = "done"
    <3>1. r.id = p \/ pc[r.id] = "done"
      BY <1>1, <1>4, <2>1, CommittedRegs DEF RegsAreUnique, SameTopic
    <3> QED
      BY <1>1, <1>2, <2>1, <3>1 DEF Frame
  <2> QED
    BY <2>1, CommittedRegs DEF RegsAreUnique, Collides
<1>6. RegsAreClaimed'
  <2>1. \A m, n \in claims' : m[1] = n[1] => m = n
    BY <1>1 DEF RegsAreClaimed, Holds, ClaimsAreFree
  <2>2. ASSUME NEW r \in regs', NEW m \in claims', m[1] = r.cls PROVE m[2] = r.id
    <3>1. CASE \E s \in regs : SameTopic(s, r)
      BY <1>1, <2>2, <3>1 DEF SameTopic, RegsAreClaimed, Holds, ClaimsAreFree
    <3>2. CASE HasNewRow(p) /\ r = work[p].row
      <4>1. m = <<call[p].cls, p>>
        BY <1>1, <1>4, <2>1, <2>2, <3>2
      <4> QED
        BY <1>4, <3>2, <4>1
    <3> QED
      BY <3>1, <3>2, CommittedRegs
  <2>3. ASSUME NEW r \in regs' PROVE <<r.cls, r.id>> \in claims' \/ (~r.versioned /\ Unclaimed(r)')
    <3>1. CASE r \in regs /\ ~r.versioned /\ <<r.cls, r.id>> \notin claims'
      <4>1. Unclaimed(r)
        BY <1>1, <3>1 DEF RegsAreClaimed
      <4>2. <<r.cls, r.id>> \in work[p].claims
        BY <1>1, <3>1, <4>1 DEF Holds, SearchIsDone, SearchedSteps, ToMigrate, Unclaimed
      <4> QED
        BY <1>1, <4>2
    <3>2. CASE r \in regs /\ r.versioned
      BY <1>1, <3>2 DEF RegsAreClaimed
    <3> QED
      BY <2>3, <3>1, <3>2, CommittedRegs
  <2> QED
    BY <2>1, <2>2, <2>3 DEF RegsAreClaimed
<1>7. Holds(p)'
  BY <1>1, FinishHolds
<1>8. ASSUME NEW q \in Requests \ {p} PROVE Holds(q)'
  <2>1. /\ pc'[q] = pc[q] /\ call'[q] = call[q] /\ work'[q] = work[q]
        /\ NewRow(q)' = NewRow(q) /\ HasNewRow(q)' = HasNewRow(q)
    BY <1>1 DEF Frame, NewRow, HasNewRow
  <2>2. Holds(q)
    BY DEF Prod, TablesHold
  <2>3. ProdRequest(q)'
    BY <2>1, <2>2 DEF Holds, ProdRequest
  <2>4. SearchIsDone(q)'
    <3> SUFFICES ASSUME pc[q] \in SearchedSteps, NEW r \in regs', ~r.versioned, Unclaimed(r)'
                 PROVE  <<r.cls, r.id>> \in work[q].claims
      BY <2>1 DEF SearchIsDone, ToMigrate, Unclaimed
    <3>1. r \in regs
      <4>1. r.cls \in Classifiers
        <5>1. CASE \E t \in regs : SameTopic(t, r)
          BY <1>1, <5>1 DEF SameTopic, Row
        <5>2. CASE HasNewRow(p) /\ r = work[p].row
          <6>1. <<call[p].cls, p>> \in Claims
            BY <1>1, <1>4, <5>2 DEF RequestsOK, Work
          <6> QED
            BY <1>4, <5>2, <6>1 DEF Claims
        <5> QED
          BY <5>1, <5>2, CommittedRegs
      <4> QED
        BY <4>1, CommittedRegs DEF Unclaimed
    <3>2. Unclaimed(r)
      BY <1>1 DEF Unclaimed
    <3> QED
      BY <2>2, <3>1, <3>2 DEF Holds, SearchIsDone, ToMigrate, Unclaimed
  <2>5. \A o \in Requests \ {q} : work'[o].claims \subseteq work[o].claims
                                  /\ (HasNewRow(o)' => HasNewRow(o) /\ work'[o] = work[o])
    BY <1>1, <1>2, <1>3 DEF Frame, HasNewRow, NewRow, NoWork
  <2>6. ClaimsAreFree(q)'
    <3>1. \A m \in work[q].claims, n \in claims' : m[1] # n[1]
      BY <1>1, <2>2 DEF Holds, ClaimsAreFree
    <3>2. ASSUME NEW m \in work[q].claims, NEW r \in regs', m[1] = r.cls PROVE m[2] = r.id
      <4>1. ~(HasNewRow(p) /\ r = work[p].row)
        BY <1>1, <1>4, <3>1, <3>2
      <4> QED
        BY <2>2, <3>2, <4>1, CommittedRegs DEF SameTopic, Holds, ClaimsAreFree
    <3> QED
      BY <2>1, <2>2, <2>5, <3>1, <3>2 DEF Holds, ClaimsAreFree
  <2>7. RowIsFree(q)'
    <3>1. ASSUME HasNewRow(q), NEW r \in regs' PROVE ~Collides(r, work[q].row)
      BY <2>2, <3>1, CommittedRegs DEF SameTopic, Holds, RowIsFree, Collides
    <3> QED
      BY <2>1, <2>2, <2>5, <3>1 DEF Holds, RowIsFree, Collides
  <2> QED
    BY <2>3, <2>4, <2>6, <2>7 DEF Holds
<1> QED
  BY <1>5, <1>6, <1>7, <1>8 DEF TablesHold

LEMMA StepKeepsTables ==
    ASSUME NEW p \in Requests, Prod, ReadIsStored(p), RegisteredTopicsExist, Step(p)
    PROVE  TablesHold'
<1>1. pc[p] \notin {"remove", "drop"} /\ Frame(p)
  BY StepFrame DEF Prod, TablesHold, Holds, ProdRequest
<1>2. CASE Commit(p)
  BY <1>2, CommitKeepsTables
<1>3. CASE FindForSync(p)
  BY <1>3, FindForSyncKeepsTables
<1>4. CASE ~Commit(p) /\ ~FindForSync(p)
  <2>1. regs' = regs /\ claims' = claims
    BY <1>1, <1>4 DEF Prod, Step, Serve, Submit, Lose, Lock, Lookup, Compare, Probe, InsertRow,
        InsertOwnClaim, InsertSiblingClaim, InsertClaim, SaveRow, MakeTopic,
        DescribeNewTopic, ApplySettings, FindForDelete, RemoveRow, DropTopic, ProbeForSync,
        SyncTopic, DeadlockVictim
  <2>2. pc[p] # "done"
    <3>1. CASE DeadlockVictim(p)
      BY <3>1 DEF DeadlockVictim, Circle, BlockedBy
    <3> QED
      BY <1>4, <3>1 DEF Step, Serve, Submit, Lose, Lock, Lookup, Compare, Probe, InsertRow,
        InsertOwnClaim, InsertSiblingClaim, SaveRow, MakeTopic, DescribeNewTopic,
        ApplySettings, FindForDelete, RemoveRow, DropTopic, ProbeForSync, SyncTopic, At
  <2>3. CASE SyncTopic(p)
    BY <2>3, SyncTopicFinishes, FinishHolds, <1>1, <2>1, <2>2, HeldByOthers DEF Prod
  <2>4. CASE Lose(p) \/ DeadlockVictim(p) \/ FindForDelete(p)
    BY <1>1, <2>1, <2>2, <2>4, FinishHolds, HeldByOthers
       DEF Prod, Lose, DeadlockVictim, FindForDelete
  <2>5. CASE RemoveRow(p) \/ DropTopic(p)
    BY <1>1, <2>5 DEF RemoveRow, DropTopic, At
  <2>6. CASE ~SyncTopic(p) /\ ~Lose(p) /\ ~DeadlockVictim(p) /\ ~FindForDelete(p)
             /\ ~RemoveRow(p) /\ ~DropTopic(p)
    <3>1. Holds(p)'
      BY <1>4, <2>6, SubmitHolds, LockHolds, LookupHolds, CompareHolds, ProbeHolds,
         InsertRowHolds, InsertOwnClaimHolds, InsertSiblingClaimHolds, SaveRowHolds,
         MakeTopicHolds, DescribeHolds, ApplySettingsHolds, ProbeForSyncHolds DEF Step, Serve
    <3> QED
      BY <1>1, <2>1, <2>2, <3>1, HeldByOthers
  <2> QED
    BY <2>3, <2>4, <2>5, <2>6
<1> QED
  BY <1>2, <1>3, <1>4

-----------------------------------------------------------------------------
(* The topics on Kafka                                                     *)

\* The topics that a step of p creates or deletes, or whose settings it
\* changes, are no other registration's and no other transaction's.
LEMMA TopicChanges ==
    ASSUME NEW p \in Requests, Prod, TopicsHold, Step(p), NEW k \in Keys
    PROVE  /\ \/ kafka'[k] = kafka[k]
              \/ kafka[k] = Absent /\ kafka'[k] = p
              \/ /\ kafka'[k] = Absent /\ pc[p] = "describe" /\ pc'[p] # "commit"
                 /\ HasNewRow(p) /\ k = work[p].row.key
           /\ kafka'[k] # kafka[k] \/ tunedBy'[k] # tunedBy[k] =>
                 \/ HasNewRow(p) /\ k = work[p].row.key
                 \/ work[p].kind = "update" /\ ~work[p].row.ext /\ k = work[p].row.key
<1>1. /\ RequestsOK /\ StoresOK /\ Holds(p) /\ pc[p] # "drop" /\ RegisteredTopicsExist
      /\ ReadIsStored(p)
  BY StatePartsOf DEF Prod, TablesHold, Holds, ProdRequest, TopicsHold
<1>2. CASE MakeTopic(p)
  <2>1. HasNewRow(p) /\ work[p].row.key \in Keys
    BY <1>1, <1>2, StatePartsOf DEF MakeTopic, At, Holds, ProdRequest, Prod, StepOK, Row
  <2> QED
    BY <1>1, <1>2, <2>1 DEF MakeTopic, CreateOnKafka, StoresOK
<1>3. CASE SyncTopic(p)
  BY <1>1, <1>3, SyncTopicFinishes DEF Prod, SyncTopic
<1>4. CASE DescribeNewTopic(p)
  <2>1. HasNewRow(p) /\ NewTopicKey(p) = work[p].row.key /\ call[p].op # "sync"
    BY <1>1, <1>4 DEF DescribeNewTopic, At, NewTopicKey, Holds, ProdRequest, SearchedSteps
  <2>2. ASSUME Finish(p, "error") PROVE pc'[p] # "commit"
    BY <1>1, <2>2 DEF Finish, RequestsOK
  <2> QED
    BY <1>1, <1>4, <2>1, <2>2 DEF DescribeNewTopic, At, StoresOK
<1>5. CASE ApplySettings(p)
  <2>1. HasNewRow(p) \/ work[p].kind = "update"
    BY <1>1, <1>5 DEF ApplySettings, At, Holds, ProdRequest
  <2>2. work[p].row.key \in Keys
    BY <1>5, StatePartsOf DEF ApplySettings, At, Prod, StepOK, Row
  <2> QED
    BY <1>1, <1>5, <2>1, <2>2 DEF ApplySettings, StoresOK
<1>6. CASE ~MakeTopic(p) /\ ~SyncTopic(p) /\ ~DescribeNewTopic(p) /\ ~ApplySettings(p)
  <2>1. kafka' = kafka /\ tunedBy' = tunedBy
    BY <1>1, <1>6 DEF Step, Serve, Submit, Lose, Lock, Lookup, Compare, Probe, InsertRow,
        InsertOwnClaim, InsertSiblingClaim, InsertClaim, SaveRow, Commit, FindForDelete,
        RemoveRow, DropTopic, At, FindForSync, ProbeForSync, DeadlockVictim
  <2> QED
    BY <2>1
<1> QED
  BY <1>2, <1>3, <1>4, <1>5, <1>6

\* The topic of a registration from before the step stays, and so does that of
\* another transaction.
LEMMA TopicsStay ==
    ASSUME NEW p \in Requests, Prod, TopicsHold, Step(p)
    PROVE  /\ \A r \in regs : kafka[r.key] # Absent => kafka'[r.key] # Absent
           /\ \A q \in Requests : HasNewRow(q) /\ work[q].row.key \in Keys
                 /\ kafka[work[q].row.key] # Absent /\ (q = p => pc'[p] = "commit")
                 => kafka'[work[q].row.key] # Absent
<1>1. p # Absent /\ regs \subseteq Row /\ Holds(p)
  BY StatePartsOf, DistinctAssumption DEF Prod, TablesHold, StoresOK, Ids
<1>2. ASSUME NEW r \in regs, kafka[r.key] # Absent PROVE kafka'[r.key] # Absent
  <2>1. r.key \in Keys
    BY <1>1 DEF Row
  <2>2. HasNewRow(p) => r.key # work[p].row.key
    BY <1>1 DEF Holds, RowIsFree, Collides
  <2> QED
    BY <1>1, <1>2, <2>1, <2>2, TopicChanges
<1>3. ASSUME NEW q \in Requests, HasNewRow(q), work[q].row.key \in Keys,
             kafka[work[q].row.key] # Absent, q = p => pc'[p] = "commit"
      PROVE  kafka'[work[q].row.key] # Absent
  <2>1. q # p /\ HasNewRow(p) => work[p].row.key # work[q].row.key
    BY <1>1, <1>3 DEF Holds, RowIsFree, Collides
  <2> QED
    BY <1>1, <1>3, <2>1, TopicChanges
<1> QED
  BY <1>2, <1>3

\* A registration that was stored before a step is stored after it.
LEMMA RegsStay ==
    ASSUME NEW p \in Requests, Prod, ReadIsStored(p), Step(p), NEW r \in regs
    PROVE  \E s \in regs' : SameTopic(s, r)
<1>1. CASE Commit(p)
  BY <1>1, CommittedRegs
<1>2. CASE ~Commit(p)
  <2>1. regs' = regs
    BY <1>2 DEF Step, Serve, Submit, Lose, Lock, Lookup, Compare, Probe, InsertRow,
        InsertOwnClaim, InsertSiblingClaim, InsertClaim, SaveRow, MakeTopic,
        DescribeNewTopic, ApplySettings, FindForDelete, RemoveRow, DropTopic, FindForSync,
        ProbeForSync, SyncTopic, DeadlockVictim
  <2> QED
    BY <2>1 DEF SameTopic
<1> QED
  BY <1>1, <1>2

\* A transaction that updates a registration has saved the one it has read.
LEMMA UpdateOfRead ==
    ASSUME NEW p \in Requests, Prod, Step(p), work'[p].kind = "update"
    PROVE  \/ work[p].kind = "update" /\ work'[p] = work[p]
           \/ seen[p] # NoRow /\ SameTopic(seen[p], work'[p].row)
<1>1. /\ RequestsOK /\ StepOK(p) /\ work[p] \in Work /\ Holds(p)
  BY StatePartsOf DEF Prod, TablesHold
<1>2. ASSUME NEW r, Finish(p, r) PROVE work'[p].kind = "none"
  BY <1>1, <1>2 DEF Finish, RequestsOK, NoWork
<1>3. CASE SaveRow(p)
  <2>1. seen[p] \in Row /\ seen[p] # NoRow
    BY <1>1, <1>3, DistinctAssumption DEF StepOK, SaveRow, At
  <2>2. work'[p].row = SavedRow(p)
    <3>1. PICK k \in {"update", "reinsert"} :
             work' = [work EXCEPT ![p] = [work[p] EXCEPT !.kind = k, !.row = SavedRow(p)]]
      BY <1>2, <1>3 DEF SaveRow
    <3> HIDE DEF SavedRow
    <3> QED
      BY <1>1, <3>1 DEF RequestsOK, Work
  <2>3. SameTopic(seen[p], SavedRow(p))
    BY <2>1 DEF SameTopic, SavedRow, Row
  <2> QED
    BY <2>1, <2>2, <2>3
<1>4. CASE Probe(p)
  <2>1. work'[p].kind \in {"none", "make", "adopt"}
    <3> DEFINE migrated == work[p].claims \cup ToMigrate(p)
    <3>1. work[p].kind = "none"
      BY <1>1, <1>4 DEF Holds, ProdRequest, Probe, At
    <3>2. ASSUME NEW k \in {"adopt", "make"},
                 work' = [work EXCEPT ![p] = [work[p] EXCEPT !.kind = k, !.claims = migrated]]
          PROVE  work'[p].kind = k
      BY <1>1, <3>2 DEF RequestsOK, Work
    <3>3. CASE work' = [work EXCEPT ![p].claims = migrated]
      BY <1>1, <3>1, <3>3 DEF RequestsOK, Work
    <3> QED
      BY <1>2, <1>4, <3>2, <3>3 DEF Probe, ProbeNext
  <2> QED
    BY <2>1
<1>5. CASE Lookup(p)
  BY <1>1, <1>2, <1>5 DEF Lookup, At, Holds, ProdRequest, RequestsOK, Work, NoWork
<1>6. CASE InsertRow(p)
  BY <1>1, <1>2, <1>6 DEF InsertRow, At, Holds, ProdRequest, RequestsOK, Work
<1>7. CASE InsertOwnClaim(p) \/ InsertSiblingClaim(p)
  BY <1>1, <1>2, <1>7 DEF InsertOwnClaim, InsertSiblingClaim, InsertClaim, At, Holds,
      ProdRequest, HasNewRow, RequestsOK, Work
<1>8. CASE \/ Submit(p) \/ Lose(p) \/ Lock(p) \/ Compare(p) \/ MakeTopic(p)
           \/ DescribeNewTopic(p) \/ ApplySettings(p) \/ Commit(p) \/ FindForDelete(p)
           \/ FindForSync(p) \/ ProbeForSync(p) \/ SyncTopic(p) \/ DeadlockVictim(p)
  <2>1. work' = work \/ \E r : Finish(p, r)
    BY <1>8 DEF Prod, Submit, Lose, Lock, Compare, MakeTopic, CreateOnKafka, DescribeNewTopic,
        ApplySettings, Commit, FindForDelete, FindForSync, Search, ProbeForSync, SyncTopic,
        DeadlockVictim, Continue
  <2> QED
    BY <1>2, <2>1
<1>9. CASE RemoveRow(p) \/ DropTopic(p)
  BY <1>1, <1>9 DEF RemoveRow, DropTopic, At, Holds, ProdRequest
<1> QED
  BY <1>3, <1>4, <1>5, <1>6, <1>7, <1>8, <1>9 DEF Step, Serve

\* Where a step of p leads to "describe" or "commit" with a new registration,
\* it has created its topic or has found it there.
LEMMA StepFindsTopic ==
    ASSUME NEW p \in Requests, Prod, TopicsHold, Step(p), Holds(p)'
    PROVE  TopicIsThere(p)'
<1>1. /\ RequestsOK /\ StoresOK /\ StepOK(p) /\ Holds(p) /\ TopicIsThere(p) /\ p # Absent
  BY StatePartsOf, DistinctAssumption DEF Prod, TablesHold, TopicsHold, Ids
<1> SUFFICES ASSUME pc'[p] \in {"describe", "commit"}, HasNewRow(p)', ~work'[p].row.ext
             PROVE  kafka'[work'[p].row.key] # Absent
  BY DEF TopicIsThere
<1>2. ~\E r : Finish(p, r)
  <2>1. ASSUME NEW r, Finish(p, r) PROVE pc'[p] = "done"
    BY <1>1, <2>1 DEF RequestsOK, Finish
  <2> QED
    BY <2>1
<1>3. ASSUME NEW s, Continue(p, s)
      PROVE  pc'[p] = s /\ work'[p] = work[p] /\ (HasNewRow(p)' <=> HasNewRow(p))
  BY <1>1, <1>3 DEF RequestsOK, Continue, Goto, HasNewRow, NewRow
<1>4. CASE MakeTopic(p)
  <2>1. work[p].row.key \in Keys
    BY <1>1, <1>4 DEF MakeTopic, At, StepOK, Row
  <2> QED
    BY <1>1, <1>2, <1>3, <1>4, <2>1 DEF MakeTopic, CreateOnKafka, StoresOK
<1>5. CASE DescribeNewTopic(p)
  <2>1. call[p].op # "sync" /\ pc[p] = "describe"
    BY <1>1, <1>5 DEF DescribeNewTopic, At, Holds, ProdRequest, SearchedSteps
  <2>2. Continue(p, "commit") /\ kafka' = kafka
    BY <1>2, <1>5, <2>1 DEF DescribeNewTopic
  <2> QED
    BY <1>1, <1>3, <2>1, <2>2 DEF TopicIsThere
<1>6. CASE ApplySettings(p)
  <2>1. Continue(p, "commit") /\ kafka' = kafka /\ (work[p].row.ext \/ kafka[work[p].row.key] # Absent)
    BY <1>2, <1>6 DEF ApplySettings
  <2> QED
    BY <1>3, <2>1
<1>7. CASE Compare(p)
  <2>1. Continue(p, "commit") /\ work[p].kind = "none"
    BY <1>1, <1>2, <1>7 DEF Compare, At, Holds, ProdRequest
  <2> QED
    BY <1>3, <2>1 DEF HasNewRow
<1>8. CASE Probe(p)
  <2>1. CASE Goto(p, "insert")
    BY <1>1, <2>1 DEF Goto, RequestsOK
  <2>2. CASE \E c : work' = [work EXCEPT ![p].claims = c]
    <3>1. work'[p].kind = "none"
      BY <1>1, <1>8, <2>2 DEF Probe, At, Holds, ProdRequest, RequestsOK, Work
    <3> QED
      BY <3>1 DEF HasNewRow
  <2> QED
    BY <1>2, <1>8, <2>1, <2>2 DEF Probe, ProbeNext
<1>9. CASE RemoveRow(p) \/ DropTopic(p)
  BY <1>1, <1>9 DEF RemoveRow, DropTopic, At, Holds, ProdRequest
<1>10. CASE \/ Submit(p) \/ Lose(p) \/ Lock(p) \/ Lookup(p) \/ InsertRow(p)
            \/ InsertOwnClaim(p) \/ InsertSiblingClaim(p) \/ SaveRow(p) \/ Commit(p)
            \/ FindForDelete(p) \/ FindForSync(p) \/ ProbeForSync(p) \/ SyncTopic(p)
            \/ DeadlockVictim(p)
  <2>1. CASE Submit(p)
    BY <1>1, <2>1 DEF Submit, RequestsOK
  <2>2. CASE SyncTopic(p)
    BY <1>2, <2>2, SyncTopicFinishes DEF Prod, TopicsHold
  <2>3. CASE \E s \in {"lookup", "probe", "compare", "save", "own", "sibling", "broker",
                       "sync", "syncCreate"} : Goto(p, s)
    BY <1>1, <2>3 DEF Goto, RequestsOK
  <2> QED
    BY <1>2, <1>10, <2>1, <2>2, <2>3 DEF Prod, Lose, Lock, Lookup, LookupNext,
        SettingsAreEqual, InsertRow, InsertOwnClaim, InsertSiblingClaim, InsertClaim, SaveRow,
        Commit, FindForDelete, FindForSync, Search, ProbeForSync, DeadlockVictim, Continue
<1> QED
  BY <1>4, <1>5, <1>6, <1>7, <1>8, <1>9, <1>10 DEF Step, Serve

LEMMA StepKeepsTopics ==
    ASSUME NEW p \in Requests, Prod, TopicsHold, Step(p), TablesHold'
    PROVE  TopicsHold'
<1>1. /\ RequestsOK /\ StoresOK /\ RegisteredTopicsExist /\ Frame(p) /\ Holds(p)'
      /\ \A q \in Requests : ReadIsStored(q) /\ TopicIsThere(q) /\ StepOK(q)
  BY StatePartsOf, StepFrame DEF Prod, TopicsHold, TablesHold
<1>2. \A r \in regs : \E s \in regs' : SameTopic(s, r)
  BY <1>1, RegsStay
<1>3. \A r \in regs : ~r.ext => kafka'[r.key] # Absent
  BY <1>1, TopicsStay DEF RegisteredTopicsExist
<1>4. ASSUME NEW r \in regs', ~r.ext PROVE kafka'[r.key] # Absent
  <2>1. CASE r \in regs
    BY <1>3, <1>4, <2>1
  <2>2. CASE pc[p] = "commit" /\ work[p].kind # "none" /\ r = work[p].row
    <3>1. CASE HasNewRow(p)
      <4>1. kafka[r.key] # Absent
        BY <1>1, <1>4, <2>2, <3>1 DEF TopicIsThere
      <4>2. kafka' = kafka
        <5>1. r \notin regs
          BY <2>2, <3>1 DEF Prod, TablesHold, Holds, RowIsFree, Collides
        <5>2. Commit(p)
          BY <1>4, <5>1 DEF Step, Serve, Submit, Lose, Lock, Lookup, Compare, Probe, InsertRow,
              InsertOwnClaim, InsertSiblingClaim, InsertClaim, SaveRow, MakeTopic,
              DescribeNewTopic, ApplySettings, FindForDelete, RemoveRow, DropTopic,
              FindForSync, ProbeForSync, SyncTopic, DeadlockVictim
        <5> QED
          BY <5>2 DEF Commit
      <4> QED
        BY <4>1, <4>2
    <3>2. CASE work[p].kind = "update"
      <4>1. \E s \in regs : s.key = r.key /\ s.ext = r.ext
        BY <1>1, <2>2, <3>2 DEF ReadIsStored, SameTopic
      <4> QED
        BY <1>3, <1>4, <4>1
    <3> QED
      BY <2>2, <3>1, <3>2 DEF Prod, TablesHold, Holds, ProdRequest
  <2> QED
    BY <2>1, <2>2, RegsChanges DEF Prod
<1>5. ReadIsStored(p)'
  <2>1. \A x : (\E r \in regs : SameTopic(r, x)) => \E s \in regs' : SameTopic(s, x)
    BY <1>2 DEF SameTopic
  <2>2. seen'[p] # NoRow => \E r \in regs : SameTopic(r, seen'[p])
    BY <1>1, SeenChanges DEF Prod, ReadIsStored, SameTopic
  <2>3. work'[p].kind = "update" => \E r \in regs : SameTopic(r, work'[p].row)
    BY <1>1, UpdateOfRead DEF ReadIsStored, SameTopic
  <2> QED
    BY <2>1, <2>2, <2>3 DEF ReadIsStored
<1>6. TopicIsThere(p)'
  BY <1>1, StepFindsTopic
<1>7. ASSUME NEW q \in Requests \ {p} PROVE ReadIsStored(q)' /\ TopicIsThere(q)'
  <2>1. /\ pc'[q] = pc[q] /\ seen'[q] = seen[q] /\ work'[q] = work[q]
        /\ HasNewRow(q)' = HasNewRow(q)
    BY <1>1 DEF Frame, HasNewRow, NewRow
  <2>2. ReadIsStored(q)'
    BY <1>1, <1>2, <2>1 DEF ReadIsStored, SameTopic
  <2>3. pc[q] = "describe" \/ (pc[q] = "commit" /\ HasNewRow(q)) => work[q].row.key \in Keys
    BY <1>1 DEF StepOK, Prod, TablesHold, Holds, ProdRequest, SearchedSteps, Row, HasNewRow
  <2>4. TopicIsThere(q)'
    BY <1>1, <2>1, <2>3, TopicsStay DEF TopicIsThere
  <2> QED
    BY <2>2, <2>4
<1> QED
  BY <1>4, <1>5, <1>6, <1>7 DEF TopicsHold, RegisteredTopicsExist

-----------------------------------------------------------------------------
(* The theorems                                                            *)

LEMMA ModeIsFixed ==
    ASSUME NEW p \in Requests, Step(p) PROVE prodMode' = prodMode
BY DEF Step, Serve, Submit, Lose, Lock, Lookup, Compare, Probe, InsertRow, InsertOwnClaim,
    InsertSiblingClaim, InsertClaim, SaveRow, MakeTopic, DescribeNewTopic, ApplySettings,
    Commit, FindForDelete, RemoveRow, DropTopic, FindForSync, ProbeForSync, SyncTopic,
    DeadlockVictim

LEMMA NextKeepsProdInv ==
    TypeInv /\ (prodMode => ProdInv) /\ [Next]_vars => (prodMode => ProdInv)'
<1> SUFFICES ASSUME TypeInv, prodMode => ProdInv, [Next]_vars, prodMode' PROVE ProdInv'
  OBVIOUS
<1>1. CASE UNCHANGED vars
  <2>1. prodMode /\ ProdInv
    BY <1>1 DEF vars
  <2>2. ASSUME NEW p \in Requests, Holds(p) PROVE Holds(p)'
    BY <1>1, <2>2 DEF vars, Holds, ProdRequest, SearchIsDone, ToMigrate, ClaimsAreFree,
        RowIsFree, HasNewRow, NewRow, Collides
  <2>3. ASSUME NEW p \in Requests, ReadIsStored(p) /\ TopicIsThere(p)
        PROVE  ReadIsStored(p)' /\ TopicIsThere(p)'
    BY <1>1, <2>3 DEF vars, ReadIsStored, TopicIsThere, HasNewRow, NewRow, SameTopic
  <2>4. RegsAreUnique' /\ RegsAreClaimed' /\ RegisteredTopicsExist'
    BY <1>1, <2>1 DEF vars, ProdInv, TablesHold, TopicsHold, RegsAreUnique, RegsAreClaimed,
        RegisteredTopicsExist, Unclaimed, Collides
  <2> QED
    BY <2>1, <2>2, <2>3, <2>4 DEF ProdInv, TablesHold, TopicsHold
<1>2. ASSUME NEW p \in Requests, Step(p) PROVE ProdInv'
  <2>1. Prod /\ TopicsHold /\ ReadIsStored(p) /\ RegisteredTopicsExist
    BY <1>2, ModeIsFixed DEF Prod, ProdInv, TopicsHold
  <2>2. TablesHold'
    BY <1>2, <2>1, StepKeepsTables
  <2> QED
    BY <1>2, <2>1, <2>2, StepKeepsTopics DEF ProdInv
<1>3. ASSUME NEW k \in Keys, CreateOutside(k) PROVE ProdInv'
  <2>1. prodMode /\ ProdInv
    BY <1>3 DEF CreateOutside
  <2>2. TablesHold'
    BY <1>3, <2>1 DEF CreateOutside, ProdInv, TablesHold, RegsAreUnique, RegsAreClaimed,
        Unclaimed, Collides, Holds, ProdRequest, SearchIsDone, ToMigrate, ClaimsAreFree,
        RowIsFree, HasNewRow, NewRow
  <2>3. \A j \in Keys : kafka[j] # Absent => kafka'[j] # Absent
    BY <1>3, OutsideFrame
  <2>4. RegisteredTopicsExist'
    BY <1>3, <2>1, <2>3, TypeOKParts
       DEF TypeInv, StoresOK, Row, CreateOutside, ProdInv, TopicsHold, RegisteredTopicsExist
  <2>5. ASSUME NEW p \in Requests PROVE ReadIsStored(p)' /\ TopicIsThere(p)'
    <3>1. ReadIsStored(p) /\ TopicIsThere(p) /\ StepOK(p) /\ Holds(p)
      BY <2>1, StatePartsOf DEF ProdInv, TopicsHold, TablesHold
    <3>2. ReadIsStored(p)'
      BY <1>3, <3>1 DEF CreateOutside, ReadIsStored, SameTopic
    <3>3. pc[p] = "describe" \/ (pc[p] = "commit" /\ HasNewRow(p)) => work[p].row.key \in Keys
      BY <3>1 DEF StepOK, Holds, ProdRequest, SearchedSteps, Row, HasNewRow
    <3>4. TopicIsThere(p)'
      BY <1>3, <2>3, <3>1, <3>3 DEF CreateOutside, TopicIsThere, HasNewRow, NewRow
    <3> QED
      BY <3>2, <3>4
  <2> QED
    BY <2>2, <2>4, <2>5 DEF ProdInv, TopicsHold
<1> QED
  BY <1>1, <1>2, <1>3 DEF Next, Step

\* In production mode the transactions of getOrCreate and sync, in every
\* interleaving, with crashes, refusals and deadlocks, keep ProdInv.
THEOREM ProdInductive == Spec => [](TypeInv /\ (prodMode => ProdInv))
<1>1. Init => TypeInv /\ (prodMode => ProdInv)
  BY InitTypeInv, InitProdInv
<1>2. TypeInv /\ (prodMode => ProdInv) /\ [Next]_vars => (TypeInv /\ (prodMode => ProdInv))'
  BY NextKeepsTypeInv, NextKeepsProdInv
<1> QED
  BY <1>1, <1>2, PTL DEF Spec

\* In production mode a classifier, its own or one claimed for the sibling
\* namespace, resolves to one registration (getTopicByClassifier).
THEOREM OneTopicInProd == Spec => []ProdOneTopicPerClassifier
<1>1. TypeInv /\ (prodMode => ProdInv) => ProdOneTopicPerClassifier
  <2> SUFFICES ASSUME ProdInv, NEW c \in Classifiers,
                      NEW r \in Matches(c), NEW s \in Matches(c)
               PROVE  r = s
    BY DEF ProdOneTopicPerClassifier, OneTopicPerClassifier
  <2>1. r \in regs /\ s \in regs
    BY DEF Matches
  <2>2. r.id = s.id \/ r.cls = s.cls
    BY DEF Matches, ProdInv, TablesHold, RegsAreClaimed
  <2> QED
    BY <2>1, <2>2 DEF ProdInv, TablesHold, RegsAreUnique, Collides
<1> QED
  BY <1>1, ProdInductive, PTL

\* In production mode every committed registration of a topic that MaaS manages
\* has its topic on Kafka.
THEOREM RegisteredTopicInProd == Spec => []ProdRegisteredTopicExists
<1>1. TypeInv /\ (prodMode => ProdInv) => ProdRegisteredTopicExists
  BY DEF ProdInv, TopicsHold, RegisteredTopicsExist, ProdRegisteredTopicExists
<1> QED
  BY <1>1, ProdInductive, PTL

\* The body of ProdExternalTopicUntouched.
ExternalTopicsKept ==
    prodMode =>
        \A r \in regs : r.ext =>
            /\ \/ kafka'[r.key] = kafka[r.key]
               \/ kafka[r.key] = Absent /\ kafka'[r.key] = Foreign
            /\ tunedBy'[r.key] = tunedBy[r.key]

\* In production mode no request creates, deletes or changes the settings of a
\* topic that is registered as externally managed.
THEOREM ExternalTopicInProd == Spec => ProdExternalTopicUntouched
<1>1. TypeInv /\ (prodMode => ProdInv) /\ [Next]_vars => [ExternalTopicsKept]_vars
  <2>0. ASSUME TypeInv, NEW k \in Keys, CreateOutside(k) PROVE ExternalTopicsKept
    BY <2>0, OutsideFrame, StatePartsOf, TypeOKParts
       DEF TypeInv, StoresOK, Row, ExternalTopicsKept
  <2> SUFFICES ASSUME TypeInv, ProdInv, prodMode, NEW p \in Requests, Step(p),
                      NEW r \in regs, r.ext
               PROVE  kafka'[r.key] = kafka[r.key] /\ tunedBy'[r.key] = tunedBy[r.key]
    BY <2>0 DEF Next, Step, ExternalTopicsKept, vars
  <2>1. /\ Prod /\ TopicsHold /\ r.key \in Keys /\ Holds(p) /\ ReadIsStored(p)
        /\ RegsAreUnique
    BY StatePartsOf DEF Prod, ProdInv, TablesHold, TopicsHold, StoresOK, Row
  <2>2. ~(HasNewRow(p) /\ r.key = work[p].row.key)
    BY <2>1 DEF Holds, RowIsFree, Collides
  <2>3. ~(work[p].kind = "update" /\ ~work[p].row.ext /\ r.key = work[p].row.key)
    BY <2>1 DEF ReadIsStored, SameTopic, RegsAreUnique, Collides
  <2> QED
    BY <2>1, <2>2, <2>3, TopicChanges
<1>2. ProdExternalTopicUntouched <=> [][ExternalTopicsKept]_vars
  BY DEF ProdExternalTopicUntouched, ExternalTopicsKept
<1> QED
  BY <1>1, <1>2, ProdInductive, PTL DEF Spec

-----------------------------------------------------------------------------
(* In production mode: the topics that requests have made                  *)

\* A topic to be described is still the one that the request has created.
OwnTopic(p) == pc[p] = "describe" => kafka[work[p].row.key] = p

\* A topic that p has made is the one of p's new row, uncommitted or stored,
\* unless p is gone with it.
MadeInProd(p) ==
    \A k \in Keys : kafka[k] = p =>
        \/ pc[p] \in {"describe", "commit"} /\ HasNewRow(p) /\ k = work[p].row.key
        \/ pc[p] = "done" /\ res[p] \in {"leaked", "lost"}
        \/ pc[p] = "done" /\ \E r \in regs : r.id = p /\ r.key = k

ProdMade == \A p \in Requests : OwnTopic(p) /\ MadeInProd(p)

LEMMA InitProdMade == Init => ProdMade
<1> SUFFICES ASSUME Init, NEW p \in Requests PROVE OwnTopic(p) /\ MadeInProd(p)
  BY DEF ProdMade
<1>1. pc[p] = "idle" /\ MadeBy(p)
  BY InitMadeInv DEF Init, MadeInv
<1> QED
  BY <1>1 DEF OwnTopic, MadeInProd, MadeBy

\* The two ways in which a request makes a topic; sync finds every topic there.
LEMMA MakesItsTopic ==
    ASSUME NEW p \in Requests, Prod, TopicsHold, Step(p), NEW k \in Keys,
           kafka[k] # p, kafka'[k] = p
    PROVE  /\ pc[p] = "broker" /\ HasNewRow(p) /\ k = work[p].row.key
           /\ Continue(p, "describe") \/ Finish(p, "leaked")
<1>1. /\ RequestsOK /\ StoresOK /\ Holds(p) /\ StepOK(p) /\ p # Absent
      /\ ReadIsStored(p) /\ RegisteredTopicsExist
  BY StatePartsOf, DistinctAssumption DEF Prod, TablesHold, TopicsHold, Ids
<1>2. MakeTopic(p)
  <2>1. CASE SyncTopic(p)
    BY <1>1, <2>1, SyncTopicFinishes DEF Prod
  <2>2. CASE DescribeNewTopic(p) \/ DropTopic(p)
    <3>1. \A j \in Keys : kafka'[j] \in {kafka[j], Absent}
      BY <1>1, <2>2 DEF DescribeNewTopic, DropTopic, StoresOK
    <3> QED
      BY <1>1, <3>1
  <2>3. CASE ~MakeTopic(p) /\ ~SyncTopic(p) /\ ~DescribeNewTopic(p) /\ ~DropTopic(p)
    <3>1. kafka' = kafka
      BY <2>3 DEF Step, Serve, Submit, Lose, Lock, Lookup, Compare, Probe, InsertRow,
          InsertOwnClaim, InsertSiblingClaim, InsertClaim, SaveRow, ApplySettings, Commit,
          FindForDelete, RemoveRow, FindForSync, ProbeForSync, DeadlockVictim
    <3> QED
      BY <3>1
  <2> QED
    BY <2>1, <2>2, <2>3
<1>3. pc[p] = "broker" /\ HasNewRow(p) /\ work[p].row.key \in Keys
  BY <1>1, <1>2 DEF MakeTopic, At, Holds, ProdRequest, StepOK, Row
<1> QED
  BY <1>1, <1>2, <1>3 DEF MakeTopic, CreateOnKafka, StoresOK

LEMMA StepKeepsOwnProdMade ==
    ASSUME NEW p \in Requests, Prod, TopicsHold, Step(p), MadeInProd(p)
    PROVE  MadeInProd(p)'
<1>1. /\ RequestsOK /\ StoresOK /\ Holds(p) /\ StepOK(p) /\ p # Absent
  BY StatePartsOf, DistinctAssumption DEF Prod, TablesHold, Ids
<1>2. ASSUME NEW r, Finish(p, r) PROVE pc'[p] = "done" /\ res'[p] = r
  BY <1>1, <1>2 DEF RequestsOK, Finish
<1>3. ASSUME NEW s, Continue(p, s)
      PROVE  pc'[p] = s /\ work'[p] = work[p] /\ (HasNewRow(p)' <=> HasNewRow(p))
  BY <1>1, <1>3 DEF RequestsOK, Continue, Goto, HasNewRow, NewRow
<1> SUFFICES ASSUME NEW k \in Keys, kafka'[k] = p
             PROVE  \/ pc'[p] \in {"describe", "commit"} /\ HasNewRow(p)' /\ k = work'[p].row.key
                    \/ pc'[p] = "done" /\ res'[p] \in {"leaked", "lost"}
                    \/ pc'[p] = "done" /\ \E r \in regs' : r.id = p /\ r.key = k
  BY DEF MadeInProd
<1>4. CASE kafka[k] # p
  BY <1>2, <1>3, <1>4, MakesItsTopic
<1>5. CASE kafka[k] = p
  <2>1. pc[p] \in {"describe", "commit"} /\ HasNewRow(p) /\ k = work[p].row.key
    BY <1>5, DoneStays DEF MadeInProd
  <2>2. CASE Lose(p)
    BY <1>2, <2>2 DEF Lose
  <2>3. CASE DescribeNewTopic(p)
    <3>1. call[p].op # "sync" /\ NewTopicKey(p) = k
      BY <1>1, <2>1, <2>3 DEF DescribeNewTopic, At, NewTopicKey, Holds, ProdRequest, SearchedSteps
    <3>2. Continue(p, "commit") \/ Finish(p, "leaked")
      BY <1>1, <2>3, <3>1 DEF DescribeNewTopic, StoresOK
    <3> QED
      BY <1>2, <1>3, <2>1, <3>2
  <2>4. CASE Commit(p)
    <3>1. work[p].row \in regs' /\ work[p].row.id = p
      BY <2>1, <2>4 DEF Commit, HasNewRow, NewRow
    <3> QED
      BY <1>2, <2>1, <2>4, <3>1 DEF Commit
  <2>5. Lose(p) \/ DescribeNewTopic(p) \/ Commit(p)
    BY <2>1, VictimWaits DEF Step, Serve, Submit, Lock, Lookup, Compare, Probe, InsertRow,
        InsertOwnClaim, InsertSiblingClaim, SaveRow, MakeTopic, ApplySettings, FindForDelete,
        RemoveRow, DropTopic, FindForSync, ProbeForSync, SyncTopic, At
  <2> QED
    BY <2>2, <2>3, <2>4, <2>5
<1> QED
  BY <1>4, <1>5

LEMMA StepKeepsProdMade ==
    ASSUME NEW p \in Requests, Prod, TopicsHold, ProdMade, Step(p)
    PROVE  ProdMade'
<1>1. /\ RequestsOK /\ StoresOK /\ Frame(p) /\ p # Absent /\ ReadIsStored(p)
      /\ \A q \in Requests : Holds(q) /\ StepOK(q) /\ OwnTopic(q) /\ MadeInProd(q)
  BY StatePartsOf, StepFrame, DistinctAssumption DEF Prod, TablesHold, TopicsHold, ProdMade, Ids
<1>2. ASSUME pc'[p] = "describe" PROVE kafka'[work'[p].row.key] = p
  <2>1. MakeTopic(p) /\ Continue(p, "describe") /\ kafka' = [kafka EXCEPT ![work[p].row.key] = p]
    <3>1. ASSUME NEW r, Finish(p, r) PROVE FALSE
      BY <1>1, <1>2, <3>1 DEF RequestsOK, Finish
    <3>2. ASSUME NEW s, s # "describe", Goto(p, s) PROVE FALSE
      BY <1>1, <1>2, <3>2 DEF RequestsOK, Goto
    <3>3. ~SyncTopic(p)
      BY <3>1, SyncTopicFinishes DEF Prod, TopicsHold
    <3>4. ~Submit(p)
      BY <1>1, <1>2 DEF Submit, RequestsOK
    <3>5. ~MakeTopic(p) => FALSE
      BY <3>1, <3>2, <3>3, <3>4 DEF Step, Serve, Lose, Lock, Lookup, LookupNext,
          SettingsAreEqual, Compare, Probe, ProbeNext, InsertRow, InsertOwnClaim,
          InsertSiblingClaim, InsertClaim, SaveRow, DescribeNewTopic, ApplySettings, Commit,
          FindForDelete, RemoveRow, DropTopic, FindForSync, Search, ProbeForSync,
          DeadlockVictim, Continue
    <3> QED
      BY <3>1, <3>2, <3>5 DEF MakeTopic, CreateOnKafka, Continue
  <2>2. work'[p] = work[p] /\ work[p].row.key \in Keys
    BY <1>1, <2>1 DEF Continue, MakeTopic, At, StepOK, Row
  <2> QED
    BY <1>1, <2>1, <2>2 DEF StoresOK
<1>3. ASSUME NEW q \in Requests \ {p} PROVE OwnTopic(q)' /\ MadeInProd(q)'
  <2>1. /\ pc'[q] = pc[q] /\ work'[q] = work[q] /\ res'[q] = res[q]
        /\ HasNewRow(q)' = HasNewRow(q) /\ q # p /\ q # Absent
    BY <1>1, ResFrame, DistinctAssumption DEF Prod, Frame, HasNewRow, NewRow, Ids
  <2>2. ASSUME pc[q] = "describe" PROVE kafka'[work[q].row.key] = q
    <3>1. HasNewRow(q) /\ work[q].row.key \in Keys /\ kafka[work[q].row.key] = q
      BY <1>1, <2>2 DEF OwnTopic, Holds, ProdRequest, StepOK, SearchedSteps, Row, HasNewRow
    <3>2. HasNewRow(p) => work[p].row.key # work[q].row.key
      BY <1>1, <3>1 DEF Holds, RowIsFree, Collides
    <3> QED
      BY <2>1, <3>1, <3>2, TopicChanges
  <2>3. \A k \in Keys : kafka'[k] = q => kafka[k] = q
    BY <2>1, KafkaChanges DEF Prod
  <2>4. \A r \in regs : \E s \in regs' : s.id = r.id /\ s.key = r.key
    BY <1>1, RegsStay DEF SameTopic
  <2> QED
    BY <1>1, <2>1, <2>2, <2>3, <2>4 DEF OwnTopic, MadeInProd
<1> QED
  BY <1>1, <1>2, <1>3, StepKeepsOwnProdMade DEF ProdMade, OwnTopic

LEMMA NextKeepsProdMade ==
    TypeInv /\ (prodMode => ProdInv /\ ProdMade) /\ [Next]_vars => (prodMode => ProdMade)'
<1> SUFFICES ASSUME TypeInv, prodMode => ProdInv /\ ProdMade, [Next]_vars, prodMode'
             PROVE  ProdMade'
  OBVIOUS
<1>1. CASE UNCHANGED vars
  BY <1>1 DEF vars, ProdMade, OwnTopic, MadeInProd, HasNewRow, NewRow
<1>2. ASSUME NEW p \in Requests, Step(p) PROVE ProdMade'
  BY <1>2, ModeIsFixed, StepKeepsProdMade DEF Prod, ProdInv
<1>3. ASSUME NEW k \in Keys, CreateOutside(k), NEW p \in Requests
      PROVE  OwnTopic(p)' /\ MadeInProd(p)'
  <2>1. /\ OwnTopic(p) /\ MadeInProd(p) /\ StepOK(p) /\ Holds(p)
        /\ p \notin {Absent, Foreign} /\ HasNewRow(p)' = HasNewRow(p)
    BY <1>3, StatePartsOf, DistinctAssumption
       DEF CreateOutside, ProdMade, ProdInv, TablesHold, HasNewRow, NewRow, Ids
  <2>2. pc[p] = "describe" => work[p].row.key \in Keys
    BY <2>1 DEF StepOK, Holds, ProdRequest, SearchedSteps, Row
  <2> QED
    BY <1>3, <2>1, <2>2, OutsideFrame DEF OwnTopic, MadeInProd
<1> QED
  BY <1>1, <1>2, <1>3 DEF Next, Step, ProdMade

LEMMA ProdMadeAlways ==
    Spec => [](TypeInv /\ MadeInv /\ Answered /\ (prodMode => ProdInv /\ ProdMade))
<1>1. Init => TypeInv /\ MadeInv /\ Answered /\ (prodMode => ProdInv /\ ProdMade)
  BY InitTypeInv, InitMadeInv, InitProdInv, InitProdMade DEF Init, Answered
<1>2. /\ TypeInv /\ MadeInv /\ Answered /\ (prodMode => ProdInv /\ ProdMade)
      /\ [Next]_vars
      => (TypeInv /\ MadeInv /\ Answered /\ (prodMode => ProdInv /\ ProdMade))'
  BY NextKeepsTypeInv, NextKeepsMadeInv, NextKeepsAnswered, NextKeepsProdInv, NextKeepsProdMade
<1> QED
  BY <1>1, <1>2, PTL DEF Spec

\* An answered request leaves no topic of its own that is not registered: none
\* after an error from inside its transaction, in either mode, and in production
\* mode a registered one after any other answer, errors after the commit included.
THEOREM AnsweredLeaveNoOrphan == Spec => []AnsweredRequestLeavesNoOrphan
<1>1. TypeInv /\ MadeInv /\ Answered /\ (prodMode => ProdInv /\ ProdMade)
         => AnsweredRequestLeavesNoOrphan
  BY DEF MadeInv, MadeBy, Answered, ProdMade, MadeInProd, AnsweredRequestLeavesNoOrphan
<1> QED
  BY <1>1, ProdMadeAlways, PTL

\* The body of ProdOnlyOwnTopicRemoved.
OnlyOwnTopicRemoved ==
    prodMode =>
        \A k \in Keys : kafka[k] # Absent /\ kafka'[k] # kafka[k] =>
            /\ kafka'[k] = Absent
            /\ \E p \in Requests : kafka[k] = p /\ pc[p] = "describe"

\* In production mode the clean-up of CreateTopic, which deletes by name, deletes
\* what the same request has created, though others may create topics at any time.
THEOREM OnlyOwnTopicInProd == Spec => ProdOnlyOwnTopicRemoved
<1>1. TypeInv /\ (prodMode => ProdInv /\ ProdMade) /\ [Next]_vars => [OnlyOwnTopicRemoved]_vars
  <2>1. ASSUME TypeInv, NEW k \in Keys, CreateOutside(k) PROVE OnlyOwnTopicRemoved
    BY <2>1, OutsideFrame DEF OnlyOwnTopicRemoved
  <2> SUFFICES ASSUME TypeInv, ProdInv, ProdMade, prodMode, NEW p \in Requests, Step(p),
                      NEW k \in Keys, kafka[k] # Absent, kafka'[k] # kafka[k]
               PROVE  kafka'[k] = Absent /\ kafka[k] = p /\ pc[p] = "describe"
    BY <2>1 DEF Next, Step, OnlyOwnTopicRemoved, vars
  <2>2. kafka'[k] = Absent /\ pc[p] = "describe" /\ k = work[p].row.key
    BY TopicChanges DEF Prod, ProdInv
  <2> QED
    BY <2>2 DEF ProdMade, OwnTopic
<1>2. ProdOnlyOwnTopicRemoved <=> [][OnlyOwnTopicRemoved]_vars
  BY DEF ProdOnlyOwnTopicRemoved, OnlyOwnTopicRemoved
<1> QED
  BY <1>1, <1>2, ProdMadeAlways, PTL DEF Spec

=============================================================================
