------------------------- MODULE RabbitVhostsProofs -------------------------
(***************************************************************************)
(* Registrations of vhosts: clients of production mode that get them and   *)
(* rotate passwords at the same time, on any instances.                    *)
(***************************************************************************)
EXTENDS RabbitVhosts, FiniteSetTheorems, SequenceTheorems, TLAPS

-----------------------------------------------------------------------------
(* What holds for every load                                               *)

JobFields == {"op", "todo", "base", "cls", "inst", "config", "found", "writes", "locks", "roles",
              "want", "listed", "kept"}

Things == {"q", "x"} \X Namespaces

\* The fields of a request, and finite sets on the brokers, so that there is
\* always another name for a user.
JobType(j) ==
    /\ DOMAIN j = JobFields
    /\ j.base \in Classifiers /\ j.cls \in Classifiers
    /\ DOMAIN j.writes \subseteq Classifiers
    /\ j.want \subseteq Things

TypeInv ==
    /\ load \in DOMAIN Loads
    /\ DOMAIN regs = Classifiers /\ DOMAIN content = Places /\ DOMAIN job = Requests
    /\ \A r \in Requests : JobType(job[r])
    /\ IsFiniteSet(users) /\ \A p \in Places : IsFiniteSet(content[p])
    /\ failures \in Nat

-----------------------------------------------------------------------------
(* Facts                                                                   *)

LEMMA CallFacts ==
    ASSUME load \in DOMAIN Loads
    PROVE  /\ Load.maxActive \in Nat /\ Load.maxFailures \in Nat
           /\ \A ns \in Namespaces : Load.designator[ns] \in Instances \cup {"none"}
           /\ \A c \in Load.calls : /\ c.cls \in Classifiers /\ c.inst \in Instances \cup {"any"}
                                    /\ c.op \in {"get", "rotate", "remove", "apply", "recover", "warmup",
                                                 "promote", "rollback", "commit"}
<1> DEFINE l == [Load EXCEPT !.calls = {}]
<1>1. l \in LoadType
  BY RabbitVhostsAssumption DEF Load
<1>2. l.maxActive = Load.maxActive /\ l.maxFailures = Load.maxFailures /\ l.designator = Load.designator
  BY <1>1 DEF LoadType
<1>3. Load.maxActive \in Nat /\ Load.maxFailures \in Nat
      /\ Load.designator \in [Namespaces -> Instances \cup {"none"}]
  <2> HIDE DEF l
  <2> QED
    BY <1>1, <1>2 DEF LoadType
<1>4. ASSUME NEW c \in Load.calls
      PROVE  /\ c.cls \in Classifiers /\ c.inst \in Instances \cup {"any"}
             /\ c.op \in {"get", "rotate", "remove", "apply", "recover", "warmup", "promote", "rollback", "commit"}
  <2> DEFINE d == [c EXCEPT !.config = NoConfig]
  <2>1. d \in Calls
    BY RabbitVhostsAssumption DEF Load
  <2>2. d.cls = c.cls /\ d.inst = c.inst /\ d.op = c.op
    BY <2>1 DEF Calls
  <2> HIDE DEF d
  <2> QED
    BY <2>1, <2>2 DEF Calls
<1> QED
  BY <1>3, <1>4

LEMMA NoJobIs ==
    /\ JobType(NoJob) /\ NoJob.op = "none" /\ NoJob.todo = <<>> /\ DOMAIN NoJob.writes = {} /\ NoJob.writes = <<>>
    /\ NoJob.cls = "origin" /\ NoJob.base = "origin" /\ NoJob.inst = "any" /\ NoJob.found = NoRow
    /\ NoJob.config = NoConfig /\ NoJob.roles = <<>> /\ NoJob.locks = {} /\ NoJob.want = {} /\ NoJob.listed = {}
    /\ NoJob.kept = {}
BY DEF NoJob, JobType, JobFields, Classifiers, Namespaces

LEMMA NoRowIs ==
    /\ NoRow.id = 0 /\ NoRow.inst = Default /\ NoRow.pass = 0 /\ NoRow.declared = {} /\ NoRow.exported = {}
    /\ NoRow.bound = FALSE /\ DOMAIN NoRow = {"id", "inst", "pass", "declared", "exported", "bound"}
BY DEF NoRow

\* A set of the values of a function is as finite as its arguments.
LEMMA ImageIsFinite ==
    ASSUME NEW f, IsFiniteSet(DOMAIN f)
    PROVE  IsFiniteSet({f[x] : x \in DOMAIN f})
<1> DEFINE T == {f[x] : x \in DOMAIN f}
           g == [x \in DOMAIN f |-> f[x]]
<1>1. g \in Surjection(DOMAIN f, T)
  BY DEF Surjection
<1> QED
  BY <1>1, FS_Surjection

\* There is a number that is not in use.
LEMMA UnusedIs ==
    ASSUME NEW s, IsFiniteSet(s)
    PROVE  Unused(s) \in Nat \ {0} /\ Unused(s) \notin s
<1>1. Cardinality(s) \in Nat
  BY FS_CardinalityType
<1> DEFINE n == Cardinality(s) + 1
<1>2. IsFiniteSet(1..n) /\ Cardinality(1..n) = n
  BY <1>1, FS_Interval
<1>3. ~(1..n \subseteq s)
  <2>1. 1..n \subseteq s => Cardinality(1..n) <= Cardinality(s)
    BY FS_Subset
  <2> QED
    BY <1>1, <1>2, <2>1
<1>4. \E m \in 1..n : m \notin s
  BY <1>3
<1>5. Unused(s) \in 1..n /\ Unused(s) \notin s
  BY <1>4 DEF Unused
<1> QED
  BY <1>1, <1>5

LEMMA ClassifiersAreFinite ==
    /\ IsFiniteSet(Classifiers) /\ IsFiniteSet(Namespaces) /\ IsFiniteSet(Things) /\ IsFiniteSet(Places)
<1>1. IsFiniteSet({}) /\ IsFiniteSet({"origin"}) /\ IsFiniteSet({"q"})
  BY FS_EmptySet, FS_Singleton
<1>2. IsFiniteSet({"origin"} \cup {"peer"}) /\ IsFiniteSet({"q"} \cup {"x"})
  BY <1>1, FS_AddElement
<1>3. Namespaces = {"origin"} \cup {"peer"} /\ {"q", "x"} = {"q"} \cup {"x"}
  BY DEF Namespaces
<1>4. IsFiniteSet(Namespaces) /\ IsFiniteSet({"q", "x"})
  BY <1>2, <1>3
<1>5. IsFiniteSet(Classifiers)
  BY <1>4, FS_AddElement DEF Classifiers
<1>6. IsFiniteSet(Things)
  BY <1>4, FS_Product DEF Things
<1>7. IsFiniteSet(Places)
  BY <1>5, FS_Product, RabbitVhostsAssumption DEF Places
<1> QED
  BY <1>4, <1>5, <1>6, <1>7

LEMMA UsedAreFinite ==
    ASSUME TypeInv
    PROVE  IsFiniteSet(Ids) /\ IsFiniteSet(Passwords)
<1> DEFINE W(r) == DOMAIN job[r].writes
           wid == [r \in Requests |-> {job[r].found.id} \cup {job[r].writes[c].id : c \in W(r)}]
           wpass == [r \in Requests |-> {job[r].writes[c].pass : c \in W(r)}]
           shovels == [p \in Places |-> {t[4] : t \in Shovels(p)}]
<1>1. IsFiniteSet({regs[c].id : c \in Classifiers}) /\ IsFiniteSet({regs[c].pass : c \in Classifiers})
  <2> DEFINE f == [c \in Classifiers |-> regs[c].id]
             g == [c \in Classifiers |-> regs[c].pass]
  <2>1. IsFiniteSet({f[x] : x \in DOMAIN f}) /\ IsFiniteSet({g[x] : x \in DOMAIN g})
    BY ImageIsFinite, ClassifiersAreFinite
  <2> QED
    BY <2>1
<1>2. IsFiniteSet({u.id : u \in users}) /\ IsFiniteSet({u.pass : u \in users})
  <2> DEFINE f == [u \in users |-> u.id]
             g == [u \in users |-> u.pass]
  <2>1. IsFiniteSet({f[x] : x \in DOMAIN f}) /\ IsFiniteSet({g[x] : x \in DOMAIN g})
    BY ImageIsFinite DEF TypeInv
  <2> QED
    BY <2>1
<1>3. ASSUME NEW r \in Requests PROVE IsFiniteSet(wid[r]) /\ IsFiniteSet(wpass[r])
  <2>1. IsFiniteSet(W(r))
    BY ClassifiersAreFinite, FS_Subset DEF TypeInv, JobType
  <2> DEFINE f == [c \in W(r) |-> job[r].writes[c].id]
             g == [c \in W(r) |-> job[r].writes[c].pass]
  <2>2. IsFiniteSet({f[x] : x \in DOMAIN f}) /\ IsFiniteSet({g[x] : x \in DOMAIN g})
    BY <2>1, ImageIsFinite
  <2>3. IsFiniteSet({job[r].writes[c].id : c \in W(r)}) /\ IsFiniteSet(wpass[r])
    BY <2>2
  <2>4. IsFiniteSet({job[r].found.id})
    BY FS_Singleton
  <2> QED
    BY <2>3, <2>4, FS_Union
<1>4. ASSUME NEW p \in Places PROVE IsFiniteSet(shovels[p])
  <2> DEFINE S == Shovels(p)
             f == [t \in S |-> t[4]]
  <2>1. IsFiniteSet(S)
    BY FS_Subset DEF TypeInv, Shovels
  <2>2. IsFiniteSet({f[x] : x \in DOMAIN f})
    BY <2>1, ImageIsFinite
  <2> QED
    BY <2>2
<1>5. /\ IsFiniteSet(UNION {wid[x] : x \in Requests}) /\ IsFiniteSet(UNION {wpass[x] : x \in Requests})
      /\ IsFiniteSet(UNION {shovels[x] : x \in Places})
  <2> HIDE DEF wid, wpass, shovels
  <2>1. DOMAIN wid = Requests /\ DOMAIN wpass = Requests /\ DOMAIN shovels = Places
    BY DEF wid, wpass, shovels
  <2>2. /\ IsFiniteSet({wid[x] : x \in Requests}) /\ IsFiniteSet({wpass[x] : x \in Requests})
        /\ IsFiniteSet({shovels[x] : x \in Places})
    BY <2>1, ImageIsFinite, ClassifiersAreFinite, RabbitVhostsAssumption
  <2>3. /\ \A T \in {wid[x] : x \in Requests} : IsFiniteSet(T)
        /\ \A T \in {wpass[x] : x \in Requests} : IsFiniteSet(T)
        /\ \A T \in {shovels[x] : x \in Places} : IsFiniteSet(T)
    BY <1>3, <1>4
  <2> QED
    BY <2>2, <2>3, FS_UNION
<1>6. /\ UNION {wid[x] : x \in Requests} =
           UNION {{job[r].found.id} \cup {job[r].writes[c].id : c \in DOMAIN job[r].writes} : r \in Requests}
      /\ UNION {wpass[x] : x \in Requests} =
           UNION {{job[r].writes[c].pass : c \in DOMAIN job[r].writes} : r \in Requests}
      /\ UNION {shovels[x] : x \in Places} =
           UNION {{t[4] : t \in Shovels(p)} : p \in Places}
  OBVIOUS
<1> HIDE DEF wid, wpass, shovels, W
<1>7. IsFiniteSet(Passwords)
  BY <1>1, <1>2, <1>5, <1>6, FS_Union DEF Passwords
<1> DEFINE A == {regs[c].id : c \in Classifiers}
           B == {u.id : u \in users}
           C == UNION {wid[x] : x \in Requests}
           D == UNION {shovels[x] : x \in Places}
<1>8. Ids = ((A \cup B) \cup C) \cup D
  BY <1>6 DEF Ids
<1>9. IsFiniteSet(A) /\ IsFiniteSet(B) /\ IsFiniteSet(C) /\ IsFiniteSet(D)
  BY <1>1, <1>2, <1>5
<1> HIDE DEF A, B, C, D
<1>10. IsFiniteSet(((A \cup B) \cup C) \cup D)
  <2>1. IsFiniteSet(A \cup B)
    BY <1>9, FS_Union
  <2>2. IsFiniteSet((A \cup B) \cup C)
    BY <1>9, <2>1, FS_Union
  <2> QED
    BY <1>9, <2>2, FS_Union
<1> QED
  BY <1>7, <1>8, <1>10

\* The names that a new row gets.
LEMMA FreshIs ==
    ASSUME TypeInv
    PROVE  /\ Unused(Ids) \in Nat \ {0} /\ Unused(Passwords) \in Nat \ {0}
           /\ \A c \in Classifiers : Unused(Ids) # regs[c].id
           /\ \A u \in users : Unused(Ids) # u.id
           /\ \A r \in Requests : /\ Unused(Ids) # job[r].found.id
                                  /\ \A c \in DOMAIN job[r].writes : Unused(Ids) # job[r].writes[c].id
           /\ \A p \in Places : \A t \in content[p] : t[1] = "shovel" => Unused(Ids) # t[4]
<1>1. Unused(Ids) \in Nat \ {0} /\ Unused(Ids) \notin Ids /\ Unused(Passwords) \in Nat \ {0}
  BY UnusedIs, UsedAreFinite
<1> DEFINE n == Unused(Ids)
<1> HIDE DEF n
<1>2. n \notin Ids
  BY <1>1 DEF n
<1>3. \A c \in Classifiers : n # regs[c].id
  BY <1>2 DEF Ids
<1>4. \A u \in users : n # u.id
  BY <1>2 DEF Ids
<1>5. ASSUME NEW r \in Requests
      PROVE  n # job[r].found.id /\ \A c \in DOMAIN job[r].writes : n # job[r].writes[c].id
  <2> DEFINE S(s) == {job[s].found.id} \cup {job[s].writes[c].id : c \in DOMAIN job[s].writes}
  <2>1. UNION {S(s) : s \in Requests} \subseteq Ids
    BY DEF Ids
  <2>2. S(r) \subseteq UNION {S(s) : s \in Requests}
    OBVIOUS
  <2>3. n \notin S(r)
    BY <1>2, <2>1, <2>2
  <2> QED
    BY <2>3
<1>6. ASSUME NEW p \in Places, NEW t \in content[p], t[1] = "shovel" PROVE n # t[4]
  <2> DEFINE S(x) == {u[4] : u \in Shovels(x)}
  <2>1. UNION {S(x) : x \in Places} \subseteq Ids
    BY DEF Ids
  <2>2. S(p) \subseteq UNION {S(x) : x \in Places}
    OBVIOUS
  <2>3. n \notin S(p)
    BY <1>2, <2>1, <2>2
  <2>4. t[4] \in S(p)
    BY <1>6 DEF Shovels
  <2> QED
    BY <2>3, <2>4
<1> QED
  BY <1>1, <1>3, <1>4, <1>5, <1>6 DEF n

\* The next steps of a request change nothing else of it.
LEMMA ThenIs ==
    ASSUME NEW j, JobType(j), NEW steps
    PROVE  /\ JobType(Then(j, steps)) /\ Then(j, steps).todo = steps \o Tail(j.todo)
           /\ Then(j, steps).op = j.op /\ Then(j, steps).base = j.base /\ Then(j, steps).cls = j.cls
           /\ Then(j, steps).inst = j.inst /\ Then(j, steps).config = j.config /\ Then(j, steps).found = j.found
           /\ Then(j, steps).writes = j.writes /\ Then(j, steps).locks = j.locks /\ Then(j, steps).roles = j.roles
           /\ Then(j, steps).want = j.want /\ Then(j, steps).listed = j.listed /\ Then(j, steps).kept = j.kept
BY DEF Then, JobType, JobFields

\* A row written.
LEMMA WriteIs ==
    ASSUME TypeInv, NEW r \in Requests, NEW row
    PROVE  LET j == job[r]  k == Writing(r, row)
           IN /\ JobType(k) /\ k.todo = j.todo /\ k.op = j.op /\ k.base = j.base /\ k.cls = j.cls /\ k.inst = j.inst
              /\ k.config = j.config /\ k.found = j.found /\ k.locks = j.locks /\ k.roles = j.roles
              /\ k.want = j.want /\ k.listed = j.listed /\ k.kept = j.kept
              /\ DOMAIN k.writes = DOMAIN j.writes \cup {j.cls} /\ k.writes[j.cls] = row
              /\ \A d \in DOMAIN j.writes : d # j.cls => k.writes[d] = j.writes[d]
<1> DEFINE j == job[r]
           k == Writing(r, row)
           W == Written(j.writes, j.cls, row)
<1>0. JobType(j)
  BY DEF TypeInv
<1>1. k = [j EXCEPT !.writes = W]
  BY DEF Writing
<1>2. DOMAIN W = DOMAIN j.writes \cup {j.cls} /\ W[j.cls] = row
      /\ \A d \in DOMAIN j.writes : d # j.cls => W[d] = j.writes[d]
  BY DEF Written
<1>3. DOMAIN W \subseteq Classifiers
  BY <1>0, <1>2 DEF JobType
<1> HIDE DEF W, k, j
<1>4. /\ k.todo = j.todo /\ k.op = j.op /\ k.base = j.base /\ k.cls = j.cls /\ k.inst = j.inst
      /\ k.config = j.config /\ k.found = j.found /\ k.locks = j.locks /\ k.roles = j.roles
      /\ k.want = j.want /\ k.listed = j.listed /\ k.kept = j.kept /\ DOMAIN k = JobFields /\ k.writes = W
  BY <1>0, <1>1 DEF JobType, JobFields
<1>5. JobType(k)
  BY <1>0, <1>3, <1>4 DEF JobType
<1> QED
  BY <1>2, <1>4, <1>5 DEF k, j

\* One request takes a step.
LEMMA JobStep ==
    ASSUME TypeInv, NEW r \in Requests, NEW j, job' = [job EXCEPT ![r] = j]
    PROVE  /\ DOMAIN job' = Requests /\ job'[r] = j /\ \A s \in Requests \ {r} : job'[s] = job[s]
           /\ JobType(j) => \A s \in Requests : JobType(job'[s])
BY DEF TypeInv

LEMMA AdvanceIs ==
    ASSUME TypeInv, NEW r \in Requests, Advance(r)
    PROVE  /\ DOMAIN job' = Requests /\ \A s \in Requests : JobType(job'[s])
           /\ \A s \in Requests \ {r} : job'[s] = job[s]
           /\ job'[r] = Then(job[r], <<>>)
<1>1. JobType(Then(job[r], <<>>))
  BY ThenIs DEF TypeInv
<1>2. job' = [job EXCEPT ![r] = Then(job[r], <<>>)]
  BY DEF Advance, Go
<1> QED
  BY <1>1, <1>2, JobStep

-----------------------------------------------------------------------------
(* The fields and the finite sets                                          *)

\* A step that changes the database and a request only.
LEMMA TypeOfJobStep ==
    ASSUME TypeInv, NEW r \in Requests, NEW j, JobType(j), job' = [job EXCEPT ![r] = j],
           UNCHANGED <<load, content, users>>, failures' \in Nat, DOMAIN regs' = Classifiers
    PROVE  TypeInv'
<1>1. DOMAIN job' = Requests /\ \A s \in Requests : JobType(job'[s])
  BY JobStep
<1> QED
  BY <1>1 DEF TypeInv

\* A step that changes what is on a broker.
LEMMA TypeOfBrokerStep ==
    ASSUME TypeInv, NEW r \in Requests, NEW j, JobType(j), job' = [job EXCEPT ![r] = j],
           UNCHANGED <<load, failures>>, DOMAIN regs' = Classifiers,
           IsFiniteSet(users'), DOMAIN content' = Places, \A p \in Places : IsFiniteSet(content'[p])
    PROVE  TypeInv'
<1>1. DOMAIN job' = Requests /\ \A s \in Requests : JobType(job'[s])
  BY JobStep
<1> QED
  BY <1>1 DEF TypeInv

LEMMA AbortKeepsTypes ==
    ASSUME TypeInv, NEW r \in Requests, Abort(r)
    PROVE  TypeInv'
BY NoJobIs, TypeOfJobStep DEF Abort, TypeInv, database, broker

\* The types of a request and of its steps.
LEMMA TypeOfRequest ==
    ASSUME TypeInv, NEW r \in Requests
    PROVE  JobType(job[r]) /\ \A steps : JobType(Then(job[r], steps))
BY ThenIs DEF TypeInv

LEMMA TypeInit == Init => TypeInv
<1> SUFFICES ASSUME Init PROVE TypeInv
  OBVIOUS
<1>1. \A r \in Requests : JobType(job[r])
  BY NoJobIs DEF Init
<1>2. IsFiniteSet(users)
  <2> DEFINE S == {d \in Classifiers : regs[d] # NoRow}
             f == [c \in S |-> User(regs[c])]
  <2>1. IsFiniteSet(S)
    BY ClassifiersAreFinite, FS_Subset
  <2>2. IsFiniteSet({f[x] : x \in DOMAIN f})
    BY <2>1, ImageIsFinite
  <2> QED
    BY <2>2 DEF Init
<1>3. \A p \in Places : IsFiniteSet(content[p])
  BY FS_EmptySet DEF Init
<1> QED
  BY <1>1, <1>2, <1>3 DEF TypeInv, Init

LEMMA SubmitKeepsTypes ==
    ASSUME TypeInv, NEW r \in Requests, NEW c \in Load.calls, Submit(r, c) \/ SubmitBg(r, c)
    PROVE  TypeInv'
<1>1. c.cls \in Classifiers
  BY CallFacts DEF TypeInv
<1>2. PICK j : /\ job' = [job EXCEPT ![r] = j] /\ DOMAIN j = JobFields
               /\ j.writes = <<>> /\ j.want = {}
               /\ j.base \in Classifiers /\ j.cls \in Classifiers
  <2>1. CASE Submit(r, c)
    <3> DEFINE k == [NoJob EXCEPT !.op = c.op, !.base = c.cls, !.cls = c.cls, !.inst = c.inst,
                       !.todo = Program(c.op),
                       !.config = IF c.op # "recover" THEN c.config
                                  ELSE [NoConfig EXCEPT !.declare = regs[c.cls].declared,
                                                        !.exported = regs[c.cls].exported]]
    <3>1. job' = [job EXCEPT ![r] = k]
      BY <2>1 DEF Submit
    <3>2. /\ DOMAIN k = JobFields /\ k.writes = <<>> /\ k.want = {} /\ k.base = c.cls /\ k.cls = c.cls
      BY DEF NoJob, JobFields
    <3> QED
      BY <1>1, <3>1, <3>2
  <2>2. CASE SubmitBg(r, c)
    <3> DEFINE to == BgRoles(c.op)
               source == regs[to.active]
               target == OtherOf(to.active)
               steps == CASE c.op = "warmup" -> Warmup(source)
                          [] c.op = "commit" -> CommitBg(regs[target])
                          [] OTHER -> ChangeActiveVersion
               k == [NoJob EXCEPT !.op = c.op, !.base = target, !.inst = source.inst,
                    !.cls = IF c.op \in {"promote", "rollback"} THEN "exported" ELSE target,
                    !.found = IF c.op = "commit" THEN regs[target] ELSE NoRow,
                    !.roles = <<to>>, !.todo = steps \o <<"commit">>,
                    !.config = IF c.op # "warmup" THEN NoConfig
                               ELSE [NoConfig EXCEPT !.declare = source.declared,
                                                     !.exported = source.exported]]
    <3>1. job' = [job EXCEPT ![r] = k]
      BY <2>2 DEF SubmitBg
    <3>2. target \in Classifiers
      BY DEF OtherOf, Classifiers, Namespaces
    <3>3. /\ DOMAIN k = JobFields /\ k.writes = <<>> /\ k.want = {} /\ k.base = target
          /\ k.cls \in {"exported", target}
      <4> HIDE DEF to, source, target, steps
      <4> QED
        BY DEF NoJob, JobFields
    <3> QED
      BY <3>1, <3>2, <3>3 DEF Classifiers
  <2> QED
    BY <2>1, <2>2
<1>3. JobType(j)
  BY <1>2 DEF JobType
<1> QED
  BY <1>2, <1>3, TypeOfJobStep DEF Submit, SubmitBg, TypeInv, database, broker

\* What a step adds to a vhost is finite.
LEMMA AddedIsFinite ==
    /\ \A e, S : IsFiniteSet({<<d>> : d \in S \cap {e}})
    /\ \A t : IsFiniteSet({t}) /\ IsFiniteSet({})
<1>1. \A t : IsFiniteSet({t}) /\ IsFiniteSet({})
  BY FS_Singleton, FS_EmptySet
<1>2. ASSUME NEW e, NEW S PROVE IsFiniteSet({<<d>> : d \in S \cap {e}})
  <2>1. {<<d>> : d \in S \cap {e}} \subseteq {<<e>>}
    OBVIOUS
  <2> QED
    BY <1>1, <2>1, FS_Subset
<1> QED
  BY <1>1, <1>2

LEMMA StoreKeepsTypes ==
    ASSUME TypeInv, NEW r \in Requests, NEW things, NEW row, StoreEntities(r, things, row),
           NEW add, IsFiniteSet(add), things \subseteq Here(r) \cup add
    PROVE  TypeInv'
<1> DEFINE k == IF job[r].roles # <<>> THEN Writing(r, row) ELSE job[r]
<1>1. job' = [job EXCEPT ![r] = Then(k, <<>>)]
  BY DEF StoreEntities, Go
<1>2. JobType(k)
  BY WriteIs DEF TypeInv
<1>3. JobType(Then(k, <<>>))
  BY <1>2, ThenIs
<1>4. DOMAIN content' = Places /\ \A p \in Places : content'[p] = content[p] \/ (content'[p] = things /\ p = Place(r))
  BY DEF StoreEntities, TypeInv
<1>5. \A p \in Places : IsFiniteSet(content'[p])
  <2> SUFFICES ASSUME NEW p \in Places PROVE IsFiniteSet(content'[p])
    OBVIOUS
  <2>1. IsFiniteSet(content[p])
    BY DEF TypeInv
  <2>2. IsFiniteSet(content[p] \cup add)
    BY <2>1, FS_Union
  <2>3. content'[p] = content[p] \/ content'[p] \subseteq content[p] \cup add
    BY <1>4 DEF Here
  <2> QED
    BY <2>1, <2>2, <2>3, FS_Subset
<1>6. DOMAIN regs' = Classifiers
  BY DEF StoreEntities, TypeInv
<1> QED
  BY <1>1, <1>3, <1>4, <1>5, <1>6, TypeOfBrokerStep DEF StoreEntities, TypeInv, Rest

LEMMA EntitiesKeepTypes ==
    ASSUME TypeInv, NEW r \in Requests,
           DeleteEntities(r) \/ Exchanges(r) \/ LazyBindings(r) \/ Queues(r) \/ Bindings(r)
    PROVE  TypeInv'
<1>1. CASE DeleteEntities(r)
  <2>1. Here(r) \ {<<e>> : e \in WithBinding(job[r].config.delete)} \subseteq Here(r) \cup {}
    OBVIOUS
  <2> QED
    BY <1>1, <2>1, AddedIsFinite, StoreKeepsTypes DEF DeleteEntities
<1>2. CASE Exchanges(r)
  <2> DEFINE add == {<<e>> : e \in job[r].config.declare \cap {"x"}}
  <2>1. IsFiniteSet(add)
    BY AddedIsFinite
  <2> QED
    BY <1>2, <2>1, StoreKeepsTypes DEF Exchanges
<1>3. CASE LazyBindings(r)
  <2>1. IsFiniteSet({<<"b">>})
    BY AddedIsFinite
  <2> QED
    BY <1>3, <2>1, StoreKeepsTypes DEF LazyBindings
<1>4. CASE Queues(r)
  <2> DEFINE add == {<<e>> : e \in job[r].config.declare \cap {"q"}}
  <2>1. IsFiniteSet(add)
    BY AddedIsFinite
  <2> QED
    BY <1>4, <2>1, StoreKeepsTypes DEF Queues
<1>5. CASE Bindings(r)
  <2>1. IsFiniteSet({<<"b">>})
    BY AddedIsFinite
  <2> QED
    BY <1>5, <2>1, StoreKeepsTypes DEF Bindings
<1> QED
  BY <1>1, <1>2, <1>3, <1>4, <1>5

\* A thing that is kept.
LEMMA KeptIs ==
    ASSUME NEW j, JobType(j), NEW ws, NEW k, k = [j EXCEPT !.kept = @ \cup ws]
    PROVE  /\ JobType(k) /\ k.todo = j.todo /\ k.op = j.op /\ k.base = j.base /\ k.cls = j.cls /\ k.inst = j.inst
           /\ k.config = j.config /\ k.found = j.found /\ k.locks = j.locks /\ k.roles = j.roles
           /\ k.writes = j.writes /\ k.want = j.want /\ k.listed = j.listed /\ k.kept = j.kept \cup ws
BY DEF JobType, JobFields

LEMMA ExportKeepsTypes ==
    ASSUME TypeInv, NEW r \in Requests, NEW ws \in SUBSET job[r].want, NEW things, Export(r, ws, things),
           NEW add, IsFiniteSet(add), things \subseteq Here(r) \cup add
    PROVE  TypeInv'
<1> DEFINE k == [job[r] EXCEPT !.kept = @ \cup ws]
<1>1. job' = [job EXCEPT ![r] = Then(k, <<>>)]
  BY DEF Export, Go
<1>2. JobType(k)
  BY KeptIs DEF TypeInv
<1>3. JobType(Then(k, <<>>))
  BY <1>2, ThenIs
<1>4. IsFiniteSet(NewShovels(r, ws))
  <2> DEFINE S == {v \in ws : \A t \in job[r].listed : t[2] # v[1] \/ t[3] # v[2]}
             f == [w \in S |-> <<"shovel", w[1], w[2], Read(r, w[2]).id>>]
  <2>1. IsFiniteSet(S)
    <3>1. S \subseteq Things
      BY DEF TypeInv, JobType
    <3> QED
      BY <3>1, ClassifiersAreFinite, FS_Subset
  <2>2. IsFiniteSet({f[w] : w \in DOMAIN f})
    BY <2>1, ImageIsFinite
  <2> QED
    BY <2>2 DEF NewShovels
<1>5. /\ DOMAIN content' = Places
      /\ \A p \in Places : content'[p] = content[p] \/ (content'[p] = things \cup NewShovels(r, ws) /\ p = Place(r))
  BY DEF Export, TypeInv
<1>6. \A p \in Places : IsFiniteSet(content'[p])
  <2> SUFFICES ASSUME NEW p \in Places PROVE IsFiniteSet(content'[p])
    OBVIOUS
  <2>1. IsFiniteSet(content[p])
    BY DEF TypeInv
  <2>2. IsFiniteSet(content[p] \cup add)
    BY <2>1, FS_Union
  <2>3. IsFiniteSet((content[p] \cup add) \cup NewShovels(r, ws))
    BY <2>2, <1>4, FS_Union
  <2>4. content'[p] = content[p] \/ content'[p] \subseteq (content[p] \cup add) \cup NewShovels(r, ws)
    BY <1>5 DEF Here
  <2> QED
    BY <2>1, <2>3, <2>4, FS_Subset
<1> QED
  BY <1>1, <1>3, <1>5, <1>6, TypeOfBrokerStep DEF Export, TypeInv, Rest, database

LEMMA ExportsKeepTypes ==
    ASSUME TypeInv, NEW r \in Requests, ExportQueues(r) \/ ExportExchanges(r) \/ Prune(r) \/ PruneShovels(r)
    PROVE  TypeInv'
<1>0. \A what : Wanted(r, what) \subseteq job[r].want /\ job[r].want \subseteq Things
  BY DEF Wanted, TypeInv, JobType
<1>1. CASE ExportQueues(r)
  <2>1. IsFiniteSet({<<"q">>})
    BY AddedIsFinite
  <2> QED
    BY <1>0, <1>1, <2>1, ExportKeepsTypes DEF ExportQueues
<1>2. CASE ExportExchanges(r)
  <2> DEFINE ws == Wanted(r, "x")
             sq == {<<"sq", w[2]>> : w \in ws}
             route == IF <<"sq", Roles(r).active>> \in Here(r) \cup sq THEN {<<"route", Roles(r).active>>} ELSE {}
             add == (sq \cup {<<"x">>}) \cup {<<"route", Roles(r).active>>}
             things == IF ws = {} THEN Here(r) ELSE Here(r) \cup sq \cup {<<"x">>} \cup route
  <2>1. IsFiniteSet(add)
    <3> DEFINE f == [w \in ws |-> <<"sq", w[2]>>]
    <3>1. IsFiniteSet(ws)
      BY <1>0, ClassifiersAreFinite, FS_Subset
    <3>2. IsFiniteSet({f[w] : w \in DOMAIN f})
      BY <3>1, ImageIsFinite
    <3>3. IsFiniteSet(sq)
      BY <3>2
    <3>4. IsFiniteSet(sq \cup {<<"x">>})
      BY <3>3, AddedIsFinite, FS_Union
    <3> QED
      BY <3>4, AddedIsFinite, FS_Union
  <2>2. things \subseteq Here(r) \cup add
    OBVIOUS
  <2>3. Export(r, ws, things)
    BY <1>2 DEF ExportExchanges
  <2> QED
    BY <1>0, <2>1, <2>2, <2>3, ExportKeepsTypes
<1>3. CASE Prune(r)
  <2>1. PICK gone : Export(r, {}, Here(r) \ gone)
    BY <1>3 DEF Prune
  <2> QED
    BY <2>1, AddedIsFinite, ExportKeepsTypes
<1>4. CASE PruneShovels(r)
  <2>1. job' = [job EXCEPT ![r] = Then(job[r], <<>>)] /\ JobType(Then(job[r], <<>>))
    BY <1>4, TypeOfRequest DEF PruneShovels, Advance, Go
  <2>2. DOMAIN content' = Places /\ \A p \in Places : content'[p] \subseteq content[p]
    BY <1>4 DEF PruneShovels, TypeInv
  <2>3. \A p \in Places : IsFiniteSet(content'[p])
    BY <2>2, FS_Subset DEF TypeInv
  <2> QED
    BY <1>4, <2>1, <2>2, <2>3, TypeOfBrokerStep DEF PruneShovels, TypeInv, Rest, database
<1> QED
  BY <1>1, <1>2, <1>3, <1>4

\* Fields that do not matter for the types.
LEMMA SetFieldsKeepType ==
    ASSUME NEW j, JobType(j), NEW a, NEW b, NEW d, NEW w, w \subseteq Things
    PROVE  /\ JobType([j EXCEPT !.locks = a]) /\ JobType([j EXCEPT !.found = a])
           /\ JobType([j EXCEPT !.want = w, !.cls = "exported", !.inst = a])
           /\ JobType([j EXCEPT !.locks = a, !.kept = b, !.listed = d])
           /\ JobType([j EXCEPT !.todo = a])
           /\ JobType([j EXCEPT !.todo = a, !.writes = <<>>, !.locks = {}])
BY DEF JobType, JobFields, Classifiers

LEMMA RegistrationStepsKeepTypes ==
    ASSUME TypeInv, NEW r \in Requests,
           \/ Lock(r) \/ Commit(r) \/ Search(r) \/ Find(r) \/ Insert(r) \/ Save(r) \/ Unregister(r) \/ Denied(r)
           \/ Collect(r) \/ Exported(r) \/ Fail(r)
    PROVE  TypeInv'
<1>0. JobType(job[r]) /\ \A j : JobType(j) => \A steps : JobType(Then(j, steps))
  BY ThenIs DEF TypeInv
<1>1. \A row : JobType(Writing(r, row))
  BY WriteIs
<1>2. ASSUME Abort(r) PROVE TypeInv'
  BY <1>2, AbortKeepsTypes
<1>3. ASSUME NEW j, JobType(j), NEW steps, Go(r, j, steps), UNCHANGED <<database, broker, Rest>>
      PROVE  TypeInv'
  BY <1>0, <1>3, TypeOfJobStep DEF Go, database, broker, Rest, TypeInv
<1>4. CASE Lock(r)
  <2>1. JobType([job[r] EXCEPT !.locks = job[r].locks \cup {job[r].cls}])
    BY <1>0, SetFieldsKeepType
  <2> QED
    BY <1>3, <1>4, <2>1 DEF Lock, Rest
<1>5. CASE Commit(r)
  <2> DEFINE rest == Tail(job[r].todo)
             j == IF rest = <<>> THEN NoJob ELSE [job[r] EXCEPT !.todo = rest, !.writes = <<>>, !.locks = {}]
  <2>1. JobType(j)
    BY <1>0, NoJobIs, SetFieldsKeepType
  <2>2. job' = [job EXCEPT ![r] = j]
    BY <1>5 DEF Commit
  <2> HIDE DEF j
  <2> QED
    BY <1>5, <2>1, <2>2, TypeOfJobStep DEF Commit, TypeInv, broker
<1>6. CASE Search(r)
  <2>1. JobType([job[r] EXCEPT !.found = regs[job[r].cls]])
    BY <1>0, SetFieldsKeepType
  <2> QED
    BY <1>2, <1>3, <1>6, <2>1 DEF Search
<1>7. CASE Find(r)
  <2>1. \/ Go(r, job[r], <<>>)
        \/ \E j \in {job[r], Writing(r, NoRow)} : Go(r, j, CreateAndRegisterVHost)
    BY <1>7 DEF Find, Advance
  <2> QED
    BY <1>0, <1>1, <1>3, <1>7, <2>1 DEF Find
<1>8. CASE Insert(r)
  BY <1>1, <1>2, <1>3, <1>8 DEF Insert
<1>9. CASE Save(r)
  BY <1>1, <1>2, <1>3, <1>9 DEF Save
<1>10. CASE Unregister(r)
  <2>1. \E j \in {job[r], Writing(r, NoRow)} : Go(r, j, <<>>)
    BY <1>10 DEF Unregister
  <2> QED
    BY <1>0, <1>1, <1>3, <1>10, <2>1 DEF Unregister
<1>11. CASE Denied(r)
  BY <1>2, <1>11 DEF Denied
<1>12. ASSUME NEW n, Skip(r, n), UNCHANGED <<database, broker, Rest>> PROVE TypeInv'
  <2> DEFINE j == [job[r] EXCEPT !.todo = SubSeq(job[r].todo, n + 1, Len(job[r].todo))]
  <2>1. job' = [job EXCEPT ![r] = j]
    BY <1>12 DEF Skip
  <2>2. JobType(j)
    BY <1>0, SetFieldsKeepType
  <2> HIDE DEF j
  <2> QED
    BY <1>12, <2>1, <2>2, TypeOfJobStep DEF database, broker, Rest, TypeInv
<1>13. CASE Collect(r)
  <2> DEFINE ns == IF job[r].op = "apply" THEN job[r].base ELSE "origin"
             want == {w \in {"q", "x"} \X Namespaces : w[1] \in Read(r, w[2]).exported}
             j == [job[r] EXCEPT !.want = want, !.cls = "exported", !.inst = Read(r, ns).inst]
  <2>1. JobType(j)
    <3> HIDE DEF want
    <3>1. want \subseteq Things
      BY DEF want, Things
    <3> QED
      BY <1>0, <3>1, SetFieldsKeepType
  <2>2. Skip(r, Len(ProcessExportedVhost)) \/ Go(r, j, <<>>)
    BY <1>13 DEF Collect
  <2> HIDE DEF j
  <2> QED
    BY <1>3, <1>12, <1>13, <2>1, <2>2 DEF Collect
<1>14. CASE Exported(r)
  <2> DEFINE row == Read(r, "exported")
             steps == IF row = NoRow THEN CreateAndRegisterVHost ELSE <<>>
             j == [job[r] EXCEPT !.locks = job[r].locks \cup {"exported"}, !.kept = {},
                                 !.listed = IF row = NoRow THEN {} ELSE Shovels(ExportedPlace(r))]
  <2>1. JobType(j)
    BY <1>0, SetFieldsKeepType
  <2>2. Skip(r, Len(ProcessExportedVhost) - 1) \/ Go(r, j, steps)
    BY <1>14 DEF Exported
  <2> HIDE DEF j
  <2> QED
    BY <1>3, <1>12, <1>14, <2>1, <2>2 DEF Exported
<1>15. CASE Fail(r)
  <2>1. failures' \in Nat
    BY <1>15 DEF Fail, TypeInv
  <2> QED
    BY <1>15, <2>1, NoJobIs, TypeOfJobStep DEF Fail, TypeInv, database, broker
<1> QED
  BY <1>4, <1>5, <1>6, <1>7, <1>8, <1>9, <1>10, <1>11, <1>13, <1>14, <1>15

LEMMA BrokerStepsKeepTypes ==
    ASSUME TypeInv, NEW r \in Requests,
           \/ PutVhost(r) \/ PutUser(r) \/ DropShovels(r) \/ DropUser(r) \/ DropVhost(r) \/ Bind(r) \/ Unbind(r)
    PROVE  TypeInv'
<1>1. ASSUME Go(r, job[r], <<>>), UNCHANGED <<database, Rest>>, IsFiniteSet(users'), DOMAIN content' = Places,
             \A p \in Places : content'[p] \subseteq content[p] \cup {<<"route", Roles(r).active>>}
      PROVE  TypeInv'
  <2>1. JobType(Then(job[r], <<>>))
    BY TypeOfRequest
  <2>2. \A p \in Places : IsFiniteSet(content'[p])
    <3> SUFFICES ASSUME NEW p \in Places PROVE IsFiniteSet(content'[p])
      OBVIOUS
    <3>1. IsFiniteSet(content[p] \cup {<<"route", Roles(r).active>>})
      BY FS_Union, AddedIsFinite DEF TypeInv
    <3> QED
      BY <1>1, <3>1, FS_Subset
  <2> QED
    BY <1>1, <2>1, <2>2, TypeOfBrokerStep DEF Go, database, Rest, TypeInv
<1>2. IsFiniteSet(users) /\ DOMAIN content = Places
  BY DEF TypeInv
<1>3. CASE PutVhost(r)
  BY <1>1, <1>2, <1>3 DEF PutVhost, Advance, Rest
<1>4. CASE PutUser(r)
  <2> DEFINE S == {u \in users : u.inst # Row(r).inst \/ u.id # Row(r).id}
  <2>1. IsFiniteSet(S)
    BY <1>2, FS_Subset
  <2>2. IsFiniteSet(S \cup {User(Row(r))})
    BY <2>1, AddedIsFinite, FS_Union
  <2>3. users' = S \cup {User(Row(r))}
    BY <1>4 DEF PutUser
  <2> HIDE DEF S
  <2> QED
    BY <1>1, <1>2, <1>4, <2>2, <2>3 DEF PutUser, Advance, Rest
<1>5. CASE DropShovels(r)
  <2>1. DOMAIN content' = Places /\ \A p \in Places : content'[p] \subseteq content[p]
    BY <1>2, <1>5 DEF DropShovels
  <2> QED
    BY <1>1, <1>2, <1>5, <2>1 DEF DropShovels, Advance, Rest
<1>6. CASE DropUser(r)
  <2>1. IsFiniteSet({u \in users : u.inst # job[r].found.inst \/ u.id # job[r].found.id})
    BY <1>2, FS_Subset
  <2> QED
    BY <1>1, <1>2, <1>6, <2>1 DEF DropUser, Advance, Rest
<1>7. CASE DropVhost(r)
  <2>1. DOMAIN content' = Places /\ \A p \in Places : content'[p] \subseteq content[p]
    BY <1>2, <1>7 DEF DropVhost
  <2> QED
    BY <1>1, <1>2, <1>7, <2>1 DEF DropVhost, Advance, Rest
<1>8. ASSUME NEW things, Switch(r, things), things \subseteq Here(r) \cup {<<"route", Roles(r).active>>}
      PROVE  TypeInv'
  <2>1. DOMAIN content' = Places
        /\ \A p \in Places : content'[p] = content[p] \/ (content'[p] = things /\ p = Place(r))
    BY <1>2, <1>8 DEF Switch
  <2>2. \A p \in Places : content'[p] \subseteq content[p] \cup {<<"route", Roles(r).active>>}
    BY <1>8, <2>1 DEF Here
  <2> QED
    BY <1>1, <1>2, <1>8, <2>1, <2>2 DEF Switch, Advance, Rest
<1>9. CASE Bind(r)
  <2>1. ActiveRoute(r) \subseteq {<<"route", Roles(r).active>>}
    BY DEF ActiveRoute
  <2> QED
    BY <1>8, <1>9, <2>1 DEF Bind
<1>10. CASE Unbind(r)
  BY <1>8, <1>10 DEF Unbind
<1> QED
  BY <1>3, <1>4, <1>5, <1>6, <1>7, <1>9, <1>10

LEMMA NextKeepsTypes == TypeInv /\ [Next]_vars => TypeInv'
<1> SUFFICES ASSUME TypeInv, [Next]_vars PROVE TypeInv'
  OBVIOUS
<1>1. CASE UNCHANGED vars
  BY <1>1 DEF vars, TypeInv
<1>2. CASE Lose
  <2>1. IsFiniteSet(users') /\ \A p \in Places : IsFiniteSet(content'[p])
    BY <1>2, FS_EmptySet DEF Lose
  <2> QED
    BY <1>2, <2>1 DEF Lose, TypeInv, database
<1>3. ASSUME NEW r \in Requests, Step(r) PROVE TypeInv'
  BY <1>3, RegistrationStepsKeepTypes, BrokerStepsKeepTypes, EntitiesKeepTypes, ExportsKeepTypes DEF Step
<1>4. ASSUME NEW r \in Requests, Fail(r) PROVE TypeInv'
  BY <1>4, RegistrationStepsKeepTypes
<1>5. ASSUME NEW r \in Requests, NEW c \in Load.calls, Submit(r, c) \/ SubmitBg(r, c) PROVE TypeInv'
  BY <1>5, SubmitKeepsTypes
<1> QED
  BY <1>1, <1>2, <1>3, <1>4, <1>5 DEF Next

-----------------------------------------------------------------------------
(* Clients that get registrations and rotate passwords, at the same time   *)

\* In production mode clients do these two things, any number of them at once.
Clients == Load.prodMode /\ \A c \in Load.calls : c.op \in {"get", "rotate"}

RowFields == {"id", "inst", "pass", "declared", "exported", "bound"}
IsRow(row) == DOMAIN row = RowFields

\* What such a request may have left to do.
GetLists == {<<"lock", "find", "commit">>, <<"find", "commit">>, <<"insert", "vhost", "user", "commit">>,
             <<"vhost", "user", "commit">>, <<"user", "commit">>, <<"commit">>}
RotateLists == {<<"search", "save", "user", "commit">>, <<"save", "user", "commit">>, <<"user", "commit">>,
                <<"commit">>}

\* No other row has this id, nor had it when a request has read it.
Fresh(r, id) ==
    /\ id \in Nat \ {0}
    /\ \A d \in Classifiers : id # regs[d].id
    /\ \A s \in Requests : /\ id # job[s].found.id
                           /\ s # r => \A d \in DOMAIN job[s].writes : id # job[s].writes[d].id

\* A request that gets a registration: the row that it inserts has a new id, its
\* vhost is there before its user is, and that before the commit.
GetJob(r) ==
    LET c == job[r].cls
        W == job[r].writes
    IN
    /\ job[r].todo \in GetLists
    /\ DOMAIN W \subseteq {c}
    /\ (At(r, "lock") \/ At(r, "find")) => DOMAIN W = {}
    /\ At(r, "insert") /\ DOMAIN W # {} => W[c] = NoRow
    /\ (At(r, "vhost") \/ At(r, "user")) => DOMAIN W = {c}
    /\ (At(r, "vhost") \/ At(r, "user") \/ At(r, "commit")) /\ DOMAIN W # {} =>
          /\ IsRow(W[c]) /\ Fresh(r, W[c].id)
          /\ ~At(r, "vhost") => <<W[c].inst, c>> \in vhosts
          /\ At(r, "commit") => User(W[c]) \in users

\* A request that rotates a password: a row that still has the id it had when it
\* was read is still on that instance.
RotateJob(r) ==
    LET c == job[r].cls
        W == job[r].writes
        found == job[r].found
    IN
    /\ job[r].todo \in RotateLists
    /\ (At(r, "search") \/ At(r, "save")) => DOMAIN W = {}
    /\ ~At(r, "search") => /\ regs[c] # NoRow /\ found.id # 0
                           /\ found.id = regs[c].id => found.inst = regs[c].inst
    /\ (At(r, "user") \/ At(r, "commit")) =>
          /\ DOMAIN W = {c} /\ IsRow(W[c]) /\ W[c].id = regs[c].id /\ W[c].inst = regs[c].inst
          /\ At(r, "commit") => User(W[c]) \in users

ClientJob(r) ==
    /\ \/ job[r] = NoJob
       \/ job[r].op = "get" /\ GetJob(r)
       \/ job[r].op = "rotate" /\ RotateJob(r)
    /\ job[r].base = job[r].cls

\* A rotation has changed the password on the broker and not committed it.
Rotated(c) == \E r \in Requests : job[r].op = "rotate" /\ job[r].cls = c /\ At(r, "commit")

ClientRow(c) ==
    regs[c] # NoRow =>
        /\ IsRow(regs[c]) /\ regs[c].id # 0
        /\ <<regs[c].inst, c>> \in vhosts
        /\ User(regs[c]) \in users \/ Rotated(c)

ClientState ==
    /\ \A r \in Requests : ClientJob(r)
    /\ \A r, s \in Requests : r # s => DOMAIN job[r].writes \cap DOMAIN job[s].writes = {}
    /\ \A c \in Classifiers : ClientRow(c)
    /\ \A c, d \in Classifiers : regs[c].id = regs[d].id /\ regs[c] # NoRow => c = d

ClientInv == Untouched /\ Clients => ClientState

\* Two lists, one after the other.
LEMMA ConcatIs ==
  ASSUME NEW S, NEW s \in Seq(S), NEW t \in Seq(S), NEW u \in Seq(S), Len(u) = Len(s) + Len(t),
         \A i \in 1..Len(s) : u[i] = s[i], \A i \in 1..Len(t) : u[Len(s) + i] = t[i]
  PROVE s \o t = u
<1>1. s \o t \in Seq(S) /\ Len(s \o t) = Len(u)
  BY ConcatProperties
<1>2. ASSUME NEW i \in 1..Len(u) PROVE (s \o t)[i] = u[i]
  <2>1. CASE i <= Len(s)
    BY <2>1, ConcatProperties, LenProperties
  <2>2. CASE i > Len(s)
    <3>1. i - Len(s) \in 1..Len(t)
      BY <2>2, LenProperties
    <3>2. u[Len(s) + (i - Len(s))] = t[i - Len(s)] /\ Len(s) + (i - Len(s)) = i
      BY <3>1, LenProperties
    <3>3. (s \o t)[i] = t[i - Len(s)]
      BY <2>2, ConcatProperties, LenProperties
    <3> QED
      BY <3>2, <3>3
  <2> QED
    BY <2>1, <2>2, LenProperties
<1> QED
  BY <1>1, <1>2, SeqEqual, LenProperties

LEMMA RegisterThenCommit == <<"insert", "vhost", "user">> \o <<"commit">> = <<"insert", "vhost", "user", "commit">>
<1> DEFINE S == {"insert", "vhost", "user", "commit"}
           s == <<"insert", "vhost", "user">>
           t == <<"commit">>
           u == <<"insert", "vhost", "user", "commit">>
<1>1. s \in Seq(S) /\ t \in Seq(S) /\ u \in Seq(S)
  OBVIOUS
<1>2. Len(s) = 3 /\ Len(t) = 1 /\ Len(u) = 4
  OBVIOUS
<1>3. /\ \A i \in 1..3 : u[i] = s[i]
      /\ \A i \in 1..1 : u[3 + i] = t[i]
  OBVIOUS
<1> HIDE DEF S, s, t, u
<1>4. Len(u) = Len(s) + Len(t) /\ (\A i \in 1..Len(s) : u[i] = s[i]) /\ (\A i \in 1..Len(t) : u[Len(s) + i] = t[i])
  BY <1>2, <1>3
<1>5. s \o t = u
  BY <1>1, <1>4, ConcatIs
<1> QED
  BY <1>5 DEF s, t, u

\* The lists, step by step.
LEMMA GetListsAre ==
    ASSUME NEW l \in GetLists
    PROVE  /\ l # <<>> /\ Head(l) \in {"lock", "find", "insert", "vhost", "user", "commit"}
           /\ Head(l) = "lock" => <<>> \o Tail(l) = <<"find", "commit">>
           /\ Head(l) = "find" => /\ <<>> \o Tail(l) = <<"commit">>
                                  /\ CreateAndRegisterVHost \o Tail(l) = <<"insert", "vhost", "user", "commit">>
           /\ Head(l) = "insert" => <<>> \o Tail(l) = <<"vhost", "user", "commit">>
           /\ Head(l) = "vhost" => <<>> \o Tail(l) = <<"user", "commit">>
           /\ Head(l) = "user" => <<>> \o Tail(l) = <<"commit">>
           /\ Head(l) = "commit" => Tail(l) = <<>>
<1>1. CASE l = <<"lock", "find", "commit">>
  BY <1>1
<1>2. CASE l = <<"find", "commit">>
  <2>1. Tail(l) = <<"commit">>
    BY <1>2
  <2>2. <<>> \o <<"commit">> = <<"commit">>
    OBVIOUS
  <2>3. Head(l) = "find" /\ l # <<>>
    BY <1>2
  <2> HIDE <1>2
  <2> QED
    BY <2>1, <2>2, <2>3, RegisterThenCommit DEF CreateAndRegisterVHost
<1>3. CASE l = <<"insert", "vhost", "user", "commit">>
  BY <1>3
<1>4. CASE l = <<"vhost", "user", "commit">>
  BY <1>4
<1>5. CASE l = <<"user", "commit">>
  BY <1>5
<1>6. CASE l = <<"commit">>
  BY <1>6
<1> QED
  BY <1>1, <1>2, <1>3, <1>4, <1>5, <1>6 DEF GetLists

LEMMA RotateListsAre ==
    ASSUME NEW l \in RotateLists
    PROVE  /\ l # <<>> /\ Head(l) \in {"search", "save", "user", "commit"}
           /\ Head(l) = "search" => <<>> \o Tail(l) = <<"save", "user", "commit">>
           /\ Head(l) = "save" => <<>> \o Tail(l) = <<"user", "commit">>
           /\ Head(l) = "user" => <<>> \o Tail(l) = <<"commit">>
           /\ Head(l) = "commit" => Tail(l) = <<>>
<1>1. CASE l = <<"search", "save", "user", "commit">>
  BY <1>1
<1>2. CASE l = <<"save", "user", "commit">>
  BY <1>2
<1>3. CASE l = <<"user", "commit">>
  BY <1>3
<1>4. CASE l = <<"commit">>
  BY <1>4
<1> QED
  BY <1>1, <1>2, <1>3, <1>4 DEF RotateLists

\* What a request of a client is at, in each case.
LEMMA ClientAt ==
    ASSUME NEW r \in Requests, ClientJob(r), NEW step, At(r, step)
    PROVE  \/ job[r].op = "get" /\ GetJob(r) /\ step \in {"lock", "find", "insert", "vhost", "user", "commit"}
           \/ job[r].op = "rotate" /\ RotateJob(r) /\ step \in {"search", "save", "user", "commit"}
BY NoJobIs, GetListsAre, RotateListsAre DEF ClientJob, GetJob, RotateJob, At

\* Some step of a client.
LEMMA ClientStep ==
    ASSUME NEW r \in Requests, ClientJob(r), Step(r)
    PROVE  Lock(r) \/ Commit(r) \/ Search(r) \/ Find(r) \/ Insert(r) \/ PutVhost(r) \/ PutUser(r) \/ Save(r)
<1> DEFINE Known == {"lock", "find", "insert", "vhost", "user", "commit", "search", "save"}
<1>1. \A step : At(r, step) => step \in Known
  BY ClientAt
<1>2. ~(DropShovels(r) \/ DropUser(r) \/ DropVhost(r) \/ Unregister(r))
  BY <1>1 DEF DropShovels, DropUser, DropVhost, Unregister
<1>3. ~(Denied(r) \/ DeleteEntities(r) \/ Exchanges(r) \/ LazyBindings(r) \/ Queues(r) \/ Bindings(r))
  BY <1>1 DEF Denied, EntityCalls, DeleteEntities, Exchanges, LazyBindings, Queues, Bindings
<1>4. ~(Collect(r) \/ Exported(r) \/ ExportQueues(r) \/ ExportExchanges(r) \/ Prune(r) \/ PruneShovels(r)
         \/ Bind(r) \/ Unbind(r))
  BY <1>1 DEF Collect, Exported, ExportQueues, ExportExchanges, Prune, PruneShovels, Bind, Unbind
<1> QED
  BY <1>2, <1>3, <1>4 DEF Step

\* A request that waits while another one takes a step: its own row stays new,
\* its user stays as it has made it.
LEMMA GetJobWaits ==
    ASSUME NEW s \in Requests, GetJob(s), job'[s] = job[s], vhosts \subseteq vhosts',
           LET c == job[s].cls  W == job[s].writes
           IN DOMAIN W # {} => /\ Fresh(s, W[c].id) => Fresh(s, W[c].id)'
                               /\ At(s, "commit") /\ User(W[c]) \in users => User(W[c]) \in users'
    PROVE  GetJob(s)'
<1> DEFINE c == job[s].cls
           W == job[s].writes
<1>1. job'[s].cls = c /\ job'[s].writes = W /\ job'[s].todo = job[s].todo
  OBVIOUS
<1>2. \A step : At(s, step)' <=> At(s, step)
  BY <1>1 DEF At
<1>3. ASSUME At(s, "vhost") \/ At(s, "user") \/ At(s, "commit"), DOMAIN W # {}
      PROVE  Fresh(s, W[c].id)'
  BY <1>3 DEF GetJob
<1>4. ASSUME At(s, "commit"), DOMAIN W # {} PROVE User(W[c]) \in users'
  BY <1>4 DEF GetJob
<1>5. ASSUME At(s, "vhost") \/ At(s, "user") \/ At(s, "commit"), DOMAIN W # {}, ~At(s, "vhost")
      PROVE  <<W[c].inst, c>> \in vhosts'
  BY <1>5 DEF GetJob
<1> HIDE DEF W, c
<1> QED
  BY <1>1, <1>2, <1>3, <1>4, <1>5 DEF GetJob, W, c, User, IsRow

LEMMA RotateJobWaits ==
    ASSUME NEW s \in Requests, RotateJob(s), job'[s] = job[s],
           LET c == job[s].cls  W == job[s].writes
           IN /\ \/ regs'[c] = regs[c]
                 \/ /\ DOMAIN W = {} /\ regs'[c] # NoRow
                    /\ job[s].found.id = regs'[c].id => job[s].found.inst = regs'[c].inst
              /\ DOMAIN W # {} /\ At(s, "commit") /\ User(W[c]) \in users => User(W[c]) \in users'
    PROVE  RotateJob(s)'
<1> DEFINE c == job[s].cls
           W == job[s].writes
<1>1. job'[s].cls = c /\ job'[s].writes = W /\ job'[s].todo = job[s].todo /\ job'[s].found = job[s].found
  OBVIOUS
<1>2. \A step : At(s, step)' <=> At(s, step)
  BY <1>1 DEF At
<1>3. ASSUME At(s, "commit"), DOMAIN W = {c} PROVE User(W[c]) \in users'
  BY <1>3 DEF RotateJob
<1>4. (At(s, "user") \/ At(s, "commit")) => DOMAIN W = {c}
  BY DEF RotateJob
<1> HIDE DEF W, c
<1> QED
  BY <1>1, <1>2, <1>3, <1>4 DEF RotateJob, W, c, User, IsRow

LEMMA ClientJobWaits ==
    ASSUME NEW s \in Requests, ClientJob(s), job'[s] = job[s],
           job[s].op = "get" /\ GetJob(s) => GetJob(s)', job[s].op = "rotate" /\ RotateJob(s) => RotateJob(s)'
    PROVE  ClientJob(s)'
BY DEF ClientJob

\* The new id of a request is compared with what one other request has.
LEMMA FreshStays ==
    ASSUME NEW r \in Requests, NEW s \in Requests \ {r}, NEW id, Fresh(s, id),
           \A q \in Requests \ {r} : job'[q] = job[q], id # job'[r].found.id,
           \A d \in Classifiers : id # regs'[d].id, \A d \in DOMAIN job'[r].writes : id # job'[r].writes[d].id
    PROVE  Fresh(s, id)'
BY DEF Fresh

\* One request goes on, and no row changes.
LEMMA ClientGoesOn ==
    ASSUME ClientState, TypeInv, NEW r \in Requests, NEW j, Go(r, j, <<>>) \/ Go(r, j, CreateAndRegisterVHost),
           JobType(j),
           regs' = regs, vhosts \subseteq vhosts',
           ClientJob(r)',
           j.found = job[r].found \/ j.found = regs[job[r].cls],
           \A d \in DOMAIN j.writes :
               \/ d \in DOMAIN job[r].writes /\ j.writes[d] = job[r].writes[d]
               \/ /\ Free(r, d)
                  /\ \/ j.writes[d].id = 0 \/ \E c \in Classifiers : j.writes[d].id = regs[c].id
                     \/ \A s \in Requests : \A c \in DOMAIN job[s].writes : j.writes[d].id # job[s].writes[c].id,
           \A s \in Requests \ {r} : \A c \in DOMAIN job[s].writes :
               At(s, "commit") /\ User(job[s].writes[c]) \in users => User(job[s].writes[c]) \in users',
           \A c \in Classifiers : regs[c] # NoRow => User(regs[c]) \in users' \/ Rotated(c)'
    PROVE  ClientState'
<1>0. PICK steps : job' = [job EXCEPT ![r] = Then(j, steps)]
  BY DEF Go
<1>1. /\ job'[r].found = j.found /\ job'[r].writes = j.writes
      /\ \A s \in Requests \ {r} : job'[s] = job[s]
  <2>1. /\ JobType(Then(j, steps)) /\ Then(j, steps).found = j.found /\ Then(j, steps).writes = j.writes
    BY ThenIs
  <2> QED
    BY <1>0, <2>1, JobStep
<1>2. ASSUME NEW s \in Requests \ {r}, NEW c \in DOMAIN job[s].writes, NEW id, id = job[s].writes[c].id,
             Fresh(s, id)
      PROVE  Fresh(s, id)'
  <2>1. /\ id # job[r].found.id /\ id # 0
        /\ \A d \in Classifiers : id # regs[d].id
        /\ \A d \in DOMAIN job[r].writes : id # job[r].writes[d].id
    BY <1>2 DEF Fresh
  <2>2. id # job'[r].found.id
    BY <1>1, <2>1 DEF TypeInv, JobType
  <2>3. \A d \in DOMAIN j.writes : id # j.writes[d].id
    BY <1>2, <2>1
  <2> QED
    BY <1>1, <1>2, <2>1, <2>2, <2>3 DEF Fresh
<1>3. ASSUME NEW s \in Requests \ {r} PROVE ClientJob(s)'
  <2>1. ClientJob(s) /\ job'[s] = job[s] /\ JobType(job[s])
    BY <1>1 DEF ClientState, TypeInv
  <2>2. ASSUME GetJob(s) PROVE GetJob(s)'
    <3> DEFINE c == job[s].cls
               W == job[s].writes
    <3>1. ASSUME DOMAIN W # {} PROVE c \in DOMAIN W
      BY <2>2, <3>1 DEF GetJob
    <3>2. ASSUME DOMAIN W # {}, Fresh(s, W[c].id) PROVE Fresh(s, W[c].id)'
      <4>1. PICK id : id = W[c].id
        OBVIOUS
      <4>2. Fresh(s, id)'
        BY <1>2, <3>1, <3>2, <4>1
      <4>3. (W[c].id)' = id
        BY <2>1, <4>1
      <4> QED
        BY <4>2, <4>3 DEF Fresh
    <3> QED
      BY <2>1, <2>2, <3>1, <3>2, GetJobWaits
  <2>3. ASSUME RotateJob(s) PROVE RotateJob(s)'
    <3>1. (At(s, "commit") => DOMAIN job[s].writes = {job[s].cls})
      BY <2>3 DEF RotateJob
    <3> QED
      BY <2>1, <2>3, <3>1, RotateJobWaits
  <2> QED
    BY <2>1, <2>2, <2>3, ClientJobWaits
<1>4. ASSUME NEW s \in Requests, NEW q \in Requests, s # q
      PROVE  DOMAIN job'[s].writes \cap DOMAIN job'[q].writes = {}
  <2>1. \A p \in Requests \ {r} : DOMAIN j.writes \cap DOMAIN job[p].writes = {}
    BY DEF Free, ClientState
  <2> QED
    BY <1>1, <1>4, <2>1 DEF ClientState
<1>5. \A c \in Classifiers : ClientRow(c)'
  BY DEF ClientState, ClientRow, User, IsRow
<1> QED
  BY <1>3, <1>4, <1>5 DEF ClientState

\* A request ends, and no row changes.
LEMMA ClientAborts ==
    ASSUME ClientState, TypeInv, NEW r \in Requests, Abort(r), ~At(r, "commit")
    PROVE  ClientState'
<1>1. /\ job'[r] = NoJob /\ \A s \in Requests \ {r} : job'[s] = job[s]
      /\ regs' = regs /\ vhosts' = vhosts /\ users' = users
  BY DEF Abort, TypeInv, database, broker
<1>2. ASSUME NEW s \in Requests \ {r}, NEW id, Fresh(s, id) PROVE id # 0
  BY <1>2 DEF Fresh
<1>3. ASSUME NEW s \in Requests \ {r} PROVE ClientJob(s)'
  <2>1. ClientJob(s) /\ job'[s] = job[s]
    BY <1>1 DEF ClientState
  <2>2. ASSUME GetJob(s) PROVE GetJob(s)'
    <3> DEFINE id == job[s].writes[job[s].cls].id
    <3>1. ASSUME Fresh(s, id) PROVE Fresh(s, id)'
      BY <1>1, <1>2, <3>1, NoJobIs, NoRowIs DEF Fresh
    <3> QED
      BY <1>1, <2>1, <2>2, <3>1, GetJobWaits
  <2>3. ASSUME RotateJob(s) PROVE RotateJob(s)'
    BY <1>1, <2>1, <2>3, RotateJobWaits
  <2> QED
    BY <2>1, <2>2, <2>3, ClientJobWaits
<1>4. ClientJob(r)'
  BY <1>1, NoJobIs DEF ClientJob
<1>5. \A c \in Classifiers : Rotated(c) => Rotated(c)'
  BY <1>1 DEF Rotated, At
<1>6. \A c \in Classifiers : ClientRow(c)'
  BY <1>1, <1>5 DEF ClientState, ClientRow, User, IsRow
<1> QED
  BY <1>1, <1>3, <1>4, <1>6, NoJobIs DEF ClientState

\* Where a request is after its step.
LEMMA GoIs ==
    ASSUME TypeInv, NEW r \in Requests, NEW j, JobType(j), NEW steps, Go(r, j, steps)
    PROVE  /\ job'[r].todo = steps \o Tail(j.todo) /\ job'[r].op = j.op /\ job'[r].base = j.base /\ job'[r].cls = j.cls
           /\ job'[r].inst = j.inst /\ job'[r].config = j.config /\ job'[r].found = j.found
           /\ job'[r].writes = j.writes /\ job'[r].roles = j.roles /\ job'[r].want = j.want
           /\ job'[r].listed = j.listed /\ job'[r].kept = j.kept /\ job'[r].locks = j.locks
           /\ steps \o Tail(j.todo) # <<>> => \A step : At(r, step)' <=> step = Head(steps \o Tail(j.todo))
           /\ \A s \in Requests \ {r} : job'[s] = job[s]
<1> DEFINE k == Then(j, steps)
           l == steps \o Tail(j.todo)
<1>1. /\ JobType(k) /\ k.todo = l /\ k.op = j.op /\ k.base = j.base /\ k.cls = j.cls
      /\ k.inst = j.inst /\ k.config = j.config /\ k.found = j.found
      /\ k.writes = j.writes /\ k.roles = j.roles /\ k.want = j.want
      /\ k.listed = j.listed /\ k.kept = j.kept /\ k.locks = j.locks
  BY ThenIs
<1>2. job' = [job EXCEPT ![r] = k]
  BY DEF Go
<1> HIDE DEF k, l
<1>3. job'[r] = k /\ \A s \in Requests \ {r} : job'[s] = job[s]
  BY <1>1, <1>2, JobStep
<1>4. l # <<>> => \A step : At(r, step)' <=> step = Head(l)
  BY <1>1, <1>3 DEF At
<1> QED
  BY <1>1, <1>3, <1>4 DEF l

\* Only a rotation that ends takes this away.
LEMMA RotatedStays ==
    ASSUME NEW r \in Requests, job[r].op # "rotate" \/ ~At(r, "commit"),
           \A s \in Requests \ {r} : job'[s] = job[s], NEW c, Rotated(c)
    PROVE  Rotated(c)'
<1>1. PICK s \in Requests : job[s].op = "rotate" /\ job[s].cls = c /\ At(s, "commit")
  BY DEF Rotated
<1>2. job'[s] = job[s]
  BY <1>1
<1> QED
  BY <1>1, <1>2 DEF Rotated, At

LEMMA LockKeepsClients ==
    ASSUME ClientState, TypeInv, NEW r \in Requests, Lock(r)
    PROVE  ClientState'
<1> DEFINE j == [job[r] EXCEPT !.locks = job[r].locks \cup {job[r].cls}]
           l == <<"find", "commit">>
<1>1. At(r, "lock") /\ Go(r, j, <<>>) /\ regs' = regs /\ vhosts' = vhosts /\ users' = users
  BY DEF Lock, database, broker
<1>2. ClientJob(r) /\ JobType(job[r])
  BY DEF ClientState, TypeInv
<1>3. job[r].op = "get" /\ GetJob(r) /\ DOMAIN job[r].writes = {}
  BY <1>1, <1>2, ClientAt DEF GetJob
<1>4. <<>> \o Tail(job[r].todo) = l /\ l # <<>> /\ Head(l) = "find" /\ l \in GetLists
  <2>1. <<>> \o Tail(job[r].todo) = l
    BY <1>1, <1>3, GetListsAre DEF GetJob, At
  <2> QED
    BY <2>1 DEF GetLists
<1>5. /\ JobType(j) /\ j.todo = job[r].todo /\ j.op = "get" /\ j.base = job[r].base /\ j.cls = job[r].cls
      /\ j.writes = job[r].writes /\ j.found = job[r].found
  BY <1>2, <1>3, SetFieldsKeepType DEF JobType, JobFields
<1> HIDE DEF j, l
<1>6. /\ job'[r].todo = l /\ job'[r].op = "get" /\ job'[r].base = job'[r].cls /\ DOMAIN job'[r].writes = {}
      /\ \A step : At(r, step)' <=> step = "find"
      /\ \A s \in Requests \ {r} : job'[s] = job[s]
  <2>1. l = <<>> \o Tail(j.todo)
    BY <1>4, <1>5
  <2> QED
    <3>1. /\ job'[r].todo = l /\ job'[r].op = j.op /\ job'[r].base = j.base /\ job'[r].cls = j.cls
          /\ job'[r].writes = j.writes
          /\ \A step : At(r, step)' <=> step = Head(l)
          /\ \A s \in Requests \ {r} : job'[s] = job[s]
      <4>1. JobType(j) /\ Go(r, j, <<>>)
         BY <1>1, <1>5
      <4>2. job'[r].todo = <<>> \o Tail(j.todo)
         BY <4>1, GoIs
      <4>3. job'[r].op = j.op /\ job'[r].base = j.base /\ job'[r].cls = j.cls /\ job'[r].writes = j.writes
         BY <4>1, GoIs
      <4>4.  \A s \in Requests \ {r} : job'[s] = job[s]
         BY <4>1, GoIs
      <4>5.  \A step : At(r, step)' <=> step = Head(<<>> \o Tail(j.todo))
         BY <4>1, <2>1, <1>4, GoIs
      <4> QED
        BY <2>1, <1>4, <4>2, <4>3, <4>4, <4>5
    <3> QED
      BY <1>2, <1>3, <1>4, <1>5, <3>1 DEF ClientJob
<1>7. ClientJob(r)'
  BY <1>4, <1>6 DEF ClientJob, GetJob
<1>8. \A c \in Classifiers : regs[c] # NoRow => User(regs[c]) \in users' \/ Rotated(c)'
  BY <1>1, <1>3, <1>6, RotatedStays DEF ClientState, ClientRow
<1> QED
  BY <1>1, <1>3, <1>5, <1>7, <1>8, ClientGoesOn

LEMMA FindKeepsClients ==
    ASSUME ClientState, TypeInv, NEW r \in Requests, Find(r)
    PROVE  ClientState'
<1>1. At(r, "find") /\ regs' = regs /\ vhosts' = vhosts /\ users' = users
  BY DEF Find, database, broker
<1>2. ClientJob(r) /\ JobType(job[r])
  BY DEF ClientState, TypeInv
<1>3. job[r].op = "get" /\ GetJob(r) /\ DOMAIN job[r].writes = {}
  BY <1>1, <1>2, ClientAt DEF GetJob
<1>4. /\ <<>> \o Tail(job[r].todo) = <<"commit">>
      /\ CreateAndRegisterVHost \o Tail(job[r].todo) = <<"insert", "vhost", "user", "commit">>
  BY <1>1, <1>3, GetListsAre DEF GetJob, At
<1>5. ASSUME NEW j, NEW steps, Go(r, j, steps), steps \in {<<>>, CreateAndRegisterVHost}, JobType(j), j.todo = job[r].todo, j.op = "get",
             j.base = job[r].base, j.cls = job[r].cls, j.found = job[r].found,
             \/ j.writes = job[r].writes
             \/ /\ DOMAIN j.writes = {job[r].cls} /\ j.writes[job[r].cls] = NoRow
                /\ steps = CreateAndRegisterVHost /\ Free(r, job[r].cls)
      PROVE  ClientState'
  <2> DEFINE l == steps \o Tail(j.todo)
  <2>1. l = IF steps = <<>> THEN <<"commit">> ELSE <<"insert", "vhost", "user", "commit">>
    BY <1>4, <1>5
  <2> DEFINE short == <<"commit">>
             long == <<"insert", "vhost", "user", "commit">>
  <2>0. /\ short # <<>> /\ Head(short) = "commit" /\ short \in GetLists
        /\ long # <<>> /\ Head(long) = "insert" /\ long \in GetLists
    BY DEF GetLists
  <2> HIDE DEF short, long
  <2>2. Head(l) \in {"commit", "insert"} /\ l # <<>> /\ l \in GetLists /\ (steps # <<>> => Head(l) = "insert")
    <3>1. l = IF steps = <<>> THEN short ELSE long
      BY <2>1 DEF short, long
    <3> QED
      BY <2>0, <3>1
  <2> HIDE DEF l
  <2>3. /\ job'[r].todo = l /\ job'[r].op = "get" /\ job'[r].base = job'[r].cls /\ job'[r].writes = j.writes
        /\ job'[r].cls = job[r].cls
        /\ \A step : At(r, step)' <=> step = Head(l)
        /\ \A s \in Requests \ {r} : job'[s] = job[s]
    <3>1. l = steps \o Tail(j.todo)
      BY DEF l
    <3> QED
      <4>1. /\ job'[r].todo = l /\ job'[r].op = j.op /\ job'[r].base = j.base /\ job'[r].cls = j.cls
            /\ job'[r].writes = j.writes
            /\ \A step : At(r, step)' <=> step = Head(l)
            /\ \A s \in Requests \ {r} : job'[s] = job[s]
        <5>1. \A step : At(r, step)' <=> step = Head(l)
          BY <1>5, <2>2, <3>1, GoIs
        <5>2. job'[r].todo = l
          BY <1>5, <3>1, GoIs
        <5>3. job'[r].op = j.op /\ job'[r].base = j.base /\ job'[r].cls = j.cls /\ job'[r].writes = j.writes
          BY <1>5, GoIs
        <5>4. \A s \in Requests \ {r} : job'[s] = job[s]
          BY <1>5, GoIs
        <5> QED
          BY <5>1, <5>2, <5>3, <5>4
      <4> QED
        BY <1>2, <1>3, <1>5, <4>1, NoJobIs DEF ClientJob
  <2>4. CreateAndRegisterVHost # <<>>
    BY DEF CreateAndRegisterVHost
  <2>5. GetJob(r)'
    BY <1>3, <1>5, <2>2, <2>3, <2>4 DEF GetJob, NoRow
  <2>6. ClientJob(r)'
    BY <2>3, <2>5 DEF ClientJob
  <2>7. \A c \in Classifiers : regs[c] # NoRow => User(regs[c]) \in users' \/ Rotated(c)'
    BY <1>1, <1>3, <2>3, RotatedStays DEF ClientState, ClientRow
  <2> QED
    BY <1>1, <1>3, <1>5, <2>6, <2>7, NoRowIs, ClientGoesOn
<1>6. \/ Go(r, job[r], <<>>)
      \/ Go(r, job[r], CreateAndRegisterVHost)
      \/ Go(r, Writing(r, NoRow), CreateAndRegisterVHost) /\ Free(r, job[r].cls)
  BY DEF Find, Advance
<1>7. CASE Go(r, job[r], <<>>)
  BY <1>2, <1>3, <1>5, <1>7
<1>8. CASE Go(r, job[r], CreateAndRegisterVHost)
  BY <1>2, <1>3, <1>5, <1>8
<1>9. CASE Go(r, Writing(r, NoRow), CreateAndRegisterVHost) /\ Free(r, job[r].cls)
  BY <1>3, <1>5, <1>9, WriteIs
<1> QED
  BY <1>6, <1>7, <1>8, <1>9

LEMMA InsertKeepsClients ==
    ASSUME ClientState, TypeInv, NEW r \in Requests, Insert(r)
    PROVE  ClientState'
<1> DEFINE c == job[r].cls
           l == <<"vhost", "user", "commit">>
<1>1. At(r, "insert")
  BY DEF Insert
<1>2. ClientJob(r) /\ JobType(job[r]) /\ c \in Classifiers
  BY DEF ClientState, TypeInv, JobType
<1>3. job[r].op = "get" /\ GetJob(r) /\ ~At(r, "commit")
  BY <1>1, <1>2, ClientAt DEF At
<1>4. CASE Abort(r)
  BY <1>3, <1>4, ClientAborts
<1>5. CASE ~Abort(r)
  <2> DEFINE row == [NoRow EXCEPT !.id = Unused(Ids), !.inst = Resolved(r), !.pass = Unused(Passwords)]
             j == Writing(r, row)
  <2>1. Go(r, j, <<>>) /\ Free(r, c) /\ regs' = regs /\ vhosts' = vhosts /\ users' = users
    BY <1>5 DEF Insert, database, broker
  <2>2. IsRow(row) /\ row.id = Unused(Ids)
    BY NoRowIs DEF IsRow, RowFields
  <2>3. Fresh(r, row.id)
    BY <2>2, FreshIs DEF Fresh
  <2>4. \A s \in Requests : \A d \in DOMAIN job[s].writes : row.id # job[s].writes[d].id
    BY <2>2, FreshIs
  <2> HIDE DEF row
  <2>5. /\ JobType(j) /\ j.todo = job[r].todo /\ j.op = "get" /\ j.base = job[r].base /\ j.cls = c
        /\ j.found = job[r].found /\ DOMAIN j.writes = {c} /\ j.writes[c] = row
    BY <1>3, WriteIs DEF GetJob
  <2>6. <<>> \o Tail(job[r].todo) = l
    BY <1>1, <1>3, GetListsAre DEF GetJob, At
  <2>7. l # <<>> /\ Head(l) = "vhost" /\ l \in GetLists
    BY DEF GetLists
  <2> HIDE DEF j, l
  <2>8. /\ job'[r].op = "get" /\ job'[r].base = job[r].base /\ job'[r].cls = c /\ job'[r].writes = j.writes
        /\ job'[r].found = job[r].found
    BY <2>1, <2>5, GoIs
  <2>9. job'[r].todo = l /\ \A s \in Requests \ {r} : job'[s] = job[s]
    <3>0. JobType(j) /\ Go(r, j, <<>>)
      BY <2>1, <2>5
    <3>1. job'[r].todo = <<>> \o Tail(j.todo)
      BY <3>0, GoIs
    <3>2. \A s \in Requests \ {r} : job'[s] = job[s]
      BY <2>1, <2>5, GoIs
    <3> QED
      BY <2>1, <2>5, <2>6, <3>1, <3>2
  <2>10. \A step : At(r, step)' <=> step = "vhost"
    BY <2>7, <2>9 DEF At
  <2>11. ASSUME NEW id, id = row.id PROVE Fresh(r, id)'
    BY <2>1, <2>3, <2>8, <2>9, <2>11 DEF Fresh
  <2>12. Fresh(r, job[r].writes[job[r].cls].id)'
    <3>1. (job[r].writes[job[r].cls].id)' = row.id
      BY <2>5, <2>8
    <3>2. PICK id : id = row.id
      OBVIOUS
    <3>3. Fresh(r, id)'
      BY <2>11, <3>2
    <3> QED
      BY <3>1, <3>2, <3>3 DEF Fresh
  <2>13. IsRow(job[r].writes[job[r].cls])'
    BY <2>2, <2>5, <2>8 DEF IsRow
  <2>14. GetJob(r)'
    BY <2>5, <2>7, <2>8, <2>9, <2>10, <2>12, <2>13 DEF GetJob
  <2>15. ClientJob(r)'
    BY <1>2, <2>8, <2>14, NoJobIs DEF ClientJob
  <2>16. \A d \in Classifiers : regs[d] # NoRow => User(regs[d]) \in users' \/ Rotated(d)'
    BY <1>3, <2>1, <2>9, RotatedStays DEF ClientState, ClientRow
  <2> QED
    BY <2>1, <2>4, <2>5, <2>15, <2>16, ClientGoesOn
<1> QED
  BY <1>4, <1>5

LEMMA PutVhostKeepsClients ==
    ASSUME ClientState, TypeInv, NEW r \in Requests, PutVhost(r)
    PROVE  ClientState'
<1> DEFINE j == job[r]
           c == job[r].cls
           W == job[r].writes
           l == <<"user", "commit">>
<1>1. At(r, "vhost") /\ Go(r, j, <<>>) /\ regs' = regs /\ users' = users /\ vhosts' = vhosts \cup {Place(r)}
  BY DEF PutVhost, Advance, database
<1>2. ClientJob(r) /\ JobType(j)
  BY DEF ClientState, TypeInv
<1>3. j.op = "get" /\ GetJob(r) /\ ~At(r, "commit")
  BY <1>1, <1>2, ClientAt DEF At
<1>4. DOMAIN W = {c} /\ IsRow(W[c]) /\ Fresh(r, W[c].id)
  BY <1>1, <1>3 DEF GetJob
<1>5. Place(r) = <<W[c].inst, c>>
  BY <1>4 DEF Place, Row, Read
<1>6. <<>> \o Tail(j.todo) = l
  BY <1>1, <1>3, GetListsAre DEF GetJob, At
<1>7. l # <<>> /\ Head(l) = "user" /\ l \in GetLists
  BY DEF GetLists
<1> HIDE DEF j, l
<1>8. /\ job'[r].op = j.op /\ job'[r].base = j.base /\ job'[r].cls = j.cls /\ job'[r].writes = j.writes
      /\ job'[r].found = j.found
  BY <1>1, <1>2, GoIs
<1>9. job'[r].todo = l /\ \A s \in Requests \ {r} : job'[s] = job[s]
  BY <1>1, <1>2, <1>6, GoIs
<1>10. \A step : At(r, step)' <=> step = "user"
  BY <1>7, <1>9 DEF At
<1>11. Fresh(r, job[r].writes[job[r].cls].id)' /\ IsRow(job[r].writes[job[r].cls])'
  <2>1. PICK id : id = W[c].id
    OBVIOUS
  <2>2. (job[r].writes[job[r].cls].id)' = id
    BY <1>8, <2>1 DEF j
  <2>3. Fresh(r, id)'
    BY <1>1, <1>4, <1>8, <1>9, <2>1 DEF Fresh, j
  <2> QED
    BY <1>4, <1>8, <2>2, <2>3 DEF Fresh, IsRow, j
<1>12. GetJob(r)'
  BY <1>1, <1>4, <1>5, <1>7, <1>8, <1>9, <1>10, <1>11 DEF GetJob, j
<1>13. ClientJob(r)'
  BY <1>2, <1>3, <1>8, <1>12, NoJobIs DEF ClientJob, j
<1>14. \A d \in Classifiers : regs[d] # NoRow => User(regs[d]) \in users' \/ Rotated(d)'
  BY <1>1, <1>3, <1>9, RotatedStays DEF ClientState, ClientRow
<1> QED
  BY <1>1, <1>2, <1>13, <1>14, ClientGoesOn DEF j

LEMMA SearchKeepsClients ==
    ASSUME ClientState, TypeInv, NEW r \in Requests, Search(r)
    PROVE  ClientState'
<1> DEFINE c == job[r].cls
           j == [job[r] EXCEPT !.found = regs[job[r].cls]]
           l == <<"save", "user", "commit">>
<1>1. At(r, "search")
  BY DEF Search
<1>2. ClientJob(r) /\ JobType(job[r]) /\ c \in Classifiers
  BY DEF ClientState, TypeInv, JobType
<1>3. job[r].op = "rotate" /\ RotateJob(r) /\ ~At(r, "commit")
  BY <1>1, <1>2, ClientAt DEF At
<1>4. CASE Abort(r)
  BY <1>3, <1>4, ClientAborts
<1>5. CASE ~Abort(r)
  <2>1. Go(r, j, <<>>) /\ regs[c] # NoRow /\ regs' = regs /\ vhosts' = vhosts /\ users' = users
    BY <1>5 DEF Search, database, broker
  <2>2. /\ JobType(j) /\ j.todo = job[r].todo /\ j.op = job[r].op /\ j.base = job[r].base /\ j.cls = c
        /\ j.found = regs[c] /\ j.writes = job[r].writes
    BY <1>2, SetFieldsKeepType DEF JobType, JobFields
  <2>3. <<>> \o Tail(job[r].todo) = l
    BY <1>1, <1>3, RotateListsAre DEF RotateJob, At
  <2>4. l # <<>> /\ Head(l) = "save" /\ l \in RotateLists
    BY DEF RotateLists
  <2> HIDE DEF j, l
  <2>5. /\ job'[r].op = j.op /\ job'[r].base = j.base /\ job'[r].cls = j.cls /\ job'[r].writes = j.writes
        /\ job'[r].found = j.found
    BY <2>1, <2>2, GoIs
  <2>6. job'[r].todo = l /\ \A s \in Requests \ {r} : job'[s] = job[s]
    <3>0. JobType(j) /\ Go(r, j, <<>>)
      BY <2>1, <2>2
    <3>1. job'[r].todo = <<>> \o Tail(j.todo)
      BY <3>0, GoIs
    <3>2. \A s \in Requests \ {r} : job'[s] = job[s]
      BY <2>1, <2>2, GoIs
    <3> QED
      BY <2>1, <2>2, <2>3, <3>1, <3>2
  <2>7. \A step : At(r, step)' <=> step = "save"
    BY <2>4, <2>6 DEF At
  <2>8. regs[c].id # 0 /\ DOMAIN job[r].writes = {}
    BY <1>1, <1>2, <1>3, <2>1 DEF ClientState, ClientRow, RotateJob
  <2>9. RotateJob(r)'
    BY <2>1, <2>2, <2>4, <2>5, <2>6, <2>7, <2>8 DEF RotateJob
  <2>10. ClientJob(r)'
    BY <1>2, <1>3, <2>2, <2>5, <2>9, NoJobIs DEF ClientJob
  <2>11. \A d \in Classifiers : regs[d] # NoRow => User(regs[d]) \in users' \/ Rotated(d)'
    BY <1>3, <2>1, <2>6, RotatedStays DEF ClientState, ClientRow
  <2> QED
    BY <2>1, <2>2, <2>8, <2>10, <2>11, ClientGoesOn
<1> QED
  BY <1>4, <1>5

LEMMA SaveKeepsClients ==
    ASSUME ClientState, TypeInv, NEW r \in Requests, Save(r)
    PROVE  ClientState'
<1> DEFINE c == job[r].cls
           l == <<"user", "commit">>
<1>1. At(r, "save") /\ Free(r, c)
  BY DEF Save
<1>2. ClientJob(r) /\ JobType(job[r]) /\ c \in Classifiers
  BY DEF ClientState, TypeInv, JobType
<1>3. job[r].op = "rotate" /\ RotateJob(r) /\ ~At(r, "commit") /\ ~At(r, "search")
  BY <1>1, <1>2, ClientAt DEF At
<1>4. CASE Abort(r)
  BY <1>3, <1>4, ClientAborts
<1>5. CASE ~Abort(r)
  <2> DEFINE row == SavedRow(r)
             j == Writing(r, row)
  <2>1. Go(r, j, <<>>) /\ ~SaveConflicts(r) /\ regs' = regs /\ vhosts' = vhosts /\ users' = users
    BY <1>5 DEF Save, database, broker
  <2>2. /\ regs[c] # NoRow /\ IsRow(regs[c]) /\ regs[c].id # 0 /\ DOMAIN job[r].writes = {}
        /\ job[r].found.id # 0 /\ (job[r].found.id = regs[c].id => job[r].found.inst = regs[c].inst)
    BY <1>1, <1>2, <1>3 DEF RotateJob, ClientState, ClientRow
  <2>3. job[r].found.id = regs[c].id /\ job[r].found.inst = regs[c].inst
    BY <2>1, <2>2, NoRowIs DEF SaveConflicts
  <2>4. IsRow(row) /\ row.id = regs[c].id /\ row.inst = regs[c].inst
    <3>1. row = [regs[c] EXCEPT !.inst = job[r].found.inst, !.pass = Unused(Passwords)]
      BY <2>2 DEF SavedRow
    <3> HIDE DEF row
    <3> QED
      BY <2>2, <2>3, <3>1 DEF IsRow, RowFields
  <2> HIDE DEF row
  <2>5. /\ JobType(j) /\ j.todo = job[r].todo /\ j.op = job[r].op /\ j.base = job[r].base /\ j.cls = c
        /\ j.found = job[r].found /\ DOMAIN j.writes = {c} /\ j.writes[c] = row
    BY <2>2, WriteIs
  <2>6. <<>> \o Tail(job[r].todo) = l
    BY <1>1, <1>3, RotateListsAre DEF RotateJob, At
  <2>7. l # <<>> /\ Head(l) = "user" /\ l \in RotateLists
    BY DEF RotateLists
  <2> HIDE DEF j, l
  <2>8. /\ job'[r].op = j.op /\ job'[r].base = j.base /\ job'[r].cls = j.cls /\ job'[r].writes = j.writes
        /\ job'[r].found = j.found
    BY <2>1, <2>5, GoIs
  <2>9. job'[r].todo = l /\ \A s \in Requests \ {r} : job'[s] = job[s]
    <3>0. JobType(j) /\ Go(r, j, <<>>)
      BY <2>1, <2>5
    <3>1. job'[r].todo = <<>> \o Tail(j.todo)
      BY <3>0, GoIs
    <3>2. \A s \in Requests \ {r} : job'[s] = job[s]
      BY <2>1, <2>5, GoIs
    <3> QED
      BY <2>1, <2>5, <2>6, <3>1, <3>2
  <2>10. \A step : At(r, step)' <=> step = "user"
    BY <2>7, <2>9 DEF At
  <2>11. RotateJob(r)'
    BY <2>1, <2>2, <2>4, <2>5, <2>7, <2>8, <2>9, <2>10 DEF RotateJob, IsRow
  <2>12. ClientJob(r)'
    BY <1>2, <1>3, <2>5, <2>8, <2>11, NoJobIs DEF ClientJob
  <2>13. \A d \in Classifiers : regs[d] # NoRow => User(regs[d]) \in users' \/ Rotated(d)'
    BY <1>3, <2>1, <2>9, RotatedStays DEF ClientState, ClientRow
  <2> QED
    BY <1>1, <1>2, <2>1, <2>4, <2>5, <2>12, <2>13, ClientGoesOn
<1> QED
  BY <1>4, <1>5

\* Only the user with this id changes.
LEMMA OtherUsersStay ==
    ASSUME NEW r \in Requests, NEW row, row.id # Row(r).id, User(row) \in users,
           users' = {u \in users : u.inst # Row(r).inst \/ u.id # Row(r).id} \cup {User(Row(r))}
    PROVE  User(row) \in users'
BY DEF User

LEMMA PutUserKeepsClients ==
    ASSUME ClientState, TypeInv, NEW r \in Requests, PutUser(r)
    PROVE  ClientState'
<1> DEFINE j == job[r]
           c == job[r].cls
           W == job[r].writes
           l == <<"commit">>
<1>1. /\ At(r, "user") /\ Go(r, j, <<>>) /\ regs' = regs /\ vhosts' = vhosts
      /\ users' = {u \in users : u.inst # Row(r).inst \/ u.id # Row(r).id} \cup {User(Row(r))}
  BY DEF PutUser, Advance, database
<1>2. ClientJob(r) /\ JobType(j) /\ c \in Classifiers
  BY DEF ClientState, TypeInv, JobType
<1>3. /\ \/ j.op = "get" /\ GetJob(r)
         \/ j.op = "rotate" /\ RotateJob(r)
      /\ ~At(r, "commit") /\ ~At(r, "vhost") /\ ~At(r, "search")
  BY <1>1, <1>2, ClientAt DEF At
<1>4. DOMAIN W = {c} /\ IsRow(W[c])
  BY <1>1, <1>3 DEF GetJob, RotateJob
<1>5. Row(r) = W[c] /\ User(W[c]) \in users'
  BY <1>1, <1>4 DEF Row, Read
<1>6. <<>> \o Tail(j.todo) = l
  BY <1>1, <1>3, GetListsAre, RotateListsAre DEF GetJob, RotateJob, At
<1>7. l # <<>> /\ Head(l) = "commit" /\ l \in GetLists /\ l \in RotateLists
  BY DEF GetLists, RotateLists
<1>8. \A s \in Requests \ {r} : \A d \in DOMAIN job[s].writes :
          At(s, "commit") /\ User(job[s].writes[d]) \in users => User(job[s].writes[d]) \in users'
  <2> SUFFICES ASSUME NEW s \in Requests \ {r}, NEW d \in DOMAIN job[s].writes, At(s, "commit"),
                      User(job[s].writes[d]) \in users
               PROVE  User(job[s].writes[d]) \in users'
    OBVIOUS
  <2> DEFINE w == job[s].writes[d]
  <2>1. w.id # Row(r).id
    <3>1. CASE j.op = "get" /\ GetJob(r)
      BY <1>1, <1>4, <1>5, <3>1 DEF GetJob, Fresh
    <3>2. CASE j.op = "rotate" /\ RotateJob(r)
      <4>1. Row(r).id = regs[c].id /\ regs[c] # NoRow
        BY <1>1, <1>3, <1>5, <3>2 DEF RotateJob
      <4>2. ClientJob(s)
        BY DEF ClientState
      <4>3. \/ job[s].op = "get" /\ GetJob(s)
            \/ job[s].op = "rotate" /\ RotateJob(s) /\ ~At(s, "search")
        BY <4>2, ClientAt DEF At
      <4>4. CASE job[s].op = "get" /\ GetJob(s)
        <5>1. d = job[s].cls /\ Fresh(s, w.id)
          BY <4>4 DEF GetJob
        <5> QED
          BY <1>2, <4>1, <5>1 DEF Fresh
      <4>5. CASE job[s].op = "rotate" /\ RotateJob(s) /\ ~At(s, "search")
        <5>1. d = job[s].cls /\ w.id = regs[d].id /\ regs[d] # NoRow
          BY <4>5 DEF RotateJob
        <5>2. d # c /\ d \in Classifiers
          BY <1>4, <5>1 DEF ClientState, TypeInv, JobType
        <5> QED
          BY <1>2, <4>1, <5>1, <5>2 DEF ClientState
      <4> QED
        BY <4>3, <4>4, <4>5
    <3> QED
      BY <1>3, <3>1, <3>2
  <2> QED
    BY <1>1, <2>1, OtherUsersStay
<1> HIDE DEF j, l
<1>9. JobType(j) /\ Go(r, j, <<>>)
  BY <1>1, <1>2
<1>10. /\ job'[r].op = j.op /\ job'[r].base = j.base /\ job'[r].cls = j.cls /\ job'[r].writes = j.writes
       /\ job'[r].found = j.found
  BY <1>9, GoIs
<1>11. job'[r].todo = l /\ \A s \in Requests \ {r} : job'[s] = job[s]
  BY <1>6, <1>9, GoIs
<1>12. \A step : At(r, step)' <=> step = "commit"
  BY <1>7, <1>11 DEF At
<1>13. ASSUME GetJob(r) PROVE GetJob(r)'
  <2>1. Fresh(r, W[c].id) /\ <<W[c].inst, c>> \in vhosts
    BY <1>1, <1>3, <1>4, <1>13 DEF GetJob
  <2>2. PICK id : id = W[c].id
    OBVIOUS
  <2>3. Fresh(r, id)'
    BY <1>1, <1>10, <1>11, <2>1, <2>2 DEF Fresh, j
  <2>4. (job[r].writes[job[r].cls].id)' = id
    BY <1>10, <2>2 DEF j
  <2>5. Fresh(r, job[r].writes[job[r].cls].id)'
    BY <2>3, <2>4 DEF Fresh
  <2> QED
    BY <1>1, <1>4, <1>5, <1>7, <1>10, <1>11, <1>12, <2>1, <2>5 DEF GetJob, j, IsRow, User
<1>14. ASSUME RotateJob(r) PROVE RotateJob(r)'
  BY <1>1, <1>3, <1>4, <1>5, <1>7, <1>10, <1>11, <1>12, <1>14 DEF RotateJob, j, IsRow, User
<1>15. ClientJob(r)'
  BY <1>2, <1>3, <1>10, <1>13, <1>14, NoJobIs DEF ClientJob, j
<1>16. ASSUME NEW d \in Classifiers, regs[d] # NoRow
       PROVE  User(regs[d]) \in users' \/ Rotated(d)'
  <2>1. CASE Rotated(d)
    BY <1>3, <1>11, <2>1, RotatedStays
  <2>2. CASE User(regs[d]) \in users /\ regs[d].id # Row(r).id
    BY <1>1, <2>2, OtherUsersStay
  <2>3. CASE regs[d].id = Row(r).id
    <3>1. CASE j.op = "get" /\ GetJob(r)
      BY <1>1, <1>4, <1>5, <2>3, <3>1 DEF GetJob, Fresh
    <3>2. CASE j.op = "rotate" /\ RotateJob(r)
      <4>1. regs[d].id = regs[c].id
        BY <1>1, <1>5, <2>3, <3>2 DEF RotateJob
      <4>2. d = c
        BY <1>2, <1>16, <4>1 DEF ClientState
      <4>3. job'[r].op = "rotate" /\ job'[r].cls = d /\ At(r, "commit")'
        BY <1>10, <1>12, <3>2, <4>2 DEF j
      <4> QED
        BY <4>3 DEF Rotated
    <3> QED
      BY <1>3, <3>1, <3>2
  <2> QED
    BY <1>16, <2>1, <2>2, <2>3 DEF ClientState, ClientRow
<1> QED
  BY <1>1, <1>2, <1>8, <1>15, <1>16, ClientGoesOn DEF j

LEMMA CommitKeepsClients ==
    ASSUME ClientState, TypeInv, NEW r \in Requests, Commit(r)
    PROVE  ClientState'
<1> DEFINE c == job[r].cls
           W == job[r].writes
<1>1. At(r, "commit") /\ vhosts' = vhosts /\ users' = users /\ regs' = [d \in Classifiers |-> Read(r, d)]
  BY DEF Commit, broker
<1>2. ClientJob(r) /\ JobType(job[r]) /\ c \in Classifiers
  BY DEF ClientState, TypeInv, JobType
<1>3. /\ \/ job[r].op = "get" /\ GetJob(r)
         \/ job[r].op = "rotate" /\ RotateJob(r)
      /\ ~At(r, "vhost") /\ ~At(r, "search")
  BY <1>1, <1>2, ClientAt DEF At
<1>4. Tail(job[r].todo) = <<>>
  BY <1>1, <1>3, GetListsAre, RotateListsAre DEF GetJob, RotateJob, At
<1>5. job'[r] = NoJob /\ \A s \in Requests \ {r} : job'[s] = job[s]
  BY <1>4 DEF Commit, TypeInv
<1>6. \A d \in Classifiers : regs'[d] = IF d \in DOMAIN W THEN W[d] ELSE regs[d]
  BY <1>1 DEF Read
<1>7. DOMAIN W = {} \/ DOMAIN W = {c}
  BY <1>1, <1>3 DEF GetJob, RotateJob
\* The row that is written.
<1>8. ASSUME DOMAIN W = {c}
      PROVE  /\ regs'[c] = W[c] /\ IsRow(W[c]) /\ W[c].id # 0 /\ W[c] # NoRow
             /\ <<W[c].inst, c>> \in vhosts /\ User(W[c]) \in users
             /\ \A d \in Classifiers \ {c} : W[c].id # regs[d].id
             /\ \A s \in Requests \ {r} : \/ W[c].id # job[s].found.id
                                          \/ W[c].id = regs[c].id /\ W[c].inst = regs[c].inst
             /\ \A s \in Requests \ {r} : \A d \in DOMAIN job[s].writes : Fresh(s, job[s].writes[d].id) => W[c].id # job[s].writes[d].id
  <2>1. regs'[c] = W[c]
    BY <1>2, <1>6, <1>8
  <2>2. CASE job[r].op = "get" /\ GetJob(r)
    <3>1. IsRow(W[c]) /\ Fresh(r, W[c].id) /\ <<W[c].inst, c>> \in vhosts /\ User(W[c]) \in users
      BY <1>1, <1>3, <1>8, <2>2 DEF GetJob
    <3> QED
      BY <2>1, <3>1, NoRowIs DEF Fresh
  <2>3. CASE job[r].op = "rotate" /\ RotateJob(r)
    <3>1. /\ IsRow(W[c]) /\ User(W[c]) \in users /\ W[c].id = regs[c].id /\ W[c].inst = regs[c].inst
          /\ regs[c] # NoRow
      BY <1>1, <1>3, <2>3 DEF RotateJob
    <3>2. regs[c].id # 0 /\ <<regs[c].inst, c>> \in vhosts
      BY <1>2, <3>1 DEF ClientState, ClientRow
    <3>3. \A d \in Classifiers \ {c} : W[c].id # regs[d].id
      BY <1>2, <3>1 DEF ClientState
    <3>4. \A s \in Requests \ {r} : \A d \in DOMAIN job[s].writes :
              Fresh(s, job[s].writes[d].id) => W[c].id # job[s].writes[d].id
      BY <1>2, <3>1 DEF Fresh
    <3> QED
      BY <2>1, <3>1, <3>2, <3>3, <3>4, NoRowIs
  <2> QED
    BY <1>3, <2>2, <2>3
<1>9. ASSUME NEW s \in Requests \ {r} PROVE ClientJob(s)'
  <2>1. ClientJob(s) /\ job'[s] = job[s] /\ JobType(job[s])
    BY <1>5 DEF ClientState, TypeInv
  <2>2. ASSUME GetJob(s) PROVE GetJob(s)'
    <3> DEFINE id == job[s].writes[job[s].cls].id
    <3>1. ASSUME DOMAIN job[s].writes # {}, Fresh(s, id) PROVE Fresh(s, id)'
      <4>1. job[s].cls \in DOMAIN job[s].writes
        BY <2>2, <3>1 DEF GetJob
      <4>2. PICK n : n = id
        OBVIOUS
      <4>3. \A d \in Classifiers : n # regs'[d].id
        BY <1>6, <1>7, <1>8, <3>1, <4>1, <4>2 DEF Fresh
      <4>4. n # 0
        BY <3>1, <4>2 DEF Fresh
      <4>5. Fresh(s, n)'
        BY <1>5, <3>1, <4>2, <4>3, <4>4, NoJobIs, NoRowIs DEF Fresh
      <4>6. id' = n
        BY <2>1, <4>2
      <4> QED
        BY <4>5, <4>6 DEF Fresh
    <3> QED
      BY <1>1, <2>1, <2>2, <3>1, GetJobWaits
  <2>3. ASSUME RotateJob(s) PROVE RotateJob(s)'
    <3> DEFINE d == job[s].cls
    <3>0. d \in Classifiers
      BY <2>1 DEF JobType
    <3>1. CASE d \notin DOMAIN W
      <4>1. regs'[d] = regs[d]
        BY <1>6, <3>0, <3>1
      <4> QED
        BY <1>1, <2>1, <2>3, <4>1, RotateJobWaits
    <3>2. CASE d \in DOMAIN W
      <4>1. d = c /\ DOMAIN W = {c}
        BY <1>7, <3>2
      <4>2. DOMAIN job[s].writes = {}
        <5>1. d \notin DOMAIN job[s].writes
          BY <3>2 DEF ClientState
        <5> QED
          BY <2>3, <5>1, RotateListsAre DEF RotateJob, At
      <4>3. regs'[d] # NoRow
        BY <1>8, <4>1
      <4>4. At(s, "search") \/ (job[s].found.id = regs'[d].id => job[s].found.inst = regs'[d].inst)
        BY <1>8, <2>3, <4>1 DEF RotateJob
      <4>5. CASE At(s, "search")
        BY <2>1, <2>3, <4>2, <4>5 DEF RotateJob, At
      <4>6. CASE ~At(s, "search")
        BY <2>1, <2>3, <4>2, <4>3, <4>4, <4>6, RotateJobWaits
      <4> QED
        BY <4>5, <4>6
    <3> QED
      BY <3>1, <3>2
  <2> QED
    BY <2>1, <2>2, <2>3, ClientJobWaits
<1>10. ClientJob(r)'
  BY <1>5, NoJobIs DEF ClientJob
<1>11. ASSUME NEW d \in Classifiers PROVE ClientRow(d)'
  <2>1. CASE d \in DOMAIN W
    BY <1>1, <1>7, <1>8, <2>1 DEF ClientRow, IsRow, User
  <2>2. CASE d \notin DOMAIN W
    <3>1. regs'[d] = regs[d]
      BY <1>6, <2>2
    <3>2. ASSUME Rotated(d) PROVE Rotated(d)'
      <4>1. PICK s \in Requests : job[s].op = "rotate" /\ job[s].cls = d /\ At(s, "commit")
        BY <3>2 DEF Rotated
      <4>2. s # r
        <5> SUFFICES ASSUME s = r PROVE FALSE
          OBVIOUS
        <5>1. RotateJob(r)
          BY <1>3, <4>1
        <5> QED
          BY <1>1, <2>2, <4>1, <5>1 DEF RotateJob
      <4> QED
        BY <1>5, <4>1, <4>2 DEF Rotated, At
    <3> QED
      BY <1>1, <3>1, <3>2 DEF ClientState, ClientRow, IsRow, User
  <2> QED
    BY <2>1, <2>2
<1>12. ASSUME NEW d \in Classifiers, NEW e \in Classifiers, regs'[d].id = regs'[e].id, regs'[d] # NoRow
       PROVE  d = e
  <2>1. CASE DOMAIN W = {}
    BY <1>6, <1>12, <2>1 DEF ClientState
  <2>2. CASE DOMAIN W = {c}
    BY <1>2, <1>6, <1>8, <1>12, <2>2 DEF ClientState
  <2> QED
    BY <1>7, <2>1, <2>2
<1>13. ASSUME NEW s \in Requests, NEW q \in Requests, s # q
       PROVE  DOMAIN job'[s].writes \cap DOMAIN job'[q].writes = {}
  BY <1>5, <1>13, NoJobIs DEF ClientState
<1> QED
  BY <1>9, <1>10, <1>11, <1>12, <1>13 DEF ClientState

LEMMA SubmitKeepsClients ==
    ASSUME ClientState, TypeInv, Clients, NEW r \in Requests, NEW call \in Load.calls,
           Submit(r, call) \/ SubmitBg(r, call)
    PROVE  ClientState'
<1>1. call.op \in {"get", "rotate"} /\ Submit(r, call)
  BY DEF Clients, SubmitBg
<1> DEFINE k == [NoJob EXCEPT !.op = call.op, !.base = call.cls, !.cls = call.cls, !.inst = call.inst,
                   !.todo = Program(call.op),
                   !.config = IF call.op # "recover" THEN call.config
                              ELSE [NoConfig EXCEPT !.declare = regs[call.cls].declared,
                                                    !.exported = regs[call.cls].exported]]
<1>2. /\ job[r] = NoJob /\ job' = [job EXCEPT ![r] = k] /\ regs' = regs /\ vhosts' = vhosts /\ users' = users
  BY <1>1 DEF Submit, database, broker
<1>3. /\ k.op = call.op /\ k.base = call.cls /\ k.cls = call.cls /\ k.todo = Program(call.op)
      /\ k.found = NoRow /\ k.writes = <<>>
  BY DEF NoJob
<1> HIDE DEF k
<1>4. job'[r] = k /\ \A s \in Requests \ {r} : job'[s] = job[s]
  BY <1>2 DEF TypeInv
<1>5. DOMAIN k.writes = {}
  BY <1>3
<1>6. ClientJob(r)'
  <2>1. \A step : At(r, step)' <=> Program(call.op) # <<>> /\ step = Head(Program(call.op))
    BY <1>3, <1>4 DEF At
  <2>2. CASE call.op = "get"
    <3> DEFINE l == <<"lock", "find", "commit">>
    <3>1. Program(call.op) = l
      BY <2>2 DEF Program, GetOrCreateVhost
    <3>2. l \in GetLists /\ Head(l) = "lock" /\ l # <<>>
      BY DEF GetLists
    <3> HIDE DEF l
    <3>3. GetJob(r)'
      BY <1>3, <1>4, <1>5, <2>1, <3>1, <3>2 DEF GetJob
    <3> QED
      BY <1>3, <1>4, <2>2, <3>3 DEF ClientJob
  <2>3. CASE call.op = "rotate"
    <3> DEFINE l == <<"search", "save", "user", "commit">>
    <3>1. Program(call.op) = l
      BY <2>3 DEF Program, RotatePasswords
    <3>2. l \in RotateLists /\ Head(l) = "search" /\ l # <<>>
      BY DEF RotateLists
    <3> HIDE DEF l
    <3>3. RotateJob(r)'
      BY <1>3, <1>4, <1>5, <2>1, <3>1, <3>2 DEF RotateJob
    <3> QED
      BY <1>3, <1>4, <2>3, <3>3 DEF ClientJob
  <2> QED
    BY <1>1, <2>2, <2>3
<1>7. ASSUME NEW s \in Requests \ {r} PROVE ClientJob(s)'
  <2>1. ClientJob(s) /\ job'[s] = job[s]
    BY <1>4 DEF ClientState
  <2>2. ASSUME GetJob(s) PROVE GetJob(s)'
    <3> DEFINE id == job[s].writes[job[s].cls].id
    <3>1. ASSUME Fresh(s, id) PROVE Fresh(s, id)'
      <4>1. PICK n : n = id
        OBVIOUS
      <4>2. id' = n /\ n # 0
        BY <2>1, <3>1, <4>1 DEF Fresh
      <4>3. Fresh(s, n)'
        BY <1>2, <1>3, <1>4, <1>5, <3>1, <4>1, <4>2, NoRowIs DEF Fresh
      <4> QED
        BY <4>2, <4>3 DEF Fresh
    <3> QED
      BY <1>2, <2>1, <2>2, <3>1, GetJobWaits
  <2>3. ASSUME RotateJob(s) PROVE RotateJob(s)'
    BY <1>2, <2>1, <2>3, RotateJobWaits
  <2> QED
    BY <2>1, <2>2, <2>3, ClientJobWaits
<1>8. job[r].op # "rotate"
  BY <1>2, NoJobIs
<1>9. \A c \in Classifiers : ClientRow(c)'
  BY <1>2, <1>4, <1>8, RotatedStays DEF ClientState, ClientRow, User, IsRow
<1> QED
  BY <1>2, <1>3, <1>4, <1>5, <1>6, <1>7, <1>9 DEF ClientState

LEMMA ClientInit == Init => ClientState
<1> SUFFICES ASSUME Init PROVE ClientState
  OBVIOUS
<1>1. \A r \in Requests : job[r] = NoJob
  BY DEF Init
<1>2. \A r \in Requests : ClientJob(r) /\ DOMAIN job[r].writes = {}
  BY <1>1, NoJobIs DEF ClientJob
<1> DEFINE first == [NoRow EXCEPT !.id = 1, !.pass = 1]
<1>3. DOMAIN first = RowFields /\ first.id = 1 /\ first.inst = Default
  BY NoRowIs DEF RowFields
<1>4. \A c \in Classifiers : regs[c] = NoRow \/ (regs[c] = first /\ c = "origin")
  BY DEF Init
<1> HIDE DEF first
<1>5. ASSUME NEW c \in Classifiers, regs[c] # NoRow
      PROVE  IsRow(regs[c]) /\ regs[c].id # 0 /\ regs[c].inst = Default /\ c = "origin"
  BY <1>3, <1>4, <1>5 DEF IsRow
<1>6. \A c \in Classifiers : regs[c] # NoRow => <<Default, c>> \in vhosts /\ User(regs[c]) \in users
  BY DEF Init
<1>7. \A c \in Classifiers : ClientRow(c)
  BY <1>5, <1>6 DEF ClientRow
<1>8. ASSUME NEW c \in Classifiers, NEW d \in Classifiers, regs[c].id = regs[d].id, regs[c] # NoRow
      PROVE  c = d
  <2>1. regs[d] # NoRow
    BY <1>5, <1>8, NoRowIs
  <2> QED
    BY <1>5, <1>8, <2>1
<1> QED
  BY <1>2, <1>7, <1>8 DEF ClientState

\* Nothing has failed before if nothing has failed now.
LEMMA UntouchedBefore ==
    ASSUME TypeInv, [Next]_vars, Untouched'
    PROVE  /\ Untouched /\ load' = load /\ ~Lose
           /\ \A r \in Requests : ~Fail(r)
<1>1. CASE UNCHANGED vars
  BY <1>1 DEF vars, Untouched, Lose, Fail, TypeInv
<1>2. CASE Next
  <2>1. ~Lose /\ \A r \in Requests : ~Fail(r)
    BY DEF Lose, Fail, Untouched, TypeInv
  <2>2. ASSUME NEW r \in Requests, Step(r) PROVE failures' = failures /\ lost' = lost /\ load' = load
    <3>1. \/ Lock(r) \/ Commit(r) \/ Search(r) \/ Find(r) \/ Insert(r) \/ PutVhost(r) \/ PutUser(r)
          \/ Save(r) \/ DropShovels(r) \/ DropUser(r) \/ DropVhost(r) \/ Unregister(r)
          => failures' = failures /\ lost' = lost /\ load' = load
      BY DEF Lock, Commit, Search, Find, Insert, PutVhost, PutUser, Save, DropShovels, DropUser, DropVhost,
             Unregister, Abort, Rest
    <3>2. \/ Denied(r) \/ DeleteEntities(r) \/ Exchanges(r) \/ LazyBindings(r) \/ Queues(r) \/ Bindings(r)
          => failures' = failures /\ lost' = lost /\ load' = load
      BY DEF Denied, Abort, DeleteEntities, Exchanges, LazyBindings, Queues, Bindings, StoreEntities, Rest
    <3>3. \/ Collect(r) \/ Exported(r) \/ ExportQueues(r) \/ ExportExchanges(r) \/ Prune(r) \/ PruneShovels(r)
          \/ Bind(r) \/ Unbind(r)
          => failures' = failures /\ lost' = lost /\ load' = load
      BY DEF Collect, Exported, ExportQueues, ExportExchanges, Prune, PruneShovels, Bind, Unbind, Export, Switch,
             Rest
    <3> QED
      BY <2>2, <3>1, <3>2, <3>3 DEF Step
  <2>3. ASSUME NEW r \in Requests, NEW c \in Load.calls, Submit(r, c) \/ SubmitBg(r, c)
        PROVE  failures' = failures /\ lost' = lost /\ load' = load
    BY <2>3 DEF Submit, SubmitBg
  <2> QED
    BY <1>2, <2>1, <2>2, <2>3 DEF Next, Untouched
<1> QED
  BY <1>1, <1>2

LEMMA NextKeepsClients == TypeInv /\ ClientInv /\ [Next]_vars => ClientInv'
<1> SUFFICES ASSUME TypeInv, ClientInv, [Next]_vars, Untouched', Clients' PROVE ClientState'
  BY DEF ClientInv
<1>1. Untouched /\ load' = load /\ ~Lose /\ \A r \in Requests : ~Fail(r)
  BY UntouchedBefore
<1>2. Clients
  BY <1>1 DEF Clients, Load
<1>3. ClientState
  BY <1>1, <1>2 DEF ClientInv
<1>4. CASE UNCHANGED vars
  BY <1>3, <1>4 DEF vars, ClientState, ClientJob, GetJob, RotateJob, Fresh, ClientRow, Rotated, At, User, IsRow
<1>5. ASSUME NEW r \in Requests, Step(r) PROVE ClientState'
  <2>1. ClientJob(r)
    BY <1>3 DEF ClientState
  <2>2. Lock(r) \/ Commit(r) \/ Search(r) \/ Find(r) \/ Insert(r) \/ PutVhost(r) \/ PutUser(r) \/ Save(r)
    BY <1>5, <2>1, ClientStep
  <2> QED
    BY <1>3, <2>2, LockKeepsClients, CommitKeepsClients, SearchKeepsClients, FindKeepsClients, InsertKeepsClients,
       PutVhostKeepsClients, PutUserKeepsClients, SaveKeepsClients
<1>6. ASSUME NEW r \in Requests, NEW c \in Load.calls, Submit(r, c) \/ SubmitBg(r, c) PROVE ClientState'
  BY <1>2, <1>3, <1>6, SubmitKeepsClients
<1> QED
  BY <1>1, <1>4, <1>5, <1>6 DEF Next

\* For every load: the fields of rows, vhosts and requests, and that there are
\* finitely many users and things on the brokers, so that a user name or password
\* that is made up is a new one (FreshIs).
THEOREM Typed == Spec => []TypeInv
BY TypeInit, NextKeepsTypes, PTL DEF Spec

\* In production mode, where clients only get registrations and rotate
\* passwords, any number of them at once with any instances and designators:
\* a client that gets a registration can open its vhost.
THEOREM ClientsOpen == Spec => [](Clients => ProdRegistrationOpens)
<1>1. Init => ClientInv
  BY ClientInit DEF ClientInv
<1>2. TypeInv /\ ClientInv => (Clients => ProdRegistrationOpens)
  <2> SUFFICES ASSUME ClientInv, Clients, Untouched, NEW c \in Classifiers, regs[c] # NoRow, Settled(c)
               PROVE  <<regs[c].inst, c>> \in vhosts /\ User(regs[c]) \in users
    BY DEF ProdRegistrationOpens
  <2>1. ClientState
    BY DEF ClientInv
  <2>2. ~Rotated(c)
    BY <2>1 DEF Rotated, Settled, Active, ClientState, ClientJob
  <2> QED
    BY <2>1, <2>2 DEF ClientState, ClientRow
<1> QED
  BY <1>1, <1>2, TypeInit, NextKeepsTypes, NextKeepsClients, PTL DEF Spec

=============================================================================
