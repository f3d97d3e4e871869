---------------------------- MODULE BgTopicsProofs ----------------------------
(***************************************************************************)
(* Topics under the operations of a blue-green domain, for every set of    *)
(* names, whatever services declare of them, and any number of failed      *)
(* operations: what the namespaces find, what a warm-up has copied, and    *)
(* which topics are on Kafka.                                              *)
(***************************************************************************)
EXTENDS BgTopics, TLAPS

-----------------------------------------------------------------------------
(* The inductive invariant                                                 *)

\* What the unique keys of the two tables and the name resolution promise of
\* rows and the claims that lead to them, committed or not. A versioned topic
\* of a steady name has one classifier, and unless the name is fixed the topic
\* is called like it.
Sound(rows, links) ==
    /\ \A r, s \in rows : r.cls = s.cls \/ r.topic = s.topic => r = s
    /\ \A c, d \in links : c[1] = d[1] => c = d
    /\ \A c \in links : NameOf(c[1]) = NameOf(c[2]) /\ \E r \in rows : r.cls = c[2]
    /\ \A r \in rows :
          /\ r.topic[1] = NameOf(r.cls)
          /\ r.versioned \in Flags[NameOf(r.cls)]
          /\ <<r.cls, r.cls>> \in links
          /\ Steady(r) /\ r.versioned =>
                /\ NameOf(r.cls) \notin Fixed => r.topic = r.cls
                /\ \A c \in links : c[2] = r.cls => c[1] = r.cls

\* The transaction has rows and claims of the names that it has touched.
OfTouched ==
    /\ \A r \in job.regs : NameOf(r.cls) \in job.touched
    /\ \A c \in job.claims : NameOf(c[1]) \in job.touched

TypeInv ==
    /\ bound \in BOOLEAN
    /\ recorded \in Roles /\ roles \in Roles
    /\ regs \subseteq Row /\ claims \subseteq Claims /\ kafka \subseteq Topics
    /\ job \in Job
    /\ losses \in 0..MaxLosses

RolesAllow(op, ns) ==
    /\ roles[Other(ns)] = "active"
    /\ roles[ns] \in CASE op = "warmup"   -> {"idle"}
                       [] op = "promote"  -> {"candidate"}
                       [] op = "rollback" -> {"legacy"}
                       [] op = "commit"   -> {"candidate", "legacy"}
                       [] op = "destroy"  -> {"idle"}
                       [] OTHER           -> {}

StepsOf(op) ==
    CASE op = "none"    -> {"none"}
      [] op = "warmup"  -> {"validate", "clone", "list", "copy", "save", "failed"}
      [] op = "commit"  -> {"validate", "list", "drop", "save", "failed"}
      [] op = "cleanup" -> {"list", "drop", "save", "failed"}
      [] op = "destroy" -> {"validate", "check", "save", "failed"}
      [] OTHER          -> {"validate", "save", "failed"}

Deletes == job.op \in {"commit", "cleanup"}

\* The operation in progress: what it was requested with, its steps, and what
\* it has in hand at them.
JobInv ==
    /\ job.step \in StepsOf(job.op)
    /\ job.op \in BgOperations => RolesAllow(job.op, job.ns) /\ job.to = Requested(job.op, job.ns)
    /\ job.op = "cleanup" => job.to = roles
    /\ job.op \in BgOperations \ {"destroy"} => bound
    /\ job.left \subseteq job.listed
    /\ job.step \notin {"copy", "drop", "save"} => job.listed = {}
    /\ job.step = "save" => job.left = {}
    /\ job.step \notin {"copy", "drop", "save"} /\ ~(job.op = "warmup" /\ job.step = "list") =>
          job.touched = {} /\ job.regs = {} /\ job.claims = {}

BothLive(state) == \A ns \in Namespaces : state[ns] # "idle"

SeesAll(rows, links) ==
    \A r \in rows : Steady(r) /\ ~r.versioned => {<<r.cls, r.cls>>, <<Sibling(r.cls), r.cls>>} \subseteq links

WarmingUp == job.op = "warmup" /\ job.step \in {"list", "copy", "save"}

\* Once a warm-up has added the missing claims, until a commit is over, every
\* unversioned topic is found from both namespaces: in the tables once the
\* warm-up is stored, and as its transaction sees them before that.
DomainSees ==
    /\ BothLive(recorded) \/ BothLive(roles) => bound /\ SeesAll(regs, claims)
    /\ BothLive(recorded) \/ BothLive(roles) \/ WarmingUp => SeesAll(ViewRegs, ViewClaims)

\* The rows that the operation in progress will find when it looks for topics
\* to delete.
Doomed(r) ==
    \/ job.op = "commit" /\ r.versioned /\ r \in InNamespace(regs, claims, NotActiveOf(job.to))
    \/ job.op = "cleanup" /\ r \in InNamespace(regs, claims, job.ns)

\* Only topics that the operation is to delete may be missing on Kafka; as its
\* transaction sees the tables, only those it has not come to yet.
TopicsThere ==
    /\ \A r \in regs : Steady(r) /\ r.topic \notin kafka => Doomed(r)
    /\ \A r \in ViewRegs : Steady(r) /\ r.topic \notin kafka =>
          Deletes /\ (job.step \in {"drop", "save"} => r \in job.left)
    /\ Deletes => /\ ViewRegs \subseteq regs
                  /\ \A r \in job.listed : /\ r.topic[1] = NameOf(r.cls)
                                           /\ Steady(r) => r \in regs /\ Doomed(r)

HasCopy(r) ==
    \E s \in ViewRegs :
        /\ s.cls = <<NameOf(r.cls), NotActiveOf(job.to)>>
        /\ s.topic = s.cls /\ s.topic \in kafka

\* The versioned topics of the active namespace, and the copies of those that
\* the warm-up has come to.
Copied ==
    job.op = "warmup" =>
        \A r \in job.listed :
            /\ r.versioned /\ TRUE \in Flags[NameOf(r.cls)]
            /\ Steady(r) => /\ r.cls = <<NameOf(r.cls), ActiveOf(job.to)>>
                            /\ NameOf(r.cls) \notin Fixed => r.topic = r.cls
                            /\ r \notin job.left => NameOf(r.cls) \notin Fixed /\ HasCopy(r)

IInv ==
    /\ TypeInv
    /\ Sound(regs, claims)
    /\ OfTouched /\ Sound(ViewRegs, ViewClaims)
    /\ JobInv
    /\ DomainSees
    /\ TopicsThere
    /\ Copied

-----------------------------------------------------------------------------
(* Classifiers, rows and claims                                            *)

\* A classifier is a name and a namespace, and there are two of each name.
LEMMA ClassifierFacts ==
    ASSUME NEW c \in Classifiers
    PROVE  /\ NameOf(c) \in Names /\ NamespaceOf(c) \in Namespaces
           /\ c = <<NameOf(c), NamespaceOf(c)>>
           /\ Sibling(c) \in Classifiers /\ Sibling(c) # c
           /\ NameOf(Sibling(c)) = NameOf(c)
           /\ NamespaceOf(Sibling(c)) = Other(NamespaceOf(c))
           /\ Other(NamespaceOf(c)) # NamespaceOf(c) /\ Other(NamespaceOf(c)) \in Namespaces
           /\ \A d \in Classifiers : NameOf(d) = NameOf(c) => d = c \/ d = Sibling(c)
  BY BgAssumption DEF Classifiers, Namespaces, NameOf, NamespaceOf, Sibling, Other

\* A row that is registered with claims of its own, as GetOrCreateTopic and a
\* warm-up do it, keeps the tables sound.
LEMMA SoundAdd ==
    ASSUME NEW rows \in SUBSET Row, NEW links \in SUBSET Claims, Sound(rows, links),
           NEW c \in Classifiers, NEW t \in Topics, NEW v \in BOOLEAN, NEW new \in SUBSET Claims,
           t[1] = NameOf(c), v \in Flags[NameOf(c)], v /\ NameOf(c) \notin Fixed => t = c,
           <<c, c>> \in new, v => new = {<<c, c>>},
           \A n \in new : n[2] = c /\ NameOf(n[1]) = NameOf(c) /\ ~Claimed(links, n[1]),
           \A m, n \in new : m[1] = n[1] => m = n,
           ~Taken(rows, [cls |-> c, topic |-> t, versioned |-> v])
    PROVE  Sound(rows \cup {[cls |-> c, topic |-> t, versioned |-> v]}, links \cup new)
  <1> DEFINE row == [cls |-> c, topic |-> t, versioned |-> v]
  <1>1. row.cls = c /\ row.topic = t /\ row.versioned = v
    OBVIOUS
  <1>2. \A r \in rows : r.cls # c /\ r.topic # t
    BY DEF Taken
  <1>3. \A d \in links : d[2] # c
    BY <1>2 DEF Sound
  <1>4. \A d \in links, n \in new : d[1] # n[1]
    <2> SUFFICES ASSUME NEW d \in links, NEW n \in new, d[1] = n[1] PROVE FALSE
      OBVIOUS
    <2>1. d = <<d[1], d[2]>> /\ d[2] \in Classifiers
      BY DEF Claims
    <2> QED
      BY <2>1 DEF Claimed
  <1> HIDE DEF row
  <1>5. \A r, s \in rows \cup {row} : r.cls = s.cls \/ r.topic = s.topic => r = s
    BY <1>1, <1>2 DEF Sound
  <1>6. \A d, e \in links \cup new : d[1] = e[1] => d = e
    BY <1>4 DEF Sound
  <1>7. \A d \in links \cup new : NameOf(d[1]) = NameOf(d[2]) /\ \E r \in rows \cup {row} : r.cls = d[2]
    BY <1>1 DEF Sound
  <1>8. ASSUME NEW r \in rows \cup {row}
        PROVE  /\ r.topic[1] = NameOf(r.cls)
               /\ r.versioned \in Flags[NameOf(r.cls)]
               /\ <<r.cls, r.cls>> \in links \cup new
               /\ Steady(r) /\ r.versioned =>
                     /\ NameOf(r.cls) \notin Fixed => r.topic = r.cls
                     /\ \A d \in links \cup new : d[2] = r.cls => d[1] = r.cls
    <2>1. CASE r = row
      BY <2>1, <1>1, <1>3 DEF Sound
    <2>2. CASE r \in rows
      BY <2>2, <1>2 DEF Sound
    <2> QED
      BY <2>1, <2>2
  <1>9. Sound(rows \cup {row}, links \cup new)
    BY <1>5, <1>6, <1>7, <1>8 DEF Sound
  <1> QED
    BY <1>9 DEF row

\* So does another versioned flag, where services do not agree about it.
LEMMA SoundFlip ==
    ASSUME NEW rows \in SUBSET Row, NEW links \in SUBSET Claims, Sound(rows, links),
           NEW r \in rows, ~Steady(r), NEW v \in BOOLEAN
    PROVE  Sound((rows \ {r}) \cup {[r EXCEPT !.versioned = v]}, links)
  <1> DEFINE row == [r EXCEPT !.versioned = v]
  <1>1. row.cls = r.cls /\ row.topic = r.topic /\ row.versioned = v
    BY DEF Row
  <1>2. Flags[NameOf(row.cls)] = BOOLEAN
    BY <1>1 DEF Steady
  <1> HIDE DEF row
  <1> DEFINE rows2 == (rows \ {r}) \cup {row}
  <1>3. \A s, u \in rows2 : s.cls = u.cls \/ s.topic = u.topic => s = u
    BY <1>1 DEF Sound
  <1>4. \A d \in links : NameOf(d[1]) = NameOf(d[2]) /\ \E s \in rows2 : s.cls = d[2]
    BY <1>1 DEF Sound
  <1>5. ASSUME NEW s \in rows2
        PROVE  /\ s.topic[1] = NameOf(s.cls)
               /\ s.versioned \in Flags[NameOf(s.cls)]
               /\ <<s.cls, s.cls>> \in links
               /\ Steady(s) /\ s.versioned =>
                     /\ NameOf(s.cls) \notin Fixed => s.topic = s.cls
                     /\ \A d \in links : d[2] = s.cls => d[1] = s.cls
    <2>1. CASE s = row
      BY <2>1, <1>1, <1>2 DEF Sound, Steady
    <2>2. CASE s \in rows
      BY <2>2 DEF Sound
    <2> QED
      BY <2>1, <2>2
  <1>6. Sound(rows2, links)
    BY <1>3, <1>4, <1>5 DEF Sound
  <1> QED
    BY <1>6 DEF row

\* And the claims that a warm-up adds, if nobody else has them.
LEMMA SoundClaims ==
    ASSUME regs \subseteq Row, claims \subseteq Claims, Sound(regs, claims),
           \A m \in MissingClaims : ~Claimed(claims, m[1])
    PROVE  Sound(regs, claims \cup MissingClaims)
  <1>1. \A m \in MissingClaims : \E r \in regs :
           /\ ~r.versioned /\ m[2] = r.cls /\ r.cls \in Classifiers /\ m[1] \in Classifiers
           /\ m = <<m[1], m[2]>> /\ NameOf(m[1]) = NameOf(r.cls)
           /\ <<Sibling(m[1]), r.cls>> \in claims
    <2> SUFFICES ASSUME NEW m \in MissingClaims
                 PROVE  \E r \in regs :
                          /\ ~r.versioned /\ m[2] = r.cls /\ r.cls \in Classifiers /\ m[1] \in Classifiers
                          /\ m = <<m[1], m[2]>> /\ NameOf(m[1]) = NameOf(r.cls)
                          /\ <<Sibling(m[1]), r.cls>> \in claims
      OBVIOUS
    <2>1. PICK r \in regs :
             /\ ~r.versioned /\ m[2] = r.cls /\ NameOf(m[1]) = NameOf(r.cls)
             /\ \E c \in claims : c[2] = r.cls /\ NamespaceOf(c[1]) = Other(NamespaceOf(m[1]))
      BY DEF MissingClaims
    <2>2. PICK c \in claims : c[2] = r.cls /\ NamespaceOf(c[1]) = Other(NamespaceOf(m[1]))
      BY <2>1
    <2>3. /\ c = <<c[1], c[2]>> /\ c[1] \in Classifiers
          /\ m = <<m[1], m[2]>> /\ m[1] \in Classifiers /\ r.cls \in Classifiers
      BY DEF Claims, MissingClaims, Row
    <2>4. NameOf(c[1]) = NameOf(m[1])
      BY <2>1, <2>2 DEF Sound
    <2>5. c[1] = Sibling(m[1])
      BY <2>2, <2>3, <2>4 DEF Sibling, NameOf, NamespaceOf, Classifiers
    <2> QED
      BY <2>1, <2>2, <2>3, <2>5
  <1>2. \A d \in claims, m \in MissingClaims : d[1] # m[1]
    <2> SUFFICES ASSUME NEW d \in claims, NEW m \in MissingClaims, d[1] = m[1] PROVE FALSE
      OBVIOUS
    <2>1. d = <<d[1], d[2]>> /\ d[2] \in Classifiers
      BY DEF Claims
    <2> QED
      BY <2>1 DEF Claimed
  <1>3. \A m, n \in MissingClaims : m[1] = n[1] => m = n
    <2> SUFFICES ASSUME NEW m \in MissingClaims, NEW n \in MissingClaims, m[1] = n[1] PROVE m = n
      OBVIOUS
    <2>1. m = <<m[1], m[2]>> /\ <<Sibling(m[1]), m[2]>> \in claims
      BY <1>1
    <2>2. n = <<n[1], n[2]>> /\ <<Sibling(n[1]), n[2]>> \in claims
      BY <1>1
    <2>3. m[2] = n[2]
      BY <2>1, <2>2 DEF Sound
    <2> QED
      BY <2>1, <2>2, <2>3
  <1>4. \A d, e \in claims \cup MissingClaims : d[1] = e[1] => d = e
    BY <1>2, <1>3 DEF Sound
  <1>5. \A d \in claims \cup MissingClaims : NameOf(d[1]) = NameOf(d[2]) /\ \E r \in regs : r.cls = d[2]
    BY <1>1 DEF Sound
  <1>6. ASSUME NEW r \in regs, r.versioned, NEW m \in MissingClaims PROVE m[2] # r.cls
    <2>1. PICK s \in regs : ~s.versioned /\ m[2] = s.cls
      BY <1>1
    <2>2. s.cls = r.cls => s = r
      BY DEF Sound
    <2> QED
      BY <2>1, <2>2, <1>6
  <1>7. \A r \in regs : /\ r.topic[1] = NameOf(r.cls)
                        /\ r.versioned \in Flags[NameOf(r.cls)]
                        /\ <<r.cls, r.cls>> \in claims \cup MissingClaims
                        /\ Steady(r) /\ r.versioned =>
                              /\ NameOf(r.cls) \notin Fixed => r.topic = r.cls
                              /\ \A d \in claims \cup MissingClaims : d[2] = r.cls => d[1] = r.cls
    BY <1>6 DEF Sound
  <1> QED
    BY <1>4, <1>5, <1>7 DEF Sound

\* What the transaction sees of names that it has not touched are the tables.
LEMMA UntouchedNames ==
    ASSUME OfTouched
    PROVE  /\ \A r \in regs : NameOf(r.cls) \notin job.touched => r \in ViewRegs
           /\ \A r \in ViewRegs : NameOf(r.cls) \notin job.touched => r \in regs
           /\ \A c \in claims : NameOf(c[1]) \notin job.touched => c \in ViewClaims
           /\ \A c \in ViewClaims : NameOf(c[1]) \notin job.touched => c \in claims
  BY DEF OfTouched, ViewRegs, ViewClaims, Untouched

\* Before it has touched any, the tables are all that it sees.
LEMMA FreshViews ==
    ASSUME job.touched = {}, job.regs = {}, job.claims = {}
    PROVE  ViewRegs = regs /\ ViewClaims = claims
  BY DEF ViewRegs, ViewClaims, Untouched

\* What the transaction sees has the types of the tables.
LEMMA ViewType == TypeInv => ViewRegs \subseteq Row /\ ViewClaims \subseteq Claims
  BY DEF TypeInv, Job, ViewRegs, ViewClaims, Untouched

-----------------------------------------------------------------------------
(* Services                                                                *)

\* Rows that services add or change beside an operation leave alone what it
\* relies on: of steady names they change no row, and the new ones have topics.
LEMMA GrowthKeeps ==
    ASSUME IInv, UNCHANGED <<roles, job>>, ViewRegs \subseteq regs => ViewRegs' \subseteq regs',
           kafka \subseteq kafka', claims \subseteq claims',
           \A r \in regs : Steady(r) => r \in regs',
           \A r \in regs' : Steady(r) => r \in regs \/ r.topic \in kafka',
           \A r \in ViewRegs : Steady(r) => r \in ViewRegs',
           \A r \in ViewRegs' : Steady(r) => r \in ViewRegs \/ r.topic \in kafka'
    PROVE  TopicsThere' /\ Copied'
  <1>1. \A ns, r : r \in InNamespace(regs, claims, ns) /\ Steady(r) => r \in InNamespace(regs', claims', ns)
    BY DEF InNamespace
  <1>2. \A r : Steady(r) /\ Doomed(r) => Doomed(r)'
    BY <1>1 DEF Doomed
  <1>3. TopicsThere
    BY DEF IInv
  <1>4. (\A r \in regs : Steady(r) /\ r.topic \notin kafka => Doomed(r))'
    BY <1>2, <1>3 DEF TopicsThere
  <1>5. (\A r \in ViewRegs : Steady(r) /\ r.topic \notin kafka =>
            Deletes /\ (job.step \in {"drop", "save"} => r \in job.left))'
    BY <1>3 DEF TopicsThere, Deletes
  <1>6. (Deletes => /\ ViewRegs \subseteq regs
                    /\ \A r \in job.listed : /\ r.topic[1] = NameOf(r.cls)
                                             /\ Steady(r) => r \in regs /\ Doomed(r))'
    BY <1>2, <1>3 DEF TopicsThere, Deletes
  <1>7. TopicsThere'
    BY <1>4, <1>5, <1>6 DEF TopicsThere
  <1>8. ASSUME NEW r, Steady(r), HasCopy(r) PROVE HasCopy(r)'
    <2>1. PICK s \in ViewRegs :
             /\ s.cls = <<NameOf(r.cls), NotActiveOf(job.to)>> /\ s.topic = s.cls /\ s.topic \in kafka
      BY <1>8 DEF HasCopy
    <2>2. Steady(s)
      BY <2>1, <1>8 DEF Steady, NameOf
    <2> QED
      BY <2>1, <2>2 DEF HasCopy
  <1>9. Copied'
    BY <1>8 DEF IInv, Copied
  <1> QED
    BY <1>7, <1>9

LEMMA CreateTopicInv ==
    ASSUME IInv, NEW c \in Classifiers, NEW v \in BOOLEAN, v \in Flags[NameOf(c)],
           NameOf(c) \notin job.touched, CreateTopic(c, v),
           UNCHANGED <<bound, recorded, roles, job, losses>>
    PROVE  IInv'
  <1> DEFINE row == [cls |-> c, topic |-> ResolvedTopic(c, v), versioned |-> v]
             new == NewClaims(c, v)
  <1>1. /\ regs \subseteq Row /\ claims \subseteq Claims /\ Sound(regs, claims) /\ OfTouched
        /\ ViewRegs \subseteq Row /\ ViewClaims \subseteq Claims /\ Sound(ViewRegs, ViewClaims)
    BY ViewType DEF IInv, TypeInv
  <1>2. /\ ~Taken(regs, row) /\ \A n \in new : ~Claimed(claims, n[1])
        /\ regs' = regs \cup {row} /\ claims' = claims \cup new
        /\ kafka' = kafka \cup {row.topic}
    BY DEF CreateTopic
  <1>3. /\ ResolvedTopic(c, v) \in Topics /\ ResolvedTopic(c, v)[1] = NameOf(c)
        /\ v /\ NameOf(c) \notin Fixed => ResolvedTopic(c, v) = c
    BY ClassifierFacts DEF ResolvedTopic, Topics, Namespaces
  <1>4. /\ new \in SUBSET Claims /\ <<c, c>> \in new /\ (v => new = {<<c, c>>})
        /\ \A n \in new : n[2] = c /\ NameOf(n[1]) = NameOf(c)
        /\ \A m, n \in new : m[1] = n[1] => m = n
        /\ ~v /\ bound => new = {<<c, c>>, <<Sibling(c), c>>}
    BY ClassifierFacts DEF NewClaims, Claims
  <1>5. row \in Row /\ row.cls = c /\ row.topic = ResolvedTopic(c, v) /\ row.versioned = v
    BY <1>3 DEF Row
  <1>6. Sound(regs', claims')
    BY <1>1, <1>2, <1>3, <1>4, SoundAdd
  <1>7. ViewRegs' = ViewRegs \cup {row} /\ ViewClaims' = ViewClaims \cup new
    <2> HIDE DEF row, new
    <2> QED
      BY <1>2, <1>4, <1>5 DEF ViewRegs, ViewClaims, Untouched
  <1>8. ~Taken(ViewRegs, row)
    <2> SUFFICES ASSUME NEW s \in ViewRegs, s.cls = c \/ s.topic = row.topic PROVE FALSE
      BY <1>5 DEF Taken
    <2>1. NameOf(s.cls) = NameOf(c)
      BY <1>1, <1>3, <1>5 DEF Sound
    <2>2. s \in regs
      BY <2>1, <1>1, UntouchedNames
    <2> QED
      BY <2>2, <1>2, <1>5 DEF Taken
  <1>9. \A n \in new : ~Claimed(ViewClaims, n[1])
    <2> SUFFICES ASSUME NEW n \in new, NEW r \in Classifiers, <<n[1], r>> \in ViewClaims PROVE FALSE
      BY DEF Claimed
    <2>1. NameOf(n[1]) \notin job.touched
      BY <1>4
    <2>2. <<n[1], r>> \in claims
      BY <2>1, <1>1, UntouchedNames
    <2> QED
      BY <2>2, <1>2 DEF Claimed
  <1>10. Sound(ViewRegs', ViewClaims')
    BY <1>1, <1>7, <1>8, <1>9, <1>3, <1>4, SoundAdd
  <1> HIDE DEF row, new
  <1>11. TypeInv'
    <2>1. kafka' \subseteq Topics
      BY <1>2, <1>3, <1>5 DEF IInv, TypeInv
    <2> QED
      BY <1>1, <1>2, <1>4, <1>5, <2>1 DEF IInv, TypeInv
  <1>12. OfTouched' /\ JobInv'
    BY DEF IInv, OfTouched, JobInv, RolesAllow, Requested
  <1>13. bound => \A rows, links : SeesAll(rows, links) => SeesAll(rows \cup {row}, links \cup new)
    BY <1>4, <1>5 DEF SeesAll
  <1>14. WarmingUp => bound
    BY DEF IInv, JobInv, WarmingUp, BgOperations
  <1>15. DomainSees'
    BY <1>13, <1>14, <1>2, <1>7 DEF IInv, DomainSees, WarmingUp
  <1>16. TopicsThere' /\ Copied'
    BY <1>2, <1>7, GrowthKeeps
  <1> QED
    BY <1>6, <1>10, <1>11, <1>12, <1>15, <1>16 DEF IInv

\* Only a flag that services do not agree about is changed.
LEMMA UpdateTopicInv ==
    ASSUME IInv, NEW c \in Classifiers, NEW v \in BOOLEAN, v \in Flags[NameOf(c)],
           NameOf(c) \notin job.touched, UpdateTopic(c, v),
           UNCHANGED <<bound, recorded, roles, job, losses>>
    PROVE  IInv'
  <1>1. /\ regs \subseteq Row /\ claims \subseteq Claims /\ Sound(regs, claims) /\ OfTouched
        /\ ViewRegs \subseteq Row /\ ViewClaims \subseteq Claims /\ Sound(ViewRegs, ViewClaims)
    BY ViewType DEF IInv, TypeInv
  <1>2. PICK r \in Matches(regs, claims, c) :
           /\ r.versioned # v
           /\ regs' = (regs \ {r}) \cup {[r EXCEPT !.versioned = v]}
    BY DEF UpdateTopic
  <1> DEFINE row == [r EXCEPT !.versioned = v]
  <1>3. r \in regs /\ NameOf(r.cls) = NameOf(c) /\ r.versioned \in Flags[NameOf(c)]
    BY <1>1, <1>2 DEF Matches, Sound
  <1>4. ~Steady(r)
    BY <1>2, <1>3, <1>1, BgAssumption DEF Steady, Row, Classifiers, NameOf
  <1>5. row \in Row /\ row.cls = r.cls /\ ~Steady(row)
    BY <1>1, <1>3, <1>4 DEF Row, Steady
  <1>6. claims' = claims /\ kafka' = kafka
    BY DEF UpdateTopic
  <1>7. Sound(regs', claims')
    BY <1>1, <1>2, <1>3, <1>4, <1>6, SoundFlip
  <1>8. r \in ViewRegs /\ r \notin job.regs
    BY <1>1, <1>3, UntouchedNames DEF OfTouched
  <1>9. ViewRegs' = (ViewRegs \ {r}) \cup {row} /\ ViewClaims' = ViewClaims
    <2> HIDE DEF row
    <2>1. regs' = (regs \ {r}) \cup {row}
      BY <1>2 DEF row
    <2> QED
      BY <2>1, <1>3, <1>5, <1>6, <1>8 DEF ViewRegs, ViewClaims, Untouched
  <1>10. Sound(ViewRegs', ViewClaims')
    BY <1>1, <1>8, <1>4, <1>9, SoundFlip
  <1>11. regs' = (regs \ {r}) \cup {row}
    BY <1>2
  <1> HIDE DEF row
  <1>12. TypeInv'
    BY <1>1, <1>3, <1>5, <1>6, <1>11 DEF IInv, TypeInv
  <1>13. OfTouched' /\ JobInv'
    BY DEF IInv, OfTouched, JobInv, RolesAllow, Requested
  <1>14. \A rows, links : SeesAll(rows, links) => SeesAll((rows \ {r}) \cup {row}, links)
    BY <1>5 DEF SeesAll
  <1>15. DomainSees'
    BY <1>14, <1>6, <1>9, <1>11 DEF IInv, DomainSees, WarmingUp
  <1>16. TopicsThere' /\ Copied'
    BY <1>4, <1>5, <1>6, <1>9, <1>11, GrowthKeeps
  <1> QED
    BY <1>7, <1>10, <1>12, <1>13, <1>15, <1>16 DEF IInv

-----------------------------------------------------------------------------
(* Requests, and the steps of an operation that write nothing              *)

\* The fields of a job that is over or has failed.
LEMMA JobFields ==
    ASSUME TypeInv
    PROVE  /\ NoJob.op = "none" /\ NoJob.step = "none" /\ NoJob.left = {} /\ NoJob.listed = {}
           /\ NoJob.touched = {} /\ NoJob.regs = {} /\ NoJob.claims = {} /\ NoJob \in Job
           /\ Failed.op = job.op /\ Failed.step = "failed" /\ Failed.to = job.to /\ Failed.ns = job.ns
           /\ Failed.left = {} /\ Failed.listed = {}
           /\ Failed.touched = {} /\ Failed.regs = {} /\ Failed.claims = {} /\ Failed \in Job
  <1>1. NoJob \in Job
    BY DEF NoJob, Job, Unknown, Roles, Namespaces, Steps
  <1>2. job \in Job
    BY DEF TypeInv
  <1>3. Failed \in Job
    BY <1>1, <1>2 DEF Failed, Job, Steps
  <1> QED
    BY <1>1, <1>3 DEF NoJob, Failed

\* An operation that has changed nothing so far, for which the same topics are
\* doomed as before, or none are missing.
LEMMA FreshJob ==
    ASSUME IInv, UNCHANGED <<recorded, roles, regs, claims, kafka>>, bound => bound',
           TypeInv', JobInv', ~WarmingUp', Deletes' => job'.step \notin {"drop", "save"},
           job'.touched = {}, job'.regs = {}, job'.claims = {}, job'.listed = {},
           ~Deletes \/ (job'.op = job.op /\ job'.to = job.to /\ job'.ns = job.ns)
    PROVE  IInv'
  <1>1. ViewRegs' = regs /\ ViewClaims' = claims
    BY DEF ViewRegs, ViewClaims, Untouched
  <1>2. Sound(regs', claims') /\ OfTouched' /\ Sound(ViewRegs', ViewClaims')
    BY <1>1 DEF IInv, OfTouched
  <1>3. DomainSees'
    BY <1>1 DEF IInv, DomainSees
  <1>4. ASSUME NEW r \in regs, Steady(r), r.topic \notin kafka PROVE Doomed(r)' /\ Deletes'
    <2>1. Doomed(r)
      BY <1>4 DEF IInv, TopicsThere
    <2>2. Deletes
      BY <2>1 DEF Doomed, Deletes
    <2> QED
      BY <2>1, <2>2 DEF Doomed, Deletes
  <1>5. TopicsThere'
    BY <1>1, <1>4 DEF TopicsThere
  <1>6. Copied'
    BY DEF Copied
  <1> QED
    BY <1>2, <1>3, <1>5, <1>6 DEF IInv

LEMMA InitDomainInv == IInv /\ InitDomain => IInv'
  <1> SUFFICES ASSUME IInv, InitDomain PROVE IInv'
    OBVIOUS
  <1>1. job' = job /\ job.op = "none" /\ job.step = "none"
    BY DEF InitDomain, IInv, JobInv, StepsOf
  <1>2. job.touched = {} /\ job.regs = {} /\ job.claims = {} /\ job.listed = {}
    BY <1>1 DEF IInv, JobInv
  <1>3. TypeInv'
    BY DEF InitDomain, IInv, TypeInv
  <1>4. JobInv'
    BY <1>1 DEF InitDomain, IInv, JobInv, BgOperations
  <1> QED
    BY <1>1, <1>2, <1>3, <1>4, FreshJob DEF InitDomain, WarmingUp, Deletes

LEMMA RequestInv ==
    ASSUME IInv, NEW op \in Operations, NEW ns \in Namespaces, Request(op, ns)
    PROVE  IInv'
  <1>1. op \in BgOperations \cup {"cleanup"}
    BY BgAssumption
  <1>2. Requested(op, ns) \in Roles
    BY DEF Requested, IInv, TypeInv, Roles, Namespaces, Other
  <1>3. /\ job' \in Job /\ job'.op = op /\ job'.step = FirstStep(op) /\ job'.ns = ns
        /\ job'.to = Requested(op, ns) /\ job'.left = {} /\ job'.listed = {}
        /\ job'.touched = {} /\ job'.regs = {} /\ job'.claims = {}
    <2>1. NoJob \in Job
      BY JobFields DEF IInv
    <2>2. job' = [NoJob EXCEPT !.op = op, !.step = FirstStep(op), !.ns = ns, !.to = Requested(op, ns)]
      BY DEF Request
    <2>3. FirstStep(op) \in Steps
      BY DEF FirstStep, Steps
    <2> QED
      BY <2>1, <2>2, <2>3, <1>1, <1>2 DEF Job, NoJob
  <1>4. TypeInv'
    BY <1>3 DEF Request, IInv, TypeInv
  <1>5. op \in BgOperations => bound /\ RolesAllow(op, ns)'
    BY DEF Request, Allowed, BgOperations, RolesAllow
  <1>6. JobInv'
    <2>1. job'.step \in StepsOf(op)
      BY <1>1, <1>3 DEF FirstStep, StepsOf, BgOperations
    <2>2. op = "cleanup" => Requested(op, ns) = roles
      BY DEF Requested
    <2>3. Requested(op, ns)' = Requested(op, ns)
      BY DEF Request, Requested
    <2>4. job'.step \in {"list", "validate"} /\ (op = "warmup" => job'.step = "validate")
      BY <1>3 DEF FirstStep
    <2> QED
      BY <2>1, <2>2, <2>3, <2>4, <1>3, <1>5 DEF JobInv, Request
  <1>7. job.op = "none"
    BY DEF Request
  <1> QED
    BY <1>3, <1>4, <1>6, <1>7, FreshJob DEF Request, WarmingUp, Deletes, FirstStep

LEMMA RetryInv == IInv /\ Retry => IInv'
  <1> SUFFICES ASSUME IInv, Retry PROVE IInv'
    OBVIOUS
  <1>1. job \in Job /\ job.step = "failed"
    BY DEF IInv, TypeInv, Retry
  <1>2. /\ job' \in Job /\ job'.op = job.op /\ job'.step = FirstStep(job.op) /\ job'.ns = job.ns
        /\ job'.to = job.to /\ job'.left = job.left /\ job'.listed = job.listed
        /\ job'.touched = job.touched /\ job'.regs = job.regs /\ job'.claims = job.claims
    BY <1>1 DEF Retry, FirstStep, Job, Steps
  <1>3. job.listed = {} /\ job.touched = {} /\ job.regs = {} /\ job.claims = {}
    BY <1>1 DEF IInv, JobInv
  <1>4. TypeInv'
    BY <1>2 DEF Retry, IInv, TypeInv
  <1>5. JobInv'
    <2>1. job'.step \in StepsOf(job.op)
      BY <1>1, <1>2 DEF IInv, JobInv, FirstStep, StepsOf, Job, BgOperations
    <2>2. job'.step \in {"list", "validate"} /\ (job.op = "warmup" => job'.step = "validate")
      BY <1>2 DEF FirstStep
    <2>3. roles' = roles /\ bound' = bound
      BY DEF Retry
    <2> QED
      BY <1>2, <1>3, <2>1, <2>2, <2>3 DEF IInv, JobInv, RolesAllow, Requested
  <1> QED
    BY <1>2, <1>3, <1>4, <1>5, FreshJob DEF Retry, WarmingUp, Deletes, FirstStep

\* The transaction is rolled back, whatever it has done to the tables.
LEMMA FailedInv ==
    ASSUME IInv, job' = Failed, job.op # "none", losses' \in 0..MaxLosses,
           UNCHANGED <<bound, recorded, roles, regs, claims, kafka>>
    PROVE  IInv'
  <1>1. /\ job' \in Job /\ job'.op = job.op /\ job'.step = "failed" /\ job'.ns = job.ns
        /\ job'.to = job.to /\ job'.left = {} /\ job'.listed = {}
        /\ job'.touched = {} /\ job'.regs = {} /\ job'.claims = {}
    BY JobFields DEF IInv
  <1>2. TypeInv'
    BY <1>1 DEF IInv, TypeInv
  <1>3. "failed" \in StepsOf(job.op)
    BY DEF StepsOf
  <1>4. JobInv'
    BY <1>1, <1>3 DEF IInv, JobInv, RolesAllow, Requested
  <1> QED
    BY <1>1, <1>2, <1>4, FreshJob DEF WarmingUp, Deletes

\* An operation that is refused is over.
LEMMA RefusedInv ==
    ASSUME IInv, job' = NoJob, ~Deletes,
           UNCHANGED <<bound, recorded, roles, regs, claims, kafka, losses>>
    PROVE  IInv'
  <1>1. /\ job' \in Job /\ job'.op = "none" /\ job'.step = "none" /\ job'.left = {} /\ job'.listed = {}
        /\ job'.touched = {} /\ job'.regs = {} /\ job'.claims = {}
    BY JobFields DEF IInv
  <1>2. TypeInv'
    BY <1>1 DEF IInv, TypeInv
  <1>3. JobInv'
    BY <1>1 DEF JobInv, StepsOf, BgOperations
  <1> QED
    BY <1>1, <1>2, <1>3, FreshJob DEF WarmingUp, Deletes

LEMMA LoseInv == IInv /\ Lose => IInv'
  <1> SUFFICES ASSUME IInv, Lose PROVE IInv'
    OBVIOUS
  <1>1. job.op # "none"
    BY DEF IInv, JobInv, StepsOf, Lose
  <1>2. losses' \in 0..MaxLosses
    BY BgAssumption DEF IInv, TypeInv, Lose
  <1> QED
    BY <1>1, <1>2, FailedInv DEF Lose

\* An operation that goes on to its next step with nothing done yet.
LEMMA FirstStepsInv ==
    ASSUME IInv, NEW step \in StepsOf(job.op) \ {"none"}, job' = [job EXCEPT !.step = step],
           job.step \in {"validate", "check"}, ~WarmingUp', Deletes => step \notin {"drop", "save"},
           step # "copy",
           UNCHANGED <<bound, recorded, roles, regs, claims, kafka, losses>>
    PROVE  IInv'
  <1>1. job \in Job /\ step \in Steps
    BY DEF IInv, TypeInv, StepsOf, Steps
  <1>2. /\ job' \in Job /\ job'.op = job.op /\ job'.step = step /\ job'.ns = job.ns
        /\ job'.to = job.to /\ job'.left = job.left /\ job'.listed = job.listed
        /\ job'.touched = job.touched /\ job'.regs = job.regs /\ job'.claims = job.claims
    BY <1>1 DEF Job
  <1>3. job.listed = {} /\ job.left = {} /\ job.touched = {} /\ job.regs = {} /\ job.claims = {}
    BY DEF IInv, JobInv
  <1>4. TypeInv'
    BY <1>2 DEF IInv, TypeInv
  <1>5. JobInv'
    BY <1>2, <1>3 DEF IInv, JobInv, RolesAllow, Requested
  <1> QED
    BY <1>2, <1>3, <1>4, <1>5, FreshJob DEF Deletes

LEMMA ValidateDomainInv == IInv /\ ValidateDomain => IInv'
  <1> SUFFICES ASSUME IInv, ValidateDomain PROVE IInv'
    OBVIOUS
  <1>1. /\ job.step = "validate" /\ job.step \in StepsOf(job.op) /\ job.op \in {"none", "cleanup"} \cup BgOperations
        /\ UNCHANGED <<bound, recorded, roles, regs, claims, kafka, losses>>
    BY DEF IInv, TypeInv, JobInv, Job, ValidateDomain, Unchanged, At
  <1>2. job.op \in BgOperations
    BY <1>1 DEF StepsOf
  <1>3. CASE ~bound
    <2>1. ~Deletes
      BY <1>2, <1>3 DEF IInv, JobInv, Deletes, BgOperations
    <2>2. job' = NoJob
      BY <1>3 DEF ValidateDomain
    <2> QED
      BY <2>1, <2>2, <1>1, RefusedInv
  <1>4. CASE bound
    <2> DEFINE step == CASE job.op = "warmup"  -> "clone"
                         [] job.op = "commit"  -> "list"
                         [] job.op = "destroy" -> "check"
                         [] OTHER              -> "save"
    <2>1. job' = [job EXCEPT !.step = step]
      BY <1>4 DEF ValidateDomain
    <2>2. /\ step \in StepsOf(job.op) \ {"none"} /\ step # "copy"
          /\ job.op = "warmup" => step = "clone"
          /\ Deletes => step \notin {"drop", "save"}
      BY <1>2 DEF StepsOf, BgOperations, Deletes
    <2> HIDE DEF step
    <2>3. job'.op = job.op /\ job'.step = step
      BY <2>1 DEF IInv, TypeInv, Job
    <2>4. ~WarmingUp'
      BY <2>2, <2>3 DEF WarmingUp
    <2> QED
      BY <2>1, <2>2, <2>4, <1>1, FirstStepsInv
  <1> QED
    BY <1>3, <1>4

LEMMA CheckEmptyInv == IInv /\ CheckEmpty => IInv'
  <1> SUFFICES ASSUME IInv, CheckEmpty PROVE IInv'
    OBVIOUS
  <1>1. /\ job.step = "check" /\ job.step \in StepsOf(job.op)
        /\ UNCHANGED <<bound, recorded, roles, regs, claims, kafka, losses>>
    BY DEF IInv, JobInv, CheckEmpty, Unchanged, At
  <1>2. job.op = "destroy"
    BY <1>1 DEF StepsOf
  <1>3. CASE job' = NoJob
    BY <1>1, <1>2, <1>3, RefusedInv DEF Deletes
  <1>4. CASE job' = [job EXCEPT !.step = "save"]
    <2>1. job'.op = "destroy"
      BY <1>2, <1>4 DEF IInv, TypeInv, Job
    <2>2. "save" \in StepsOf(job.op) \ {"none"}
      BY <1>2 DEF StepsOf
    <2> QED
      BY <2>1, <2>2, <1>1, <1>2, <1>4, FirstStepsInv DEF Deletes, WarmingUp
  <1> QED
    BY <1>3, <1>4 DEF CheckEmpty

-----------------------------------------------------------------------------
(* The steps of an operation that write                                    *)

LEMMA CloneClaimsInv == IInv /\ CloneClaims => IInv'
  <1> SUFFICES ASSUME IInv, CloneClaims PROVE IInv'
    OBVIOUS
  <1> DEFINE names == {NameOf(m[1]) : m \in MissingClaims}
  <1>1. /\ job \in Job /\ job.step = "clone" /\ job.op = "warmup"
        /\ UNCHANGED <<bound, recorded, roles, regs, claims, kafka, losses>>
        /\ regs \subseteq Row /\ claims \subseteq Claims /\ Sound(regs, claims)
        /\ job.listed = {} /\ job.left = {}
    <2>1. job.step = "clone" /\ job.step \in StepsOf(job.op)
      BY DEF CloneClaims, At, IInv, JobInv
    <2> QED
      BY <2>1 DEF CloneClaims, IInv, TypeInv, JobInv, StepsOf, Unchanged
  <1>2. CASE \E m \in MissingClaims : Claimed(claims, m[1])
    <2>1. job' = Failed /\ losses' \in 0..MaxLosses
      BY <1>1, <1>2 DEF CloneClaims, IInv, TypeInv
    <2> QED
      BY <2>1, <1>1, FailedInv
  <1>3. CASE ~(\E m \in MissingClaims : Claimed(claims, m[1]))
    <2>1. /\ MissingClaims \subseteq Claims /\ names \subseteq Names
          /\ \A m \in MissingClaims : m[1] \in Classifiers /\ m[2] \in Classifiers
      BY DEF MissingClaims, Claims, Classifiers, NameOf
    <2>2. job' = [job EXCEPT !.step = "list", !.touched = names,
                             !.regs = {r \in regs : NameOf(r.cls) \in names},
                             !.claims = {c \in claims : NameOf(c[1]) \in names} \cup MissingClaims]
      BY <1>3 DEF CloneClaims
    <2>3. /\ job'.step = "list" /\ job'.op = job.op /\ job'.to = job.to /\ job'.ns = job.ns
          /\ job'.left = job.left /\ job'.listed = job.listed /\ job'.touched = names
          /\ job'.regs = {r \in regs : NameOf(r.cls) \in names}
          /\ job'.claims = {c \in claims : NameOf(c[1]) \in names} \cup MissingClaims
      BY <1>1, <2>2 DEF Job
    <2>4. job' \in Job
      <3> HIDE DEF names
      <3>1. /\ {r \in regs : NameOf(r.cls) \in names} \subseteq Row
            /\ {c \in claims : NameOf(c[1]) \in names} \cup MissingClaims \subseteq Claims
        BY <1>1, <2>1
      <3> QED
        BY <1>1, <2>1, <2>2, <3>1 DEF Job, Steps
    <2>5. \A m \in MissingClaims : NameOf(m[1]) \in names
      OBVIOUS
    <2> HIDE DEF names
    <2>6. ViewRegs' = regs /\ ViewClaims' = claims \cup MissingClaims
      BY <1>1, <2>3, <2>5 DEF ViewRegs, ViewClaims, Untouched
    <2>7. OfTouched'
      BY <2>3, <2>5 DEF OfTouched
    <2>8. Sound(ViewRegs', ViewClaims')
      BY <1>1, <1>3, <2>6, SoundClaims
    <2>9. SeesAll(ViewRegs', ViewClaims')
      <3> SUFFICES ASSUME NEW r \in regs, ~r.versioned
                   PROVE  {<<r.cls, r.cls>>, <<Sibling(r.cls), r.cls>>} \subseteq claims \cup MissingClaims
        BY <2>6 DEF SeesAll
      <3>1. r.cls \in Classifiers /\ <<r.cls, r.cls>> \in claims
        BY <1>1 DEF Row, Sound
      <3>2. /\ Sibling(r.cls) \in Classifiers /\ NameOf(Sibling(r.cls)) = NameOf(r.cls)
            /\ NamespaceOf(Sibling(r.cls)) = Other(NamespaceOf(r.cls))
            /\ NamespaceOf(r.cls) = Other(NamespaceOf(Sibling(r.cls)))
        BY <3>1, ClassifierFacts, BgAssumption DEF Other, Namespaces
      <3> DEFINE m == <<Sibling(r.cls), r.cls>>
      <3>3. ASSUME m \notin claims PROVE m \in MissingClaims
        <4>1. ASSUME NEW c \in claims, c[2] = r.cls PROVE NamespaceOf(c[1]) # NamespaceOf(Sibling(r.cls))
          <5>1. c = <<c[1], c[2]>> /\ c[1] \in Classifiers /\ NameOf(c[1]) = NameOf(r.cls)
            BY <1>1, <4>1 DEF Claims, Sound
          <5>2. c[1] # Sibling(r.cls)
            BY <5>1, <4>1, <3>3
          <5>3. c[1] = r.cls
            BY <5>1, <5>2, <3>1, ClassifierFacts
          <5> QED
            BY <5>3, <3>1, <3>2, ClassifierFacts
        <4>2. m \in Claims
          BY <3>1, <3>2 DEF Claims
        <4>3. m[1] = Sibling(r.cls) /\ m[2] = r.cls
          OBVIOUS
        <4>4. \E c \in claims : c[2] = r.cls /\ NamespaceOf(c[1]) = Other(NamespaceOf(m[1]))
          BY <3>1, <3>2
        <4> HIDE DEF m
        <4> QED
          BY <4>1, <4>2, <4>3, <4>4, <3>2 DEF MissingClaims
      <3> QED
        BY <3>1, <3>3
    <2>10. TypeInv'
      BY <1>1, <2>4 DEF IInv, TypeInv
    <2>11. JobInv'
      BY <1>1, <2>3 DEF IInv, JobInv, RolesAllow, Requested, StepsOf
    <2>12. DomainSees'
      BY <1>1, <2>9 DEF IInv, DomainSees
    <2>13. TopicsThere'
      BY <1>1, <2>3, <2>6 DEF IInv, TopicsThere, Doomed, Deletes
    <2>14. Copied'
      BY <1>1, <2>3 DEF Copied
    <2> QED
      BY <1>1, <2>7, <2>8, <2>10, <2>11, <2>12, <2>13, <2>14 DEF IInv
  <1> QED
    BY <1>2, <1>3

LEMMA ListTopicsInv == IInv /\ ListTopics => IInv'
  <1> SUFFICES ASSUME IInv, ListTopics PROVE IInv'
    OBVIOUS
  <1>1. /\ job \in Job /\ job.step = "list" /\ job.op \in {"warmup", "commit", "cleanup"}
        /\ UNCHANGED <<bound, recorded, roles, regs, claims, kafka, losses>>
        /\ ViewRegs \subseteq Row /\ ViewClaims \subseteq Claims /\ Sound(ViewRegs, ViewClaims)
    <2>1. job.step = "list" /\ job.step \in StepsOf(job.op)
      BY DEF ListTopics, At, IInv, JobInv
    <2> QED
      BY <2>1, ViewType DEF ListTopics, IInv, TypeInv, StepsOf, Unchanged
  <1>2. /\ Listed \subseteq ViewRegs
        /\ job.op = "warmup" =>
              Listed = {r \in InNamespace(ViewRegs, ViewClaims, ActiveOf(job.to)) : r.versioned}
        /\ job.op = "commit" =>
              Listed = {r \in InNamespace(ViewRegs, ViewClaims, NotActiveOf(job.to)) : r.versioned}
        /\ job.op = "cleanup" => Listed = InNamespace(ViewRegs, ViewClaims, job.ns)
    BY <1>1 DEF Listed, InNamespace
  <1>3. job' = [job EXCEPT !.left = Listed, !.listed = Listed,
                           !.step = IF job.op = "warmup" THEN "copy" ELSE "drop"]
    BY DEF ListTopics
  <1>4. /\ job' \in Job /\ job'.op = job.op /\ job'.to = job.to /\ job'.ns = job.ns
        /\ job'.step = (IF job.op = "warmup" THEN "copy" ELSE "drop")
        /\ job'.left = Listed /\ job'.listed = Listed /\ job'.touched = job.touched
        /\ job'.regs = job.regs /\ job'.claims = job.claims
    <2>1. Listed \subseteq Row
      BY <1>1, <1>2
    <2> HIDE DEF Listed
    <2> QED
      BY <1>1, <1>3, <2>1 DEF Job, Steps
  <1> HIDE DEF Listed
  <1>5. ViewRegs' = ViewRegs /\ ViewClaims' = ViewClaims /\ OfTouched'
    BY <1>1, <1>4 DEF IInv, ViewRegs, ViewClaims, Untouched, OfTouched
  <1>6. TypeInv'
    BY <1>1, <1>4 DEF IInv, TypeInv
  <1>7. JobInv'
    BY <1>1, <1>4 DEF IInv, JobInv, RolesAllow, Requested, StepsOf
  <1>8. DomainSees'
    BY <1>1, <1>4, <1>5 DEF IInv, DomainSees, WarmingUp
  <1>9. TopicsThere'
    <2>1. CASE job.op = "warmup"
      BY <2>1, <1>1, <1>4, <1>5 DEF IInv, TopicsThere, Doomed, Deletes
    <2>2. CASE job.op # "warmup"
      <3>1. ViewRegs = regs /\ ViewClaims = claims
        BY <2>2, <1>1, FreshViews DEF IInv, JobInv
      <3>2. \A r : r \in Listed <=> r \in regs /\ Doomed(r)
        BY <1>1, <1>2, <2>2, <3>1 DEF Doomed, InNamespace
      <3>3. \A r : Doomed(r)' = Doomed(r)
        BY <1>1, <1>4 DEF Doomed
      <3>4. \A r \in regs : r.topic[1] = NameOf(r.cls)
        BY DEF IInv, Sound
      <3>5. \A r \in regs : Steady(r) /\ r.topic \notin kafka => Doomed(r)
        BY DEF IInv, TopicsThere
      <3> QED
        BY <1>1, <1>4, <1>5, <2>2, <3>1, <3>2, <3>3, <3>4, <3>5 DEF TopicsThere, Deletes
    <2> QED
      BY <2>1, <2>2
  <1>10. Copied'
    <2> SUFFICES ASSUME job.op = "warmup", NEW r \in Listed
                 PROVE  /\ r.versioned /\ TRUE \in Flags[NameOf(r.cls)]
                        /\ Steady(r) => /\ r.cls = <<NameOf(r.cls), ActiveOf(job.to)>>
                                        /\ NameOf(r.cls) \notin Fixed => r.topic = r.cls
      BY <1>4 DEF Copied
    <2>1. r \in ViewRegs /\ r.versioned = TRUE
      BY <1>1, <1>2 DEF Row, InNamespace
    <2>2. TRUE \in Flags[NameOf(r.cls)]
      BY <1>1, <2>1 DEF Sound
    <2>3. PICK c \in Classifiers : NamespaceOf(c) = ActiveOf(job.to) /\ (c = r.cls \/ <<c, r.cls>> \in ViewClaims)
      <3>1. \/ NamespaceOf(r.cls) = ActiveOf(job.to) /\ r.cls \in Classifiers
            \/ \E d \in ViewClaims : d[2] = r.cls /\ NamespaceOf(d[1]) = ActiveOf(job.to)
        BY <1>1, <1>2 DEF InNamespace, Row
      <3> QED
        BY <3>1, <1>1 DEF Claims
    <2>4. Steady(r) => c = r.cls /\ (NameOf(r.cls) \notin Fixed => r.topic = r.cls)
      BY <1>1, <2>1, <2>3 DEF Sound
    <2> QED
      BY <2>1, <2>2, <2>3, <2>4, ClassifierFacts
  <1> QED
    BY <1>1, <1>5, <1>6, <1>7, <1>8, <1>9, <1>10 DEF IInv

\* Write leaves the transaction with these rows and claims, if they are those
\* that it sees but for one name.
LEMMA WriteViews ==
    ASSUME TypeInv, NEW n \in Names, NEW rows \in SUBSET Row, NEW links \in SUBSET Claims,
           \A r \in Row : NameOf(r.cls) # n => (r \in rows <=> r \in ViewRegs),
           \A c \in Claims : NameOf(c[1]) # n => (c \in links <=> c \in ViewClaims),
           OfTouched, UNCHANGED <<regs, claims>>,
           job'.touched = Write(n, rows, links).touched, job'.regs = Write(n, rows, links).regs,
           job'.claims = Write(n, rows, links).claims
    PROVE  ViewRegs' = rows /\ ViewClaims' = links /\ OfTouched'
  <1> DEFINE names == job.touched \cup {n}
  <1>1. /\ job'.touched = names /\ job'.regs = {r \in rows : NameOf(r.cls) \in names}
        /\ job'.claims = {c \in links : NameOf(c[1]) \in names}
    BY DEF Write, TypeInv, Job
  <1>2. \A r \in Row : NameOf(r.cls) \notin names => (r \in rows <=> r \in regs)
    BY UntouchedNames
  <1>3. \A c \in Claims : NameOf(c[1]) \notin names => (c \in links <=> c \in claims)
    BY UntouchedNames
  <1>4. regs \subseteq Row /\ claims \subseteq Claims
    BY DEF TypeInv
  <1> HIDE DEF names
  <1>5. ViewRegs' = rows
    BY <1>1, <1>2, <1>4 DEF ViewRegs, Untouched
  <1>6. ViewClaims' = links
    BY <1>1, <1>3, <1>4 DEF ViewClaims
  <1> QED
    BY <1>1, <1>5, <1>6 DEF OfTouched

LEMMA WriteFields ==
    ASSUME TypeInv, NEW n \in Names, NEW rows \in SUBSET Row, NEW links \in SUBSET Claims
    PROVE  /\ Write(n, rows, links) \in Job
           /\ Write(n, rows, links).op = job.op /\ Write(n, rows, links).step = job.step
           /\ Write(n, rows, links).to = job.to /\ Write(n, rows, links).ns = job.ns
           /\ Write(n, rows, links).left = job.left /\ Write(n, rows, links).listed = job.listed
           /\ Write(n, rows, links).failed = job.failed
  <1> DEFINE names == job.touched \cup {n}
             mine == {r \in rows : NameOf(r.cls) \in names}
             leading == {c \in links : NameOf(c[1]) \in names}
  <1>1. job \in Job /\ names \in SUBSET Names /\ mine \in SUBSET Row /\ leading \in SUBSET Claims
    BY DEF TypeInv, Job
  <1>2. Write(n, rows, links) = [job EXCEPT !.touched = names, !.regs = mine, !.claims = leading]
    BY DEF Write
  <1> HIDE DEF names, mine, leading
  <1> QED
    BY <1>1, <1>2 DEF Job

\* A copy that has been made, or was there, whatever it took.
LEMMA CopyKeeps ==
    ASSUME IInv, job.step = "copy", job.op = "warmup", NEW r \in job.left,
           UNCHANGED <<bound, recorded, roles, regs, claims, losses>>,
           kafka \subseteq kafka', kafka' \subseteq Topics,
           job' \in Job, job'.op = job.op, job'.step = job.step, job'.to = job.to, job'.ns = job.ns,
           job'.left = job.left \ {r}, job'.listed = job.listed,
           OfTouched', Sound(ViewRegs', ViewClaims'), SeesAll(ViewRegs', ViewClaims'),
           \A s \in ViewRegs : Steady(s) => s \in ViewRegs',
           \A s \in ViewRegs' : Steady(s) => s \in ViewRegs \/ s.topic \in kafka',
           NameOf(r.cls) \notin Fixed, Steady(r) => HasCopy(r)'
    PROVE  IInv'
  <1>1. TypeInv'
    BY DEF IInv, TypeInv
  <1>2. JobInv'
    BY DEF IInv, JobInv, RolesAllow, Requested
  <1>3. DomainSees'
    BY DEF IInv, DomainSees
  <1>4. TopicsThere'
    BY DEF IInv, TopicsThere, Doomed, Deletes
  <1>5. Copied'
    <2> SUFFICES ASSUME NEW s \in job.listed
                 PROVE  /\ s.versioned /\ TRUE \in Flags[NameOf(s.cls)]
                        /\ Steady(s) => /\ s.cls = <<NameOf(s.cls), ActiveOf(job.to)>>
                                        /\ NameOf(s.cls) \notin Fixed => s.topic = s.cls
                                        /\ s \notin job.left \ {r} => NameOf(s.cls) \notin Fixed /\ HasCopy(s)'
      BY DEF Copied
    <2>1. /\ s.versioned /\ TRUE \in Flags[NameOf(s.cls)]
          /\ Steady(s) => /\ s.cls = <<NameOf(s.cls), ActiveOf(job.to)>>
                          /\ NameOf(s.cls) \notin Fixed => s.topic = s.cls
                          /\ s \notin job.left => NameOf(s.cls) \notin Fixed /\ HasCopy(s)
      BY DEF IInv, Copied
    <2>2. ASSUME Steady(s), HasCopy(s) PROVE HasCopy(s)'
      <3>1. PICK u \in ViewRegs :
               /\ u.cls = <<NameOf(s.cls), NotActiveOf(job.to)>> /\ u.topic = u.cls /\ u.topic \in kafka
        BY <2>2 DEF HasCopy
      <3>2. Steady(u)
        BY <3>1, <2>2 DEF Steady, NameOf
      <3> QED
        BY <3>1, <3>2 DEF HasCopy
    <2> QED
      BY <2>1, <2>2
  <1>6. Sound(regs', claims')
    BY DEF IInv
  <1> QED
    BY <1>1, <1>2, <1>3, <1>4, <1>5, <1>6 DEF IInv

LEMMA CopyVersionedTopicsInv == IInv /\ CopyVersionedTopics => IInv'
  <1> SUFFICES ASSUME IInv, CopyVersionedTopics PROVE IInv'
    OBVIOUS
  <1>1. PICK r \in job.left : CopyTopic(r)
    BY DEF CopyVersionedTopics
  <1> DEFINE c == <<NameOf(r.cls), NotActiveOf(job.to)>>
             row == [cls |-> c, topic |-> ResolvedTopic(c, TRUE), versioned |-> TRUE]
             n == NameOf(r.cls)
  <1>2. /\ job \in Job /\ job.step = "copy" /\ job.op = "warmup"
        /\ UNCHANGED <<bound, recorded, roles, regs, claims, losses>>
        /\ ViewRegs \subseteq Row /\ ViewClaims \subseteq Claims
        /\ Sound(ViewRegs, ViewClaims) /\ OfTouched /\ TypeInv
        /\ r \in Row /\ r \in job.listed /\ losses \in 0..MaxLosses
    <2>1. job.step = "copy" /\ job.step \in StepsOf(job.op)
      BY DEF CopyVersionedTopics, At, IInv, JobInv
    <2> QED
      BY <2>1, ViewType DEF CopyVersionedTopics, IInv, TypeInv, StepsOf, Unchanged, JobInv, Job
  <1>3. /\ c \in Classifiers /\ NameOf(c) = n /\ n \in Names /\ c[1] = n
        /\ r.cls \in Classifiers
    BY <1>2 DEF Row, Classifiers, NameOf, NotActiveOf, Namespaces
  <1>4. TRUE \in Flags[n] /\ SeesAll(ViewRegs, ViewClaims)
    BY <1>2 DEF IInv, Copied, DomainSees, WarmingUp
  <1>5. Flags[n] \subseteq BOOLEAN
    BY <1>3, BgAssumption
  <1>6. n \notin Fixed => ResolvedTopic(c, TRUE) = c
    BY <1>3, ClassifierFacts DEF ResolvedTopic
  <1> HIDE DEF c, n
  <1>7. Steady(r) <=> Flags[n] # BOOLEAN
    BY DEF Steady, n
  <1>8. CASE job' = Failed /\ kafka' = kafka
    BY <1>2, <1>8, FailedInv
  <1>9. ASSUME n \notin Fixed, NEW e \in Matches(ViewRegs, ViewClaims, c), e.topic \in kafka, kafka' = kafka,
               job' = [job EXCEPT !.left = job.left \ {r}], e.versioned
        PROVE  IInv'
    <2>1. /\ job' \in Job /\ job'.op = job.op /\ job'.step = job.step /\ job'.to = job.to
          /\ job'.ns = job.ns /\ job'.left = job.left \ {r} /\ job'.listed = job.listed
          /\ job'.touched = job.touched /\ job'.regs = job.regs /\ job'.claims = job.claims
      BY <1>2, <1>9 DEF Job
    <2>2. ViewRegs' = ViewRegs /\ ViewClaims' = ViewClaims /\ OfTouched'
      BY <1>2, <2>1 DEF ViewRegs, ViewClaims, Untouched, OfTouched
    <2>3. e \in ViewRegs /\ NameOf(e.cls) = n /\ (e.cls = c \/ <<c, e.cls>> \in ViewClaims)
      BY <1>9, <1>2, <1>3 DEF Matches, Sound
    <2>4. ASSUME Steady(r) PROVE HasCopy(r)'
      <3>1. Steady(e)
        BY <2>3, <2>4, <1>7 DEF Steady
      <3>2. e.cls = c /\ e.topic = e.cls
        BY <2>3, <3>1, <1>9, <1>2 DEF Sound
      <3> QED
        BY <3>2, <2>1, <2>2, <2>3, <1>9 DEF HasCopy, c
    <2>5. kafka' \subseteq Topics
      BY <1>2, <1>9 DEF TypeInv
    <2> QED
      BY <1>2, <1>4, <1>9, <2>1, <2>2, <2>4, <2>5, CopyKeeps DEF n
  <1>10. ASSUME n \notin Fixed, NEW e \in Matches(ViewRegs, ViewClaims, c), ~e.versioned, kafka' = kafka,
                job' = [Write(NameOf(c), (ViewRegs \ {e}) \cup {[e EXCEPT !.versioned = TRUE]},
                              ViewClaims) EXCEPT !.left = job.left \ {r}]
         PROVE  IInv'
    <2> DEFINE flipped == [e EXCEPT !.versioned = TRUE]
               rows == (ViewRegs \ {e}) \cup {flipped}
               written == Write(n, rows, ViewClaims)
    <2>1. e \in ViewRegs /\ e \in Row /\ NameOf(e.cls) = n
      BY <1>10, <1>2, <1>3 DEF Matches, Sound
    <2>2. ~Steady(e) /\ ~Steady(r)
      <3>1. e.versioned = FALSE /\ e.versioned \in Flags[n]
        BY <2>1, <1>10, <1>2 DEF Row, Sound
      <3>2. Flags[n] = BOOLEAN
        BY <3>1, <1>4, <1>5
      <3> QED
        BY <3>2, <2>1, <1>7 DEF Steady
    <2>3. flipped \in Row /\ flipped.cls = e.cls /\ ~Steady(flipped)
      BY <2>1, <2>2 DEF Row, Steady
    <2>4. Sound(rows, ViewClaims)
      BY <1>2, <2>1, <2>2, SoundFlip
    <2> HIDE DEF flipped
    <2>5. rows \in SUBSET Row /\ \A s \in Row : NameOf(s.cls) # n => (s \in rows <=> s \in ViewRegs)
      BY <1>2, <2>1, <2>3
    <2>6. job' = [written EXCEPT !.left = job.left \ {r}]
      BY <1>10, <1>3 DEF flipped
    <2>7. SeesAll(rows, ViewClaims)
      BY <1>4, <2>3 DEF SeesAll
    <2>8. /\ \A s \in ViewRegs : Steady(s) => s \in rows
          /\ \A s \in rows : Steady(s) => s \in ViewRegs
      BY <2>2, <2>3
    <2> HIDE DEF rows
    <2>9. /\ written \in Job /\ written.op = job.op /\ written.step = job.step /\ written.to = job.to
          /\ written.ns = job.ns /\ written.listed = job.listed
      BY <1>2, <1>3, <2>5, WriteFields
    <2>10. /\ job'.touched = written.touched /\ job'.regs = written.regs /\ job'.claims = written.claims
           /\ job' \in Job /\ job'.op = job.op /\ job'.step = job.step /\ job'.to = job.to
           /\ job'.ns = job.ns /\ job'.left = job.left \ {r} /\ job'.listed = job.listed
      <3> HIDE DEF written
      <3> QED
        BY <1>2, <2>6, <2>9 DEF Job
    <2>11. ViewRegs' = rows /\ ViewClaims' = ViewClaims /\ OfTouched'
      BY <1>2, <1>3, <2>5, <2>10, WriteViews
    <2>12. kafka' \subseteq Topics
      BY <1>2, <1>10 DEF TypeInv
    <2> QED
      BY <1>2, <1>10, <2>2, <2>4, <2>7, <2>8, <2>10, <2>11, <2>12, CopyKeeps DEF n
  <1>11. ASSUME n \notin Fixed, ~Taken(ViewRegs, row), ~Claimed(ViewClaims, c), kafka' = kafka \cup {row.topic},
                job' = [Write(NameOf(c), ViewRegs \cup {row}, ViewClaims \cup {<<c, c>>})
                           EXCEPT !.left = job.left \ {r}]
         PROVE  IInv'
    <2> DEFINE rows == ViewRegs \cup {row}
               links == ViewClaims \cup {<<c, c>>}
               written == Write(n, rows, links)
    <2>1. row \in Row /\ row.cls = c /\ row.topic = c /\ row.versioned = TRUE
      BY <1>3, <1>6, <1>11 DEF Row, Topics, Classifiers
    <2>2. {<<c, c>>} \in SUBSET Claims /\ <<c, c>>[1] = c /\ <<c, c>>[2] = c
      BY <1>3 DEF Claims
    <2>3. ResolvedTopic(c, TRUE) \in Topics /\ ResolvedTopic(c, TRUE)[1] = NameOf(c)
      BY <1>3, <1>6, <1>11 DEF Topics, Classifiers
    <2>4. Sound(rows, links)
      BY <1>2, <1>3, <1>4, <1>6, <1>11, <2>2, <2>3, SoundAdd
    <2> HIDE DEF row
    <2>5. rows \in SUBSET Row /\ \A s \in Row : NameOf(s.cls) # n => (s \in rows <=> s \in ViewRegs)
      BY <1>2, <1>3, <2>1
    <2>6. /\ links \in SUBSET Claims
          /\ \A d \in Claims : NameOf(d[1]) # n => (d \in links <=> d \in ViewClaims)
      BY <1>2, <1>3, <2>2
    <2>7. job' = [written EXCEPT !.left = job.left \ {r}]
      BY <1>11, <1>3
    <2>8. SeesAll(rows, links)
      BY <1>4, <2>1 DEF SeesAll
    <2>9. /\ \A s \in ViewRegs : s \in rows
          /\ \A s \in rows : s \in ViewRegs \/ s.topic \in kafka'
          /\ row \in rows /\ row.topic \in kafka'
      BY <1>11
    <2> HIDE DEF rows, links
    <2>10. /\ written \in Job /\ written.op = job.op /\ written.step = job.step /\ written.to = job.to
           /\ written.ns = job.ns /\ written.listed = job.listed
      BY <1>2, <1>3, <2>5, <2>6, WriteFields
    <2>11. /\ job'.touched = written.touched /\ job'.regs = written.regs /\ job'.claims = written.claims
           /\ job' \in Job /\ job'.op = job.op /\ job'.step = job.step /\ job'.to = job.to
           /\ job'.ns = job.ns /\ job'.left = job.left \ {r} /\ job'.listed = job.listed
      <3> HIDE DEF written
      <3> QED
        BY <1>2, <2>7, <2>10 DEF Job
    <2>12. ViewRegs' = rows /\ ViewClaims' = links /\ OfTouched'
      BY <1>2, <1>3, <2>5, <2>6, <2>11, WriteViews
    <2>13. kafka \subseteq kafka' /\ kafka' \subseteq Topics
      BY <1>2, <1>11, <1>6, <2>3, <2>1 DEF TypeInv
    <2>14. HasCopy(r)'
      BY <2>1, <2>9, <2>11, <2>12 DEF HasCopy, c
    <2> QED
      BY <1>2, <1>11, <2>4, <2>8, <2>9, <2>11, <2>12, <2>13, <2>14, CopyKeeps DEF n
  <1>12. \/ job' = Failed /\ kafka' = kafka
         \/ \E e \in Matches(ViewRegs, ViewClaims, c) :
               /\ n \notin Fixed /\ kafka' = kafka /\ e.topic \in kafka
               /\ job' = IF e.versioned THEN [job EXCEPT !.left = job.left \ {r}]
                         ELSE [Write(NameOf(c), (ViewRegs \ {e}) \cup {[e EXCEPT !.versioned = TRUE]},
                                     ViewClaims) EXCEPT !.left = job.left \ {r}]
         \/ /\ n \notin Fixed /\ ~Taken(ViewRegs, row) /\ ~Claimed(ViewClaims, c) /\ kafka' = kafka \cup {row.topic}
            /\ job' = [Write(NameOf(c), ViewRegs \cup {row}, ViewClaims \cup {<<c, c>>})
                          EXCEPT !.left = job.left \ {r}]
    BY <1>1, <1>3, Zenon DEF CopyTopic, c
  <1> QED
    BY <1>8, <1>9, <1>10, <1>11, <1>12

\* What the loop of a deletion has in hand: a topic of that name is one that
\* the operation is to delete.
LEMMA DropFacts ==
    ASSUME IInv, job.step = "drop", NEW r \in job.left
    PROVE  /\ job.op \in {"commit", "cleanup"} /\ r \in Row /\ r \in job.listed
           /\ r.topic[1] = NameOf(r.cls) /\ ViewRegs \subseteq regs
           /\ Steady(r) => r \in regs /\ Doomed(r)
           /\ \A s \in regs : Steady(s) /\ s.topic = r.topic => s = r
  <1>1. job.op \in {"commit", "cleanup"}
    BY DEF IInv, JobInv, StepsOf
  <1>2. r \in Row /\ r \in job.listed
    BY DEF IInv, TypeInv, Job, JobInv
  <1>3. /\ r.topic[1] = NameOf(r.cls) /\ ViewRegs \subseteq regs
        /\ Steady(r) => r \in regs /\ Doomed(r)
    BY <1>1, <1>2 DEF IInv, TopicsThere, Deletes
  <1>4. ASSUME NEW s \in regs, Steady(s), s.topic = r.topic PROVE s = r
    <2>1. NameOf(s.cls) = NameOf(r.cls)
      BY <1>3, <1>4 DEF IInv, Sound
    <2>2. r \in regs
      BY <2>1, <1>3, <1>4 DEF Steady
    <2> QED
      BY <2>2, <1>4 DEF IInv, Sound
  <1> QED
    BY <1>1, <1>2, <1>3, <1>4

LEMMA DeleteTopicsInv == IInv /\ DeleteTopics => IInv'
  <1> SUFFICES ASSUME IInv, DeleteTopics PROVE IInv'
    OBVIOUS
  <1>1. PICK r \in job.left : DeleteTopic(r)
    BY DEF DeleteTopics
  <1> DEFINE n == NameOf(r.cls)
             rows == {s \in ViewRegs : s.cls # r.cls}
             links == {c \in ViewClaims : c[2] # r.cls}
             written == Write(n, rows, links)
  <1>2. /\ job \in Job /\ job.step = "drop"
        /\ UNCHANGED <<bound, recorded, roles, regs, claims>>
        /\ ViewRegs \subseteq Row /\ ViewClaims \subseteq Claims
        /\ Sound(ViewRegs, ViewClaims) /\ OfTouched /\ TypeInv
    BY ViewType DEF DeleteTopics, At, IInv, TypeInv
  <1>3. /\ job.op \in {"commit", "cleanup"} /\ r \in Row /\ r \in job.listed
        /\ r.topic[1] = NameOf(r.cls) /\ ViewRegs \subseteq regs
        /\ Steady(r) => r \in regs /\ Doomed(r)
        /\ \A s \in regs : Steady(s) /\ s.topic = r.topic => s = r
    BY <1>2, DropFacts
  <1>4. /\ kafka' \in {kafka, kafka \ {r.topic}}
        /\ losses' = losses \/ (losses < MaxLosses /\ losses' = losses + 1)
        /\ \/ job' = [written EXCEPT !.left = job.left \ {r}]
           \/ job' = [written EXCEPT !.left = job.left \ {r}, !.failed = TRUE]
    <2> HIDE DEF written
    <2>1. \/ /\ job' = [written EXCEPT !.left = @ \ {r}] /\ kafka' = kafka \ {r.topic}
             /\ UNCHANGED losses
          \/ /\ losses < MaxLosses /\ losses' = losses + 1
             /\ job' = [written EXCEPT !.left = @ \ {r}, !.failed = TRUE]
             /\ kafka' \in {kafka, kafka \ {r.topic}}
      BY <1>1 DEF DeleteTopic, written
    <2>2. written.left = job.left
      BY <1>2, <1>3, WriteFields, ClassifierFacts DEF written, Row
    <2> QED
      BY <2>1, <2>2
  <1>5. losses' \in 0..MaxLosses /\ kafka' \subseteq kafka
    BY <1>2, <1>4, BgAssumption DEF TypeInv
  <1>6. n \in Names /\ r.cls \in Classifiers
    BY <1>3, ClassifierFacts DEF Row
  <1>7. Sound(rows, links)
    <2>1. /\ \A s : s \in rows <=> s \in ViewRegs /\ s.cls # r.cls
          /\ \A d : d \in links <=> d \in ViewClaims /\ d[2] # r.cls
          /\ Sound(ViewRegs, ViewClaims)
      BY <1>2
    <2> HIDE DEF rows, links, written, n
    <2> QED
      BY <2>1 DEF Sound
  <1>8. rows \in SUBSET Row /\ \A s \in Row : NameOf(s.cls) # n => (s \in rows <=> s \in ViewRegs)
    BY <1>2
  <1>9. /\ links \in SUBSET Claims
        /\ \A d \in Claims : NameOf(d[1]) # n => (d \in links <=> d \in ViewClaims)
    <2>1. ASSUME NEW d \in ViewClaims, d[2] = r.cls PROVE NameOf(d[1]) = n
      BY <2>1, <1>2 DEF Sound
    <2> QED
      BY <1>2, <2>1
  <1>10. SeesAll(ViewRegs, ViewClaims) => SeesAll(rows, links)
    <2> SUFFICES ASSUME SeesAll(ViewRegs, ViewClaims), NEW s \in rows, Steady(s), ~s.versioned
                 PROVE  {<<s.cls, s.cls>>, <<Sibling(s.cls), s.cls>>} \subseteq links
      BY DEF SeesAll
    <2>1. {<<s.cls, s.cls>>, <<Sibling(s.cls), s.cls>>} \subseteq ViewClaims
      BY DEF SeesAll
    <2> QED
      BY <2>1
  <1>11. rows \subseteq ViewRegs /\ \A s \in rows : s.cls # r.cls
    OBVIOUS
  <1> HIDE DEF rows, links
  <1>12. /\ written \in Job /\ written.op = job.op /\ written.step = job.step /\ written.to = job.to
         /\ written.ns = job.ns /\ written.listed = job.listed
    BY <1>2, <1>6, <1>8, <1>9, WriteFields
  <1>13. /\ job'.touched = written.touched /\ job'.regs = written.regs /\ job'.claims = written.claims
         /\ job' \in Job /\ job'.op = job.op /\ job'.step = job.step /\ job'.to = job.to
         /\ job'.ns = job.ns /\ job'.left = job.left \ {r} /\ job'.listed = job.listed
    <2> HIDE DEF written
    <2> QED
      BY <1>2, <1>4, <1>12 DEF Job
  <1>14. ViewRegs' = rows /\ ViewClaims' = links /\ OfTouched'
    BY <1>2, <1>6, <1>8, <1>9, <1>13, WriteViews
  <1>15. TypeInv'
    BY <1>2, <1>5, <1>13 DEF TypeInv
  <1>16. JobInv'
    BY <1>2, <1>13 DEF IInv, JobInv, RolesAllow, Requested
  <1>17. DomainSees'
    BY <1>2, <1>3, <1>10, <1>13, <1>14 DEF IInv, DomainSees, WarmingUp
  <1>18. TopicsThere'
    <2>1. \A s : Doomed(s)' = Doomed(s)
      BY <1>2, <1>13 DEF Doomed
    <2>2. ASSUME NEW s \in regs, Steady(s), s.topic \notin kafka' PROVE Doomed(s)
      <3>1. CASE s.topic \notin kafka
        BY <3>1, <2>2 DEF IInv, TopicsThere
      <3>2. CASE s.topic = r.topic
        BY <3>2, <2>2, <1>3
      <3> QED
        BY <3>1, <3>2, <2>2, <1>4
    <2>3. ASSUME NEW s \in rows, Steady(s), s.topic \notin kafka' PROVE s \in job.left \ {r}
      <3>1. s.topic # r.topic
        BY <2>3, <1>3, <1>11
      <3>2. s \in job.left
        BY <2>3, <3>1, <1>2, <1>4, <1>11 DEF IInv, TopicsThere
      <3> QED
        BY <3>1, <3>2
    <2>4. \A s \in job.listed : /\ s.topic[1] = NameOf(s.cls)
                                /\ Steady(s) => s \in regs /\ Doomed(s)
      BY <1>3 DEF IInv, TopicsThere, Deletes
    <2> QED
      BY <1>2, <1>3, <1>11, <1>13, <1>14, <2>1, <2>2, <2>3, <2>4 DEF TopicsThere, Deletes
  <1>19. Copied'
    BY <1>3, <1>13 DEF Copied
  <1>20. Sound(regs', claims')
    BY <1>2 DEF IInv
  <1> QED
    BY <1>7, <1>14, <1>15, <1>16, <1>17, <1>18, <1>19, <1>20 DEF IInv

LEMMA LoopDoneInv == IInv /\ LoopDone => IInv'
  <1> SUFFICES ASSUME IInv, LoopDone PROVE IInv'
    OBVIOUS
  <1>1. /\ job \in Job /\ job.step \in {"copy", "drop"} /\ job.left = {}
        /\ UNCHANGED <<bound, recorded, roles, regs, claims, kafka, losses>>
        /\ job.step \in StepsOf(job.op) /\ losses \in 0..MaxLosses
    BY DEF LoopDone, Unchanged, IInv, TypeInv, JobInv
  <1>2. CASE job' = Failed
    BY <1>1, <1>2, FailedInv DEF StepsOf
  <1>3. CASE job' = [job EXCEPT !.step = "save"]
    <2>1. /\ job' \in Job /\ job'.op = job.op /\ job'.to = job.to /\ job'.ns = job.ns
          /\ job'.step = "save" /\ job'.left = {} /\ job'.listed = job.listed
          /\ job'.touched = job.touched /\ job'.regs = job.regs /\ job'.claims = job.claims
      BY <1>1, <1>3 DEF Job, Steps
    <2>2. ViewRegs' = ViewRegs /\ ViewClaims' = ViewClaims /\ OfTouched'
      BY <1>1, <2>1 DEF IInv, ViewRegs, ViewClaims, Untouched, OfTouched
    <2>3. TypeInv'
      BY <1>1, <2>1 DEF IInv, TypeInv
    <2>4. job.op \in {"warmup", "commit", "cleanup"} /\ (job.op = "warmup" <=> job.step = "copy")
      BY <1>1 DEF StepsOf
    <2>5. JobInv'
      BY <1>1, <2>1, <2>4 DEF IInv, JobInv, RolesAllow, Requested, StepsOf
    <2>6. DomainSees'
      BY <1>1, <2>1, <2>2, <2>4 DEF IInv, DomainSees, WarmingUp
    <2>7. TopicsThere'
      BY <1>1, <2>1, <2>2, <2>4 DEF IInv, TopicsThere, Doomed, Deletes
    <2>8. Copied'
      BY <1>1, <2>1, <2>2 DEF IInv, Copied, HasCopy
    <2> QED
      BY <1>1, <2>2, <2>3, <2>5, <2>6, <2>7, <2>8 DEF IInv
  <1> QED
    BY <1>2, <1>3 DEF LoopDone

LEMMA SaveInv == IInv /\ Save => IInv'
  <1> SUFFICES ASSUME IInv, Save PROVE IInv'
    OBVIOUS
  <1>1. /\ job \in Job /\ job.step = "save" /\ job.left = {} /\ job.op # "none"
        /\ job.op \in BgOperations \cup {"cleanup"}
        /\ ViewRegs \subseteq Row /\ ViewClaims \subseteq Claims
        /\ Sound(ViewRegs, ViewClaims)
    <2>1. job.step = "save" /\ job.step \in StepsOf(job.op) /\ job.left = {}
      BY DEF Save, At, IInv, JobInv
    <2> QED
      BY <2>1, ViewType DEF IInv, TypeInv, StepsOf, Job
  <1>2. /\ regs' = ViewRegs /\ claims' = ViewClaims /\ kafka' = kafka
        /\ bound' = (bound /\ job.op # "destroy")
        /\ recorded' \in {recorded, Unknown, job.to}
        /\ recorded' = recorded => job.op = "cleanup" \/ recorded \in {Unknown, job.to}
        /\ losses' \in 0..MaxLosses
        /\ \/ roles' = job.to /\ job' = NoJob
           \/ job' = Failed /\ roles' = roles
    BY BgAssumption DEF Save, IInv, TypeInv
  <1>3. /\ job' \in Job /\ job'.left = {} /\ job'.listed = {}
        /\ job'.touched = {} /\ job'.regs = {} /\ job'.claims = {}
        /\ \/ job'.op = "none" /\ job'.step = "none" /\ roles' = job.to
           \/ /\ job'.op = job.op /\ job'.step = "failed" /\ job'.to = job.to /\ job'.ns = job.ns
              /\ roles' = roles
    BY <1>2, JobFields DEF IInv
  <1>4. ViewRegs' = regs' /\ ViewClaims' = claims'
    BY <1>3 DEF ViewRegs, ViewClaims, Untouched
  <1>5. Sound(regs', claims') /\ OfTouched' /\ Sound(ViewRegs', ViewClaims')
    BY <1>1, <1>2, <1>3, <1>4 DEF OfTouched
  <1>6. TypeInv'
    <2>1. job.to \in Roles /\ Unknown \in Roles
      BY <1>1 DEF Job, Unknown, Roles, Namespaces
    <2> QED
      BY <1>1, <1>2, <1>3, <2>1 DEF IInv, TypeInv
  <1>7. JobInv'
    <2>1. CASE job'.op = "none" /\ job'.step = "none"
      BY <1>3, <2>1 DEF JobInv, StepsOf, BgOperations
    <2>2. CASE job'.op = job.op /\ job'.step = "failed" /\ job'.to = job.to /\ job'.ns = job.ns /\ roles' = roles
      <3>1. job'.step \in StepsOf(job.op)
        BY <1>1, <2>2 DEF StepsOf
      <3>2. job.op \in BgOperations \ {"destroy"} => bound'
        BY <1>2 DEF IInv, JobInv
      <3> QED
        BY <1>3, <2>2, <3>1, <3>2 DEF IInv, JobInv, RolesAllow, Requested
    <2> QED
      BY <1>3, <2>1, <2>2
  <1>8. DomainSees'
    <2> SUFFICES ASSUME BothLive(recorded') \/ BothLive(roles')
                 PROVE  bound' /\ SeesAll(ViewRegs, ViewClaims)
      <3>1. ~WarmingUp'
        BY <1>3 DEF WarmingUp
      <3>2. BothLive(recorded)' = BothLive(recorded') /\ BothLive(roles)' = BothLive(roles')
        BY DEF BothLive
      <3> QED
        BY <1>2, <1>4, <3>1, <3>2 DEF DomainSees
    <2>1. ~BothLive(Unknown)
      BY DEF BothLive, Unknown, Namespaces
    <2>2. BothLive(roles) => bound /\ SeesAll(ViewRegs, ViewClaims)
      BY DEF IInv, DomainSees
    <2>3. job.op \in BgOperations => RolesAllow(job.op, job.ns) /\ job.to = Requested(job.op, job.ns)
      BY DEF IInv, JobInv
    <2>4. job.ns \in Namespaces /\ \A ns \in Namespaces : ns = job.ns \/ ns = Other(job.ns)
      BY <1>1 DEF Job, Namespaces, Other
    <2>5. CASE job.op = "cleanup"
      BY <1>2, <1>3, <2>1, <2>2, <2>5 DEF IInv, JobInv, DomainSees
    <2>6. CASE job.op = "warmup"
      <3>1. WarmingUp
        BY <1>1, <2>6 DEF WarmingUp
      <3> QED
        BY <1>2, <2>6, <3>1 DEF IInv, DomainSees, JobInv, BgOperations
    <2>7. CASE job.op \in {"promote", "rollback", "commit"}
      <3>1. RolesAllow(job.op, job.ns)
        BY <2>3, <2>7 DEF BgOperations
      <3>2. roles[Other(job.ns)] # "idle" /\ roles[job.ns] # "idle"
        BY <2>7, <3>1 DEF RolesAllow
      <3>3. BothLive(roles)
        BY <2>4, <3>2 DEF BothLive
      <3> QED
        BY <1>2, <2>2, <2>7, <3>3
    <2>8. CASE job.op = "destroy"
      <3>1. RolesAllow(job.op, job.ns) /\ job.to = roles
        BY <2>3, <2>8 DEF BgOperations, Requested
      <3>2. ~BothLive(roles)
        BY <2>4, <2>8, <3>1 DEF BothLive, RolesAllow
      <3>3. recorded' = Unknown
        BY <2>8 DEF Save
      <3> QED
        BY <1>3, <2>1, <3>1, <3>2, <3>3
    <2> QED
      BY <1>1, <2>5, <2>6, <2>7, <2>8 DEF BgOperations
  <1>9. \A r \in ViewRegs : Steady(r) => r.topic \in kafka
    BY <1>1 DEF IInv, TopicsThere
  <1>10. TopicsThere'
    BY <1>2, <1>3, <1>4, <1>9 DEF TopicsThere
  <1>11. Copied'
    BY <1>3 DEF Copied
  <1> QED
    BY <1>5, <1>6, <1>7, <1>8, <1>10, <1>11 DEF IInv

-----------------------------------------------------------------------------
(* Theorems                                                                *)

LEMMA InitInv == Init => IInv
  <1> SUFFICES ASSUME Init PROVE IInv
    OBVIOUS
  <1>1. /\ job = NoJob /\ regs = {} /\ claims = {} /\ kafka = {} /\ losses = 0 /\ bound = FALSE
        /\ recorded = Unknown /\ roles = [Unknown EXCEPT ![Origin] = "active"]
    BY DEF Init
  <1>2. Unknown \in Roles /\ roles \in Roles
    BY <1>1 DEF Unknown, Roles, Namespaces
  <1>3. /\ job \in Job /\ job.op = "none" /\ job.step = "none" /\ job.left = {} /\ job.listed = {}
        /\ job.touched = {} /\ job.regs = {} /\ job.claims = {}
    BY <1>1, <1>2 DEF NoJob, Job, Namespaces, Steps
  <1>4. TypeInv
    <2>1. MaxLosses \in Nat
      BY BgAssumption
    <2>2. losses \in 0..MaxLosses
      BY <1>1, <2>1
    <2>5. bound \in BOOLEAN
      BY <1>1, Zenon
    <2>3. regs \subseteq Row /\ claims \subseteq Claims /\ kafka \subseteq Topics
      BY <1>1
    <2>4. recorded \in Roles
      BY <1>1, <1>2
    <2> QED
      BY <1>2, <1>3, <2>2, <2>3, <2>4, <2>5, Zenon DEF TypeInv
  <1>5. ViewRegs = {} /\ ViewClaims = {}
    BY <1>1, <1>3, FreshViews
  <1>6. Sound({}, {})
    BY DEF Sound
  <1>7. JobInv
    BY <1>3 DEF JobInv, StepsOf, BgOperations
  <1>8. DomainSees
    <2>1. ~BothLive(recorded)
      BY <1>1 DEF BothLive, Unknown, Namespaces
    <2>2. roles[Peer] = "idle"
      BY <1>1, BgAssumption DEF Unknown, Namespaces
    <2>3. ~BothLive(roles)
      BY <2>2 DEF BothLive, Namespaces
    <2> QED
      BY <1>3, <2>1, <2>3 DEF DomainSees, WarmingUp
  <1> QED
    BY <1>1, <1>3, <1>4, <1>5, <1>6, <1>7, <1>8 DEF IInv, OfTouched, TopicsThere, Copied, Deletes

LEMMA NextInv == IInv /\ [Next]_vars => IInv'
  <1> SUFFICES ASSUME IInv, [Next]_vars PROVE IInv'
    OBVIOUS
  <1>1. ASSUME NEW c \in Classifiers, NEW v \in BOOLEAN, GetOrCreateTopic(c, v) PROVE IInv'
    BY <1>1, CreateTopicInv, UpdateTopicInv DEF GetOrCreateTopic
  <1>2. CASE UNCHANGED vars
    <2>1. ViewRegs' = ViewRegs /\ ViewClaims' = ViewClaims
      BY <1>2 DEF vars, ViewRegs, ViewClaims, Untouched
    <2>2. TypeInv' /\ OfTouched' /\ JobInv'
      BY <1>2 DEF vars, IInv, TypeInv, OfTouched, JobInv, RolesAllow, Requested
    <2>3. DomainSees'
      BY <1>2, <2>1 DEF vars, IInv, DomainSees, WarmingUp
    <2>4. TopicsThere' /\ Copied'
      BY <1>2, <2>1, GrowthKeeps DEF vars
    <2> QED
      BY <1>2, <2>1, <2>2, <2>3, <2>4 DEF vars, IInv
  <1>3. CASE Serve
    BY <1>3, ValidateDomainInv, CheckEmptyInv, CloneClaimsInv, ListTopicsInv, CopyVersionedTopicsInv,
       DeleteTopicsInv, LoopDoneInv, SaveInv DEF Serve
  <1> QED
    BY <1>1, <1>2, <1>3, InitDomainInv, RequestInv, RetryInv, LoseInv DEF Next

\* The invariant holds, however operations and services are interleaved and
\* whatever attempts fail.
THEOREM Inductive == Spec => []IInv
  BY InitInv, NextInv, PTL DEF Spec

\* Variables keep their types, a classifier and a topic have one row, and a
\* classifier leads to one row, which is there.
THEOREM TypeCorrect == Spec => []TypeOK
  <1>1. IInv => TypeOK
    BY DEF IInv, TypeInv, Sound, TypeOK
  <1> QED
    BY <1>1, Inductive, PTL

\* While both namespaces are live, every unversioned topic whose services agree
\* about it is found from both (CloneClaims with GetOrCreateTopic).
THEOREM BothNamespacesSeeTopics == Spec => []CandidateSeesTopics
  <1>1. IInv => CandidateSeesTopics
    BY DEF IInv, DomainSees, BothLive, SeesAll, CandidateSeesTopics
  <1> QED
    BY <1>1, Inductive, PTL

\* A warm-up about to commit has a copy of every versioned topic that it has
\* found in the active namespace (CopyVersionedTopics).
THEOREM WarmupHasCopied == Spec => []WarmupClones
  <1>1. IInv => WarmupClones
    <2> SUFFICES ASSUME IInv, job.op = "warmup", job.step = "save", NEW r \in job.listed, Steady(r)
                 PROVE  \E s \in ViewRegs : /\ s.cls = <<NameOf(r.cls), NotActiveOf(job.to)>>
                                            /\ s.topic \in kafka /\ s.topic # r.topic
      BY DEF WarmupClones
    <2>1. r.cls = <<NameOf(r.cls), ActiveOf(job.to)>> /\ r.topic = r.cls /\ HasCopy(r)
      BY DEF IInv, JobInv, Copied
    <2>2. ActiveOf(job.to) # NotActiveOf(job.to)
      BY BgAssumption DEF ActiveOf, NotActiveOf
    <2>3. <<NameOf(r.cls), NotActiveOf(job.to)>> # r.topic
      BY <2>1, <2>2
    <2> QED
      BY <2>1, <2>3 DEF HasCopy
  <1> QED
    BY <1>1, Inductive, PTL

\* Between operations every registered topic is on Kafka, even when earlier
\* attempts have deleted topics and were rolled back.
THEOREM SettledTopicsAreThere == Spec => []SettledRowsHaveTopics
  <1>1. IInv => SettledRowsHaveTopics
    BY DEF IInv, TopicsThere, Doomed, SettledRowsHaveTopics
  <1> QED
    BY <1>1, Inductive, PTL

\* No step of an operation of the domain takes a topic that the active
\* namespace has registered.
LEMMA StepKeepsTopics ==
    ASSUME IInv, Next, job.op \in BgOperations, NEW r \in InNamespace(regs, claims, ActiveOf(roles)),
           Steady(r), r.topic \in kafka
    PROVE  r.topic \in kafka'
  <1>1. CASE DeleteTopics
    <2>1. PICK d \in job.left : DeleteTopic(d)
      BY <1>1 DEF DeleteTopics
    <2>2. kafka' \in {kafka, kafka \ {d.topic}}
      BY <2>1 DEF DeleteTopic
    <2>3. r \in regs
      BY DEF InNamespace
    <2>4. job.op = "commit" /\ Doomed(d) = (d.versioned /\ d \in InNamespace(regs, claims, NotActiveOf(job.to)))
          /\ (r.topic = d.topic => r = d /\ Doomed(d))
      BY <1>1, <2>3, DropFacts DEF DeleteTopics, At, BgOperations, Doomed
    <2>5. ASSUME r.topic = d.topic PROVE FALSE
      <3>1. r.versioned = TRUE /\ \A c \in claims : c[2] = r.cls => c[1] = r.cls
        BY <2>3, <2>4, <2>5 DEF IInv, Sound
      <3>2. \A ns, c : (c = r.cls \/ <<c, r.cls>> \in claims) => c = r.cls
        BY <3>1
      <3>3. NamespaceOf(r.cls) = ActiveOf(roles) /\ NamespaceOf(r.cls) = NotActiveOf(job.to)
        BY <2>3, <2>4, <2>5, <3>1, <3>2 DEF InNamespace
      <3>4. /\ roles[Other(job.ns)] = "active" /\ roles[job.ns] # "active"
            /\ job.to = [roles EXCEPT ![job.ns] = "idle"]
            /\ job.ns \in Namespaces /\ DOMAIN roles = Namespaces
        BY <2>4 DEF IInv, JobInv, TypeInv, Job, Roles, RolesAllow, Requested, BgOperations
      <3>5. NotActiveOf(job.to) = job.ns /\ ActiveOf(roles) = Other(job.ns)
        BY <3>4, BgAssumption DEF NotActiveOf, ActiveOf, Namespaces, Other
      <3> QED
        BY <3>3, <3>4, <3>5
    <2> QED
      BY <2>2, <2>5
  <1>2. CASE ~DeleteTopics
    <2>1. ASSUME NEW e \in job.left, CopyTopic(e) PROVE kafka \subseteq kafka'
      BY <2>1 DEF CopyTopic
    <2>2. kafka \subseteq kafka'
      BY <1>2, <2>1 DEF Next, GetOrCreateTopic, CreateTopic, UpdateTopic, InitDomain, Request, Serve, Retry, Lose,
         ValidateDomain, CheckEmpty, CloneClaims, ListTopics, CopyVersionedTopics, LoopDone, Save
    <2> QED
      BY <2>2
  <1> QED
    BY <1>1, <1>2

THEOREM ActiveTopicsStay == Spec => ActiveKeepsTopics
  <1>1. IInv /\ [Next]_vars =>
           [job.op \in BgOperations =>
               \A r \in InNamespace(regs, claims, ActiveOf(roles)) :
                   Steady(r) /\ r.topic \in kafka => r.topic \in kafka']_vars
    BY StepKeepsTopics
  <1> QED
    BY <1>1, Inductive, PTL DEF Spec, ActiveKeepsTopics
=============================================================================
