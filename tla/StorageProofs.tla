----------------------------- MODULE StorageProofs -----------------------------
(***************************************************************************)
(* Storage, for every set of keys, watches, requests and loads: a request  *)
(* is whole, a watch does not wait in vain, and the cache of the replicas  *)
(* follows the master.                                                     *)
(***************************************************************************)
EXTENDS Storage, SequenceTheorems, WellFoundedInduction, TLAPS

-----------------------------------------------------------------------------
(* Induction and recursion over the naturals, with sets in place of        *)
(* predicates and step functions in place of operators                     *)

LEMMA LeastOf ==
    ASSUME NEW S, S \subseteq Nat, S # {}
    PROVE  \E n \in S : \A m \in S : n <= m
<1> DEFINE R == OpToRel(<, Nat)
<1>1. IsWellFoundedOn(R, Nat)
  BY NatLessThanWellFounded
<1>2. \A x, y \in Nat : x < y => <<x, y>> \in R
  BY DEF OpToRel
<1> HIDE DEF R
<1>3. PICK x \in S : \A y \in S : <<y, x>> \notin R
  BY <1>1, WFMin
<1>4. \A y \in S : ~ (y < x)
  BY <1>2, <1>3
<1> QED
  BY <1>4

LEMMA SetInduction ==
    ASSUME NEW S, NEW m \in Nat, 0 \in S, \A n \in 1 .. m : n - 1 \in S => n \in S
    PROVE  0 .. m \subseteq S
<1> DEFINE T == (0 .. m) \ S
<1> SUFFICES ASSUME T # {} PROVE FALSE
  OBVIOUS
<1>1. T \subseteq Nat
  OBVIOUS
<1>2. PICK n \in T : \A k \in T : n <= k
  <2> HIDE DEF T
  <2> QED
    BY <1>1, LeastOf
<1>3. n \in 1 .. m /\ n - 1 \in 0 .. m
  BY <1>2
<1>4. n - 1 \notin T
  BY <1>1, <1>2
<1> QED
  BY <1>2, <1>3, <1>4

StepFunctions(S, m) == [S \X (1 .. m) -> S]

HasIterates(S, b, m, G) ==
    \E f \in [0 .. m -> S] : f[0] = b /\ \A n \in 1 .. m : f[n] = G[<<f[n - 1], n>>]

\* A step function has its iterates.
LEMMA Iterates ==
    ASSUME NEW S, NEW b \in S, NEW m \in Nat, NEW G \in StepFunctions(S, m)
    PROVE  HasIterates(S, b, m, G)
<1> DEFINE Upto(k) == {f \in [0 .. k -> S] : f[0] = b /\ \A n \in 1 .. k : f[n] = G[<<f[n - 1], n>>]}
           T == {k \in 0 .. m : Upto(k) # {}}
<1>1. 0 \in T
  <2>1. [n \in 0 .. 0 |-> b] \in Upto(0)
    OBVIOUS
  <2> QED
    BY <2>1
<1>2. ASSUME NEW k \in 1 .. m, k - 1 \in T PROVE k \in T
  <2>1. PICK f \in Upto(k - 1) : TRUE
    BY <1>2
  <2> DEFINE g == [n \in 0 .. k |-> IF n = k THEN G[<<f[k - 1], k>>] ELSE f[n]]
  <2>2. f[k - 1] \in S
    BY <2>1
  <2>3. G[<<f[k - 1], k>>] \in S
    BY <2>2 DEF StepFunctions
  <2>4. g \in [0 .. k -> S]
    BY <2>1, <2>3
  <2>5. g[0] = b
    BY <2>1
  <2>6. ASSUME NEW n \in 1 .. k PROVE g[n] = G[<<g[n - 1], n>>]
    <3>1. g[n - 1] = f[n - 1]
      OBVIOUS
    <3>2. CASE n = k
      <4>1. g[n] = G[<<f[k - 1], k>>]
        BY <3>2
      <4> HIDE DEF g
      <4> QED
        BY <3>1, <3>2, <4>1
    <3>3. CASE n # k
      <4>1. g[n] = f[n] /\ n \in 1 .. k - 1
        BY <3>3
      <4>2. f[n] = G[<<f[n - 1], n>>]
        BY <2>1, <4>1
      <4> HIDE DEF g
      <4> QED
        BY <3>1, <4>1, <4>2
    <3> QED
      BY <3>2, <3>3
  <2> HIDE DEF g
  <2>7. g \in Upto(k)
    BY <2>4, <2>5, <2>6
  <2> QED
    BY <2>7
<1>3. m \in T
  <2> HIDE DEF T
  <2>1. 0 .. m \subseteq T
    BY <1>1, <1>2, SetInduction
  <2> QED
    BY <2>1
<1> QED
  BY <1>3 DEF HasIterates

-----------------------------------------------------------------------------
(* Sequences                                                               *)

LEMMA RangeAppend ==
    ASSUME NEW S, NEW s \in Seq(S), NEW e \in S
    PROVE  Range(Append(s, e)) = Range(s) \cup {e}
<1>1. /\ DOMAIN s = 1 .. Len(s) /\ DOMAIN Append(s, e) = 1 .. Len(s) + 1 /\ Len(s) \in Nat
      /\ \A i \in 1 .. Len(s) : Append(s, e)[i] = s[i]
      /\ Append(s, e)[Len(s) + 1] = e
  BY AppendProperties, LenProperties
<1>2. ASSUME NEW x \in Range(s) PROVE x \in Range(Append(s, e))
  BY <1>1, <1>2 DEF Range
<1>3. ASSUME NEW x \in Range(Append(s, e)) PROVE x \in Range(s) \cup {e}
  <2>1. PICK i \in 1 .. Len(s) + 1 : x = Append(s, e)[i]
    BY <1>1, <1>3 DEF Range
  <2> QED
    BY <1>1, <2>1 DEF Range
<1>4. e \in Range(Append(s, e))
  BY <1>1 DEF Range
<1> QED
  BY <1>2, <1>3, <1>4

LEMMA RangeHeadTail ==
    ASSUME NEW S, NEW s \in Seq(S), s # <<>>
    PROVE  /\ Head(s) \in S /\ Tail(s) \in Seq(S)
           /\ Range(s) = {Head(s)} \cup Range(Tail(s))
<1>1. /\ Len(s) \in Nat \ {0} /\ DOMAIN s = 1 .. Len(s)
      /\ DOMAIN Tail(s) = 1 .. Len(s) - 1
      /\ \A i \in 1 .. Len(s) - 1 : Tail(s)[i] = s[i + 1]
      /\ Head(s) = s[1] /\ Head(s) \in S /\ Tail(s) \in Seq(S)
  BY HeadTailProperties, LenProperties, EmptySeq
<1>2. ASSUME NEW x \in Range(s) PROVE x \in {Head(s)} \cup Range(Tail(s))
  <2>1. PICK i \in 1 .. Len(s) : x = s[i]
    BY <1>1, <1>2 DEF Range
  <2>2. i = 1 \/ (i - 1 \in 1 .. Len(s) - 1 /\ x = Tail(s)[i - 1])
    BY <1>1, <2>1
  <2> QED
    BY <1>1, <2>1, <2>2 DEF Range
<1>3. ASSUME NEW x \in Range(Tail(s)) PROVE x \in Range(s)
  <2>1. PICK i \in 1 .. Len(s) - 1 : x = s[i + 1]
    BY <1>1, <1>3 DEF Range
  <2> QED
    BY <1>1, <2>1 DEF Range
<1>4. Head(s) \in Range(s)
  BY <1>1 DEF Range
<1> QED
  BY <1>1, <1>2, <1>3, <1>4

-----------------------------------------------------------------------------
(* Types                                                                   *)

\* What a goroutine of the bus holds, and a request that is to broadcast.
Held == {<<>>} \cup {<<k>> : k \in Topics}

RequestType ==
    [pc : {"idle", "run", "ok", "error"}, program : Seq(Statement), todo : Seq(Statement),
     conn : {"none", "master"}, broken : BOOLEAN, writes : Seq(Keys), announce : Held,
     told : Seq(Topics), untold : SUBSET Topics, applied : SUBSET Keys, bare : BOOLEAN]

WatchType ==
    [pc : {"idle", "search", "wait", "found", "null", "empty", "error"}, wants : SUBSET Topics,
     todo : SUBSET Topics, found : SUBSET Topics, blind : BOOLEAN]

StorageType ==
    /\ load \in DOMAIN Loads
    /\ rows \in [Keys -> Values \cup {Absent}]
    /\ watch \in [Watches -> WatchType]
    /\ request \in [Requests -> RequestType]
    /\ busWire \in Seq(Topics) /\ busHand \in Held /\ busEvent \in Held

observed == <<load, rows, busOn, busWire, busHand, busEvent, watch, request>>

LEMMA LoadsType ==
    ASSUME load \in DOMAIN Loads
    PROVE  /\ \A program \in Load.programs : program \in Seq(Statement)
           /\ \A wants \in Load.wants : wants \subseteq Topics
<1>1. /\ [Load EXCEPT !.programs = {}] \in LoadType
      /\ \A program \in Load.programs : program \in Seq(Statement)
  BY StorageAssumption DEF Load
<1>2. Load.wants \in SUBSET SUBSET Topics
  <2> DEFINE l == [Load EXCEPT !.programs = {}]
  <2>1. l.wants \in SUBSET SUBSET Topics /\ "wants" \in DOMAIN l
    <3>1. l \in LoadType
      BY <1>1
    <3> HIDE DEF l
    <3> QED
      BY <3>1 DEF LoadType
  <2>2. l.wants = Load.wants
    BY <2>1
  <2> QED
    BY <2>1, <2>2
<1> QED
  BY <1>1, <1>2

LEMMA NoneTypes == NoRequest \in RequestType /\ NoWatch \in WatchType
BY EmptySeq DEF NoRequest, RequestType, NoWatch, WatchType, Held

\* The changes that a transaction writes, and the one of a statement alone.
LEMMA WrittenIs ==
    ASSUME StorageType, NEW keys \in Seq(Keys)
    PROVE  /\ Written(keys) \in Seq(Change) /\ DOMAIN Written(keys) = DOMAIN keys
           /\ \A i \in DOMAIN keys : Written(keys)[i].key = keys[i]
<1> DEFINE cs == Written(keys)
           Row(i) == [key |-> keys[i], to |-> "a",
                      from |-> IF \E j \in 1 .. i - 1 : keys[j] = keys[i] THEN "a" ELSE rows[keys[i]]]
<1>1. DOMAIN keys = 1 .. Len(keys) /\ Len(keys) \in Nat
  BY LenProperties
<1>2. ASSUME NEW i \in 1 .. Len(keys)
      PROVE  cs[i] \in Change /\ cs[i].key = keys[i]
  <2>1. cs[i] = Row(i)
    BY <1>1 DEF Written
  <2>2. keys[i] \in Keys /\ rows[keys[i]] \in Values \cup {Absent}
    BY <1>1, ElementOfSeq DEF StorageType
  <2> QED
    BY <2>1, <2>2 DEF Change, Values
<1>3. DOMAIN cs = 1 .. Len(keys)
  BY <1>1 DEF Written
<1>4. cs \in Seq(Change)
  <2>1. cs \in [1 .. Len(keys) -> Change]
    <3>1. cs = [i \in 1 .. Len(keys) |-> cs[i]]
      BY <1>1 DEF Written
    <3> HIDE DEF cs
    <3> QED
      BY <1>2, <3>1
  <2> HIDE DEF cs
  <2> QED
    BY <1>1, <2>1, SeqDef
<1> QED
  BY <1>1, <1>2, <1>3, <1>4

-----------------------------------------------------------------------------
(* The inductive invariant                                                 *)

\* What a watch has looked for and not found is not registered, or its event is
\* on the way.
WatchInv(w) ==
    LET self == watch[w] IN
    /\ self.pc = "wait" => self.todo = {} /\ self.found = {}
    /\ self.pc \in {"search", "wait"} /\ ~self.blind /\ self.found = {} =>
          \A k \in self.wants \ self.todo : rows[k] # Absent => k \in OnTheWay

KeysOf(statements) == {statements[i].key : i \in DOMAIN statements}

\* What a request was asked for is applied, written in its transaction, or still
\* to do; and nothing is applied before the commit of a request that began its
\* transaction with its first statement.  The topics that it has written are told
\* or left untold, but for the one that it is to broadcast next.
RequestInv(r) ==
    LET self == request[r]
        begins == self.program[1].via = "WithTx" IN
    /\ self.todo # <<>> \/ self.announce # <<>> => self.pc = "run"
    /\ self.pc = "run" => \A k \in Range(self.writes) \cap Topics :
                            k \in Range(self.told) \cup self.untold \cup Range(self.announce)
    /\ self.pc = "run" /\ self.conn = "none" => self.writes = <<>>
    /\ self.pc = "run" /\ ~self.bare =>
          /\ KeysOf(self.program) = self.applied \cup Range(self.writes) \cup KeysOf(self.todo)
          /\ begins => /\ self.applied = {}
                       /\ self.conn = "none" => self.todo = self.program
    /\ self.pc = "ok" /\ ~self.bare => Wholly(r)
    /\ self.pc = "error" /\ ~self.bare /\ begins => self.applied = {} \/ Wholly(r)

StorageInv ==
    /\ StorageType
    /\ \A w \in Watches : WatchInv(w)
    /\ \A r \in Requests : RequestInv(r)

LEMMA InitStorageInv == Init => StorageInv
<1> SUFFICES ASSUME Init PROVE StorageInv
  OBVIOUS
<1>1. StorageType
  BY NoneTypes DEF Init, StorageType, Held
<1>2. \A w \in Watches : WatchInv(w)
  BY DEF Init, WatchInv, NoWatch
<1>3. \A r \in Requests : RequestInv(r)
  BY DEF Init, RequestInv, NoRequest
<1> QED
  BY <1>1, <1>2, <1>3 DEF StorageInv

-----------------------------------------------------------------------------
(* Watches                                                                 *)

\* A step of others: what a watch has not found stays unregistered or on its
\* way, or the watch is blind.
LEMMA WatchStays ==
    ASSUME NEW w, WatchInv(w), watch'[w].pc = watch[w].pc, watch'[w].wants = watch[w].wants,
           watch'[w].todo = watch[w].todo, watch'[w].found = watch[w].found,
           ~watch'[w].blind => /\ ~watch[w].blind
                               /\ \A k \in watch[w].wants :
                                     rows'[k] # Absent =>
                                        \/ k \in OnTheWay'
                                        \/ rows[k] # Absent /\ (k \in OnTheWay => k \in OnTheWay')
    PROVE  WatchInv(w)'
<1>1. watch[w].pc = "wait" => watch[w].todo = {} /\ watch[w].found = {}
  BY DEF WatchInv
<1>2. ASSUME watch[w].pc \in {"search", "wait"}, ~watch'[w].blind, watch[w].found = {},
             NEW k \in watch[w].wants \ watch[w].todo, rows'[k] # Absent
      PROVE  k \in OnTheWay'
  BY <1>2 DEF WatchInv
<1> QED
  BY <1>1, <1>2 DEF WatchInv

\* A commit registers topics that its transaction has told, or left untold.
LEMMA CommitKeepsWatches ==
    ASSUME StorageType, NEW cs \in Seq(Change), NEW told \in Seq(Topics), NEW untold \in SUBSET Topics,
           \A i \in DOMAIN cs : cs[i].key \in Topics /\ rows[cs[i].key] = Absent
                                  => cs[i].key \in Range(told) \cup untold,
           CommitChanges(cs, told), watch' = Deafened(told, untold), UNCHANGED <<load, bus>>
    PROVE  /\ rows' \in [Keys -> Values \cup {Absent}] /\ busWire' \in Seq(Topics)
           /\ watch' \in [Watches -> WatchType]
           /\ \A w \in Watches : WatchInv(w) => WatchInv(w)'
<1>1. rows' \in [Keys -> Values \cup {Absent}]
  <2>1. ASSUME NEW k \in Keys, NEW i \in DOMAIN cs, cs[i].key = k
        PROVE  (CHOOSE c \in Range(cs) : c.key = k).to \in Values \cup {Absent}
    <3>1. cs[i] \in Range(cs)
      BY DEF Range
    <3>2. Range(cs) \subseteq Change
      BY RangeOfSeq
    <3>3. (CHOOSE c \in Range(cs) : c.key = k) \in Range(cs)
      BY <2>1, <3>1
    <3> QED
      BY <3>2, <3>3 DEF Change
  <2>2. \A k \in Keys : (IF \E i \in DOMAIN cs : cs[i].key = k
                         THEN (CHOOSE c \in Range(cs) : c.key = k).to ELSE rows[k]) \in Values \cup {Absent}
    BY <2>1 DEF StorageType
  <2> QED
    BY <2>2 DEF CommitChanges
<1> DEFINE unheard == untold \cup IF busOn THEN {} ELSE Range(told)
<1>3. busWire' \in Seq(Topics)
  BY ConcatProperties DEF StorageType, CommitChanges
<1>4. Range(busWire') = Range(busWire) \cup (IF busOn THEN Range(told) ELSE {})
  BY RangeConcatenation DEF StorageType, CommitChanges
<1>5. OnTheWay' = OnTheWay \cup (IF busOn THEN Range(told) ELSE {})
  BY <1>4 DEF OnTheWay, bus
<1>6. ASSUME NEW w \in Watches
      PROVE  /\ watch'[w] \in WatchType
             /\ watch'[w].pc = watch[w].pc /\ watch'[w].wants = watch[w].wants
             /\ watch'[w].todo = watch[w].todo /\ watch'[w].found = watch[w].found
             /\ watch'[w].blind <=> (watch[w].blind \/ unheard \cap watch[w].wants # {})
  <2> DEFINE b == watch[w].blind \/ unheard \cap watch[w].wants # {}
  <2>1. watch'[w] = [watch[w] EXCEPT !.blind = b]
    BY DEF Deafened
  <2>2. b \in BOOLEAN /\ watch[w] \in WatchType
    BY DEF StorageType, WatchType
  <2>3. watch'[w] \in WatchType /\ watch'[w].pc = watch[w].pc /\ watch'[w].wants = watch[w].wants
        /\ watch'[w].todo = watch[w].todo /\ watch'[w].found = watch[w].found /\ watch'[w].blind = b
    <3> HIDE DEF b
    <3> QED
      BY <2>1, <2>2 DEF WatchType
  <2> QED
    BY <2>3
<1>7. watch' \in [Watches -> WatchType]
  <2>1. watch' = [w \in Watches |-> watch'[w]]
    BY DEF Deafened
  <2> QED
    BY <1>6, <2>1
<1>8. ASSUME NEW k \in Topics, rows'[k] # Absent, rows[k] = Absent PROVE k \in Range(told) \cup untold
  <2>1. k \in Keys /\ \E i \in DOMAIN cs : cs[i].key = k
    BY <1>8 DEF Topics, CommitChanges
  <2> QED
    BY <1>8, <2>1
<1>9. ASSUME NEW w \in Watches, WatchInv(w) PROVE WatchInv(w)'
  <2>1. watch[w].wants \subseteq Topics
    BY DEF StorageType, WatchType
  <2>2. ASSUME ~watch'[w].blind, NEW k \in watch[w].wants, rows'[k] # Absent
        PROVE  \/ k \in OnTheWay'
               \/ rows[k] # Absent /\ (k \in OnTheWay => k \in OnTheWay')
    <3>1. rows[k] = Absent => k \in Range(told) /\ busOn
      BY <1>6, <1>8, <2>1, <2>2
    <3> QED
      BY <1>5, <3>1
  <2> QED
    BY <1>6, <1>9, <2>2, WatchStays
<1> QED
  BY <1>1, <1>3, <1>7, <1>9

LEMMA RequestStays ==
    ASSUME NEW r, RequestInv(r),
           request'[r].pc = request[r].pc, request'[r].program = request[r].program,
           request'[r].todo = request[r].todo, request'[r].conn = request[r].conn,
           request'[r].writes = request[r].writes, request'[r].applied = request[r].applied,
           request'[r].announce = request[r].announce, request'[r].told = request[r].told,
           request'[r].untold = request[r].untold, request'[r].bare = request[r].bare
    PROVE  RequestInv(r)'
BY DEF RequestInv, Wholly

LEMMA UnchangedKeepsStorage == StorageInv /\ UNCHANGED observed => StorageInv'
<1> SUFFICES ASSUME StorageInv, UNCHANGED observed PROVE StorageInv'
  OBVIOUS
<1>1. StorageType'
  BY DEF StorageInv, StorageType, observed
<1>2. \A w \in Watches : WatchInv(w)'
  BY DEF StorageInv, WatchInv, OnTheWay, observed
<1>3. \A r \in Requests : RequestInv(r)'
  BY RequestStays DEF StorageInv, observed
<1> QED
  BY <1>1, <1>2, <1>3 DEF StorageInv

LEMMA MasterDownKeeps == StorageInv /\ MasterDown => StorageInv'
<1> SUFFICES ASSUME StorageInv, MasterDown PROVE StorageInv'
  OBVIOUS
<1>1. /\ StorageType /\ busWire' = <<>> /\ UNCHANGED <<load, rows, busHand, busEvent>>
  BY DEF MasterDown, StorageInv
<1>2. ASSUME NEW w \in Watches
      PROVE  /\ watch'[w] \in WatchType
             /\ watch'[w].pc = watch[w].pc /\ watch'[w].wants = watch[w].wants
             /\ watch'[w].todo = watch[w].todo /\ watch'[w].found = watch[w].found
             /\ watch'[w].blind <=> (watch[w].blind \/ Range(busWire) \cap watch[w].wants # {})
  <2> DEFINE b == watch[w].blind \/ Range(busWire) \cap watch[w].wants # {}
  <2>1. watch'[w] = [watch[w] EXCEPT !.blind = b]
    BY DEF MasterDown
  <2>2. b \in BOOLEAN /\ watch[w] \in WatchType
    BY <1>1 DEF StorageType, WatchType
  <2>3. watch'[w] \in WatchType /\ watch'[w].pc = watch[w].pc /\ watch'[w].wants = watch[w].wants
        /\ watch'[w].todo = watch[w].todo /\ watch'[w].found = watch[w].found /\ watch'[w].blind = b
    <3> HIDE DEF b
    <3> QED
      BY <2>1, <2>2 DEF WatchType
  <2> QED
    BY <2>3
<1>3. ASSUME NEW r \in Requests
      PROVE  request'[r] \in RequestType /\ RequestInv(r)'
  <2> DEFINE b == request[r].broken \/ request[r].conn = "master"
  <2>1. request'[r] = [request[r] EXCEPT !.broken = b]
    BY DEF MasterDown
  <2>2. b \in BOOLEAN /\ request[r] \in RequestType
    BY <1>1 DEF StorageType, RequestType
  <2> HIDE DEF b
  <2>3. /\ request'[r] \in RequestType
        /\ request'[r].pc = request[r].pc /\ request'[r].program = request[r].program
        /\ request'[r].todo = request[r].todo /\ request'[r].conn = request[r].conn
        /\ request'[r].writes = request[r].writes /\ request'[r].applied = request[r].applied
        /\ request'[r].announce = request[r].announce /\ request'[r].told = request[r].told
        /\ request'[r].untold = request[r].untold /\ request'[r].bare = request[r].bare
    BY <2>1, <2>2 DEF RequestType
  <2>4. RequestInv(r)
    BY DEF StorageInv
  <2> QED
    BY <2>3, <2>4, RequestStays
<1>4. StorageType'
  <2>1. watch' = [w \in Watches |-> watch'[w]] /\ request' = [r \in Requests |-> request'[r]]
    BY DEF MasterDown
  <2>2. watch' \in [Watches -> WatchType]
    BY <1>2, <2>1
  <2>3. request' \in [Requests -> RequestType]
    BY <1>3, <2>1
  <2> QED
    BY <1>1, <2>2, <2>3 DEF StorageType
<1>5. ASSUME NEW w \in Watches PROVE WatchInv(w)'
  <2>1. Range(busWire') = {}
    BY <1>1 DEF Range
  <2>2. OnTheWay = OnTheWay' \cup Range(busWire)
    BY <1>1, <2>1 DEF OnTheWay
  <2>3. WatchInv(w)
    BY DEF StorageInv
  <2> QED
    BY <1>1, <1>2, <2>2, <2>3, WatchStays
<1> QED
  BY <1>3, <1>4, <1>5 DEF StorageInv

\* The goroutines of the bus hand an event on and drop none.
LEMMA BusKeeps == StorageInv /\ (BusConnect \/ BusReceive \/ BusTake) => StorageInv'
<1> SUFFICES ASSUME StorageInv, BusConnect \/ BusReceive \/ BusTake PROVE StorageInv'
  OBVIOUS
<1>1. StorageType /\ UNCHANGED <<load, rows, watch, request>>
  BY DEF BusConnect, BusReceive, BusTake, NotBus, StorageInv
<1>2. ASSUME NEW k \in Topics PROVE Range(<<k>>) = {k} /\ <<k>> \in Held
  BY DEF Range, Held
<1>3. Range(<<>>) = {} /\ <<>> \in Held
  BY DEF Range, Held
<1>4. /\ busWire' \in Seq(Topics) /\ busHand' \in Held /\ busEvent' \in Held
      /\ OnTheWay' = OnTheWay
  <2>1. CASE BusConnect
    BY <1>1, <2>1 DEF BusConnect, StorageType, OnTheWay
  <2>2. CASE BusReceive
    <3>1. /\ Head(busWire) \in Topics /\ Tail(busWire) \in Seq(Topics)
          /\ Range(busWire) = {Head(busWire)} \cup Range(Tail(busWire))
      BY <1>1, <2>2, RangeHeadTail DEF BusReceive, StorageType
    <3>2. busHand = <<>> /\ busHand' = <<Head(busWire)>> /\ busWire' = Tail(busWire) /\ busEvent' = busEvent
      BY <2>2 DEF BusReceive
    <3> QED
      BY <1>1, <1>2, <1>3, <3>1, <3>2 DEF StorageType, OnTheWay
  <2>3. CASE BusTake
    <3>1. busEvent = <<>> /\ busEvent' = busHand /\ busHand' = <<>> /\ busWire' = busWire
      BY <2>3 DEF BusTake
    <3> QED
      BY <1>1, <1>3, <3>1 DEF StorageType, OnTheWay
  <2> QED
    BY <2>1, <2>2, <2>3
<1>5. StorageType'
  BY <1>1, <1>4 DEF StorageType
<1>6. \A w \in Watches : WatchInv(w)'
  BY <1>1, <1>4, WatchStays DEF StorageInv
<1>7. \A r \in Requests : RequestInv(r)'
  BY <1>1, RequestStays DEF StorageInv
<1> QED
  BY <1>5, <1>6, <1>7 DEF StorageInv

\* A step of one watch.
LEMMA OneWatchKeeps ==
    ASSUME StorageInv, NEW w \in Watches, NEW q \in WatchType, watch' = [watch EXCEPT ![w] = q],
           UNCHANGED <<NotBus, bus, busWire>>, WatchInv(w)'
    PROVE  StorageInv'
<1>1. /\ StorageType /\ UNCHANGED <<load, rows, request>> /\ OnTheWay' = OnTheWay
      /\ UNCHANGED <<busWire, busHand, busEvent>>
  BY DEF StorageInv, NotBus, bus, OnTheWay
<1>2. StorageType'
  BY <1>1 DEF StorageType
<1>3. ASSUME NEW v \in Watches, v # w PROVE WatchInv(v)'
  <2>1. watch'[v] = watch[v] /\ WatchInv(v)
    BY <1>1, <1>3 DEF StorageType, StorageInv
  <2> QED
    BY <1>1, <2>1, WatchStays
<1>4. \A r \in Requests : RequestInv(r)'
  BY <1>1, RequestStays DEF StorageInv
<1> QED
  BY <1>2, <1>3, <1>4 DEF StorageInv

LEMMA AnswerKeeps ==
    ASSUME StorageInv, NEW w \in Watches, NEW result \in {"found", "null", "empty", "error"},
           Answer(w, result), UNCHANGED <<NotBus, bus, busWire>>
    PROVE  StorageInv'
<1> DEFINE q == [NoWatch EXCEPT !.pc = result]
<1>1. q \in WatchType /\ q.pc = result
  BY DEF NoWatch, WatchType
<1>2. watch' = [watch EXCEPT ![w] = q]
  BY DEF Answer
<1>3. watch'[w] = q
  BY <1>2 DEF StorageInv, StorageType
<1> HIDE DEF q
<1>4. WatchInv(w)'
  BY <1>1, <1>3 DEF WatchInv
<1> QED
  BY <1>1, <1>2, <1>4, OneWatchKeeps

LEMMA WatchStepsKeep ==
    ASSUME StorageInv, NEW w \in Watches,
           \/ \E wants \in Load.wants : StartWatch(w, wants)
           \/ \E k \in Topics : SearchTopic(w, k)
           \/ EndSearch(w) \/ TimeOut(w)
    PROVE  StorageInv'
<1>1. StorageType /\ WatchInv(w) /\ DOMAIN watch = Watches /\ watch[w] \in WatchType
  BY DEF StorageInv, StorageType
<1>2. ASSUME NEW wants \in Load.wants, StartWatch(w, wants) PROVE StorageInv'
  <2> DEFINE q == [NoWatch EXCEPT !.pc = "search", !.wants = wants, !.todo = wants]
  <2>1. wants \subseteq Topics
    BY <1>1, LoadsType DEF StorageType
  <2>2. q \in WatchType /\ q.pc = "search" /\ q.wants = q.todo
    BY <2>1 DEF NoWatch, WatchType
  <2>3. watch' = [watch EXCEPT ![w] = q] /\ UNCHANGED <<NotBus, bus, busWire>>
    BY <1>2 DEF StartWatch
  <2> HIDE DEF q
  <2>4. WatchInv(w)'
    BY <1>1, <2>2, <2>3 DEF WatchInv
  <2> QED
    BY <2>2, <2>3, <2>4, OneWatchKeeps
<1>3. ASSUME NEW k \in Topics, SearchTopic(w, k) PROVE StorageInv'
  <2>1. CASE Look(k) = "error"
    BY <1>3, <2>1, AnswerKeeps DEF SearchTopic
  <2>2. CASE Look(k) # "error"
    <3> DEFINE b == watch[w].blind \/ ReadFrom # "master" \/ ~up
               found == IF Look(k) = "found" THEN watch[w].found \cup {k} ELSE watch[w].found
               q == [watch[w] EXCEPT !.todo = @ \ {k}, !.found = found, !.blind = b]
    <3>1. watch' = [watch EXCEPT ![w] = q] /\ UNCHANGED <<NotBus, bus, busWire>>
      <4>1. watch' = [watch EXCEPT ![w].todo = @ \ {k},
                                   ![w].found = IF Look(k) = "found" THEN @ \cup {k} ELSE @,
                                   ![w].blind = @ \/ ReadFrom # "master" \/ ~up]
        BY <1>3, <2>2 DEF SearchTopic
      <4>2. UNCHANGED <<NotBus, bus, busWire>>
        BY <1>3 DEF SearchTopic
      <4>3. [watch EXCEPT ![w].todo = @ \ {k},
                          ![w].found = IF Look(k) = "found" THEN @ \cup {k} ELSE @,
                          ![w].blind = @ \/ ReadFrom # "master" \/ ~up] = [watch EXCEPT ![w] = q]
        BY <1>1 DEF WatchType
      <4> QED
        BY <4>1, <4>2, <4>3
    <3>2. b \in BOOLEAN /\ found \in SUBSET Topics
      BY <1>1 DEF WatchType
    <3>3. watch[w].pc = "search" /\ k \in watch[w].todo
      BY <1>3 DEF SearchTopic
    <3>4. /\ q \in WatchType /\ q.pc = "search" /\ q.wants = watch[w].wants
          /\ q.todo = watch[w].todo \ {k} /\ q.found = found /\ q.blind = b
      <4> HIDE DEF b, found
      <4> QED
        BY <1>1, <3>2, <3>3 DEF WatchType
    <3>5. found = {} /\ ~b => watch[w].found = {} /\ rows[k] = Absent /\ ~watch[w].blind
      <4> SUFFICES ASSUME found = {}, ~b PROVE watch[w].found = {} /\ rows[k] = Absent /\ ~watch[w].blind
        OBVIOUS
      <4>1. ReadFrom = "master" /\ up /\ Look(k) # "found"
        OBVIOUS
      <4>2. Look(k) = IF rows[k] # Absent THEN "found" ELSE "null"
        BY <4>1 DEF Look
      <4> QED
        BY <4>1, <4>2
    <3> HIDE DEF q, b, found
    <3>6. WatchInv(w)'
      <4>1. watch'[w] = q /\ rows' = rows /\ OnTheWay' = OnTheWay
        BY <1>1, <3>1 DEF NotBus, bus, OnTheWay
      <4>2. ASSUME ~q.blind, q.found = {}, NEW j \in q.wants \ q.todo, rows[j] # Absent PROVE j \in OnTheWay
        BY <1>1, <3>3, <3>4, <3>5, <4>2 DEF WatchInv
      <4> QED
        BY <3>4, <4>1, <4>2 DEF WatchInv
    <3> QED
      BY <3>1, <3>4, <3>6, OneWatchKeeps
  <2> QED
    BY <2>1, <2>2
<1>4. CASE EndSearch(w)
  <2>1. CASE watch[w].found # {}
    BY <1>4, <2>1, AnswerKeeps DEF EndSearch
  <2>2. CASE watch[w].found = {}
    <3> DEFINE q == [watch[w] EXCEPT !.pc = "wait"]
    <3>1. watch' = [watch EXCEPT ![w] = q] /\ UNCHANGED <<NotBus, bus, busWire>>
      BY <1>4, <2>2 DEF EndSearch
    <3>2. watch[w].pc = "search" /\ watch[w].todo = {}
      BY <1>4 DEF EndSearch
    <3>3. /\ q \in WatchType /\ q.pc = "wait" /\ q.wants = watch[w].wants /\ q.todo = {} /\ q.found = {}
          /\ q.blind = watch[w].blind
      BY <1>1, <2>2, <3>2 DEF WatchType
    <3> HIDE DEF q
    <3>4. WatchInv(w)'
      <4>1. watch'[w] = q /\ rows' = rows /\ OnTheWay' = OnTheWay
        BY <1>1, <3>1 DEF NotBus, bus, OnTheWay
      <4>2. ASSUME ~q.blind, NEW j \in q.wants, rows[j] # Absent PROVE j \in OnTheWay
        BY <1>1, <2>2, <3>2, <3>3, <4>2 DEF WatchInv
      <4> QED
        BY <3>3, <4>1, <4>2 DEF WatchInv
    <3> QED
      BY <3>1, <3>3, <3>4, OneWatchKeeps
  <2> QED
    BY <2>1, <2>2
<1>5. CASE TimeOut(w)
  BY <1>5, AnswerKeeps DEF TimeOut
<1> QED
  BY <1>2, <1>3, <1>4, <1>5

\* The event that one watch takes is lost to the others, which are blind then if
\* they want it.
LEMMA ReceiveTopicKeeps ==
    ASSUME StorageInv, NEW w \in Watches, ReceiveTopic(w)
    PROVE  StorageInv'
<1> DEFINE k == busEvent[1]
           took == [v \in Watches |-> [watch[v] EXCEPT !.blind = @ \/ (v # w /\ k \in watch[v].wants)]]
<1>1. /\ StorageType /\ UNCHANGED <<load, rows, request, busWire, busHand>> /\ busEvent' = <<>>
      /\ watch[w].pc = "wait" /\ busEvent # <<>>
  BY DEF StorageInv, ReceiveTopic, NotBus
<1>2. busEvent = <<k>> /\ k \in Topics
  BY <1>1 DEF StorageType, Held
<1>3. OnTheWay = OnTheWay' \cup {k}
  BY <1>1, <1>2 DEF OnTheWay, Range
<1>4. ASSUME NEW v \in Watches
      PROVE  /\ took[v] \in WatchType
             /\ took[v].pc = watch[v].pc /\ took[v].wants = watch[v].wants
             /\ took[v].todo = watch[v].todo /\ took[v].found = watch[v].found
             /\ took[v].blind <=> (watch[v].blind \/ (v # w /\ k \in watch[v].wants))
  <2> DEFINE b == watch[v].blind \/ (v # w /\ k \in watch[v].wants)
  <2>1. took[v] = [watch[v] EXCEPT !.blind = b]
    OBVIOUS
  <2>2. b \in BOOLEAN /\ watch[v] \in WatchType
    BY <1>1 DEF StorageType, WatchType
  <2>3. /\ took[v] \in WatchType /\ took[v].pc = watch[v].pc /\ took[v].wants = watch[v].wants
        /\ took[v].todo = watch[v].todo /\ took[v].found = watch[v].found /\ took[v].blind = b
    <3> HIDE DEF b, took
    <3> QED
      BY <2>1, <2>2 DEF WatchType
  <2> QED
    BY <2>3
<1>5. DOMAIN took = Watches /\ took = [v \in Watches |-> took[v]]
  OBVIOUS
<1>6. \/ k \notin watch[w].wants /\ watch' = took
      \/ k \in watch[w].wants /\ watch' = [took EXCEPT ![w] = [NoWatch EXCEPT !.pc = Look(k)]]
  BY DEF ReceiveTopic
<1> DEFINE q == [NoWatch EXCEPT !.pc = Look(k)]
<1>7. q \in WatchType /\ q.pc \notin {"search", "wait"}
  <2>1. Look(k) \in {"found", "null", "error"}
    BY DEF Look, Cached
  <2> HIDE DEF k
  <2> QED
    BY <2>1 DEF NoWatch, WatchType
<1> HIDE DEF took, q, k
<1>8. watch' \in [Watches -> WatchType]
  BY <1>4, <1>5, <1>6, <1>7 DEF q
<1>9. StorageType'
  BY <1>1, <1>8 DEF StorageType, Held
<1>10. ASSUME NEW v \in Watches PROVE WatchInv(v)'
  <2>1. WatchInv(v)
    BY DEF StorageInv
  <2>2. CASE v # w \/ k \notin watch[w].wants
    <3>1. watch'[v] = took[v]
      BY <1>5, <1>6, <2>2
    <3>2. k \in watch[v].wants => watch'[v].blind
      BY <1>4, <2>2, <3>1
    <3> QED
      BY <1>1, <1>3, <1>4, <2>1, <3>1, <3>2, WatchStays
  <2>3. CASE v = w /\ k \in watch[w].wants
    <3>1. watch'[v] = q
      BY <1>5, <1>6, <2>3 DEF q
    <3> QED
      BY <1>7, <3>1 DEF WatchInv
  <2> QED
    BY <2>2, <2>3
<1>11. \A r \in Requests : RequestInv(r)'
  BY <1>1, RequestStays DEF StorageInv
<1> QED
  BY <1>9, <1>10, <1>11 DEF StorageInv

-----------------------------------------------------------------------------
(* Requests                                                                *)

LEMMA KeysOfHeadTail ==
    ASSUME NEW p \in Seq(Statement), p # <<>>
    PROVE  /\ Head(p) \in Statement /\ Tail(p) \in Seq(Statement) /\ Head(p) = p[1]
           /\ KeysOf(p) = {Head(p).key} \cup KeysOf(Tail(p))
<1>1. /\ Head(p) \in Statement /\ Tail(p) \in Seq(Statement)
      /\ Range(p) = {Head(p)} \cup Range(Tail(p))
  BY RangeHeadTail
<1>2. ASSUME NEW s \in Seq(Statement) PROVE KeysOf(s) = {x.key : x \in Range(s)}
  BY DEF KeysOf, Range
<1>3. KeysOf(p) = {x.key : x \in Range(p)} /\ KeysOf(Tail(p)) = {x.key : x \in Range(Tail(p))}
  BY <1>1, <1>2
<1>4. Head(p) = p[1]
  OBVIOUS
<1> QED
  BY <1>1, <1>3, <1>4

\* A step of one request, that leaves rows and watches as they should be.
LEMMA OneRequestKeeps ==
    ASSUME StorageInv, NEW r \in Requests, NEW q \in RequestType, request' = [request EXCEPT ![r] = q],
           UNCHANGED <<load, bus>>, RequestInv(r)',
           rows' \in [Keys -> Values \cup {Absent}], busWire' \in Seq(Topics),
           watch' \in [Watches -> WatchType], \A w \in Watches : WatchInv(w)'
    PROVE  StorageInv'
<1>1. StorageType
  BY DEF StorageInv
<1>2. StorageType'
  BY <1>1 DEF StorageType, bus
<1>3. ASSUME NEW s \in Requests, s # r PROVE RequestInv(s)'
  <2>1. request'[s] = request[s] /\ RequestInv(s)
    BY <1>1, <1>3 DEF StorageType, StorageInv
  <2> QED
    BY <2>1, RequestStays
<1> QED
  BY <1>2, <1>3 DEF StorageInv

LEMMA QuietRequestKeeps ==
    ASSUME StorageInv, NEW r \in Requests, NEW q \in RequestType, request' = [request EXCEPT ![r] = q],
           UNCHANGED <<NotRequest, rows, watch>>, RequestInv(r)'
    PROVE  StorageInv'
<1>1. /\ StorageType /\ UNCHANGED <<load, bus, busWire>> /\ OnTheWay' = OnTheWay
  BY DEF StorageInv, NotRequest, bus, OnTheWay
<1>2. \A w \in Watches : WatchInv(w)'
  BY <1>1, WatchStays DEF StorageInv
<1> QED
  BY <1>1, <1>2, OneRequestKeeps DEF StorageType

LEMMA BeginKeeps ==
    ASSUME StorageInv, NEW r \in Requests, NEW program \in Load.programs, Begin(r, program)
    PROVE  StorageInv'
<1> DEFINE q == [NoRequest EXCEPT !.pc = "run", !.program = program, !.todo = program]
<1>1. program \in Seq(Statement) /\ DOMAIN request = Requests
  BY LoadsType DEF StorageInv, StorageType
<1>2. /\ q \in RequestType /\ q.pc = "run" /\ q.program = program /\ q.todo = program
      /\ q.conn = "none" /\ q.writes = <<>> /\ q.announce = <<>> /\ q.applied = {} /\ ~q.bare
  BY <1>1, NoneTypes DEF NoRequest, RequestType
<1>3. request' = [request EXCEPT ![r] = q] /\ UNCHANGED <<NotRequest, rows, watch>>
  BY DEF Begin
<1> HIDE DEF q
<1>4. RequestInv(r)'
  <2>1. request'[r] = q
    BY <1>1, <1>3
  <2>2. Range(<<>>) = {}
    BY DEF Range
  <2>3. KeysOf(q.program) = q.applied \cup Range(q.writes) \cup KeysOf(q.todo)
    BY <1>2, <2>2
  <2> QED
    BY <1>2, <2>1, <2>2, <2>3 DEF RequestInv
<1> QED
  BY <1>2, <1>3, <1>4, QuietRequestKeeps

LEMMA RollbackKeeps ==
    ASSUME StorageInv, NEW r \in Requests, request[r].pc = "run", request[r].announce = <<>>, Rollback(r),
           UNCHANGED <<NotRequest, rows, watch>>
    PROVE  StorageInv'
<1> DEFINE q == [request[r] EXCEPT !.pc = "error", !.writes = <<>>, !.todo = <<>>]
<1>1. DOMAIN request = Requests /\ request[r] \in RequestType /\ RequestInv(r)
  BY DEF StorageInv, StorageType
<1>2. request' = [request EXCEPT ![r] = q]
  BY <1>1 DEF Rollback, RequestType
<1>3. /\ q \in RequestType /\ q.pc = "error" /\ q.program = request[r].program
      /\ q.todo = <<>> /\ q.announce = <<>> /\ q.applied = request[r].applied /\ q.bare = request[r].bare
  <2>1. <<>> \in Seq(Keys) /\ <<>> \in Seq(Statement)
    OBVIOUS
  <2> QED
    BY <1>1, <2>1 DEF RequestType
<1> HIDE DEF q
<1>4. RequestInv(r)'
  <2>1. request'[r] = q
    BY <1>1, <1>2
  <2> QED
    BY <1>1, <1>3, <2>1 DEF RequestInv
<1> QED
  BY <1>2, <1>3, <1>4, QuietRequestKeeps

\* While the transaction of a request has not begun, a request whose first
\* statement begins it has done nothing.
LEMMA StatementsKeep ==
    ASSUME StorageInv, NEW r \in Requests,
           SkipStatement(r) \/ RefuseStatement(r) \/ RunInTransaction(r)
    PROVE  StorageInv'
<1> DEFINE self == request[r]
<1>1. /\ DOMAIN request = Requests /\ self \in RequestType /\ RequestInv(r)
      /\ self.todo # <<>> /\ self.pc = "run" /\ self.todo \in Seq(Statement) /\ self.announce = <<>>
  BY DEF StorageInv, StorageType, SkipStatement, RefuseStatement, RunInTransaction, HasStatement, RequestInv,
         RequestType
<1>2. /\ Head(self.todo) \in Statement /\ Tail(self.todo) \in Seq(Statement)
      /\ KeysOf(self.todo) = {Head(self.todo).key} \cup KeysOf(Tail(self.todo))
  BY <1>1, KeysOfHeadTail
<1>3. CASE SkipStatement(r)
  <2> DEFINE q == [self EXCEPT !.todo = Tail(@), !.bare = TRUE]
  <2>1. request' = [request EXCEPT ![r] = q] /\ UNCHANGED <<NotRequest, rows, watch>>
    BY <1>1, <1>3 DEF SkipStatement, RequestType
  <2>2. /\ q \in RequestType /\ q.pc = "run" /\ q.bare /\ q.conn = self.conn /\ q.writes = self.writes
        /\ q.announce = self.announce /\ q.told = self.told /\ q.untold = self.untold
    BY <1>1, <1>2 DEF RequestType
  <2> HIDE DEF q
  <2>3. request'[r] = q
    BY <1>1, <2>1
  <2>4. RequestInv(r)'
    BY <1>1, <2>2, <2>3 DEF RequestInv
  <2> QED
    BY <2>1, <2>2, <2>4, QuietRequestKeeps
<1>4. CASE RefuseStatement(r)
  BY <1>1, <1>4, RollbackKeeps DEF RefuseStatement
<1>5. CASE RunInTransaction(r)
  <2> DEFINE key == Head(self.todo).key
             news == IF key \in Topics THEN <<key>> ELSE <<>>
             q == [self EXCEPT !.todo = Tail(@), !.conn = "master", !.writes = Append(@, key), !.announce = news]
  <2>1. request' = [request EXCEPT ![r] = q] /\ UNCHANGED <<NotRequest, rows, watch>>
    BY <1>1, <1>5 DEF RunInTransaction, RequestType
  <2>2. key \in Keys /\ self.writes \in Seq(Keys)
    BY <1>1, <1>2 DEF RequestType, Statement
  <2>3. Append(self.writes, key) \in Seq(Keys) /\ Range(Append(self.writes, key)) = Range(self.writes) \cup {key}
    BY <2>2, RangeAppend, AppendProperties
  <2>4. /\ q \in RequestType /\ q.pc = "run" /\ q.bare = self.bare /\ q.conn = "master"
        /\ q.writes = Append(self.writes, key) /\ q.program = self.program /\ q.applied = self.applied
        /\ q.todo = Tail(self.todo) /\ q.announce = news /\ q.told = self.told /\ q.untold = self.untold
    <3>1. news \in Held
      BY DEF Held
    <3> HIDE DEF key, news
    <3> QED
      BY <1>1, <1>2, <2>3, <3>1 DEF RequestType
  <2> HIDE DEF q
  <2>5. request'[r] = q
    BY <1>1, <2>1
  <2>6. \A k \in Range(q.writes) \cap Topics : k \in Range(q.told) \cup q.untold \cup Range(q.announce)
    <3>1. key \in Topics => key \in Range(news)
      BY DEF Range
    <3>2. Range(<<>>) = {}
      BY DEF Range
    <3>3. \A k \in Range(self.writes) \cap Topics : k \in Range(self.told) \cup self.untold
      BY <1>1, <3>2 DEF RequestInv
    <3> HIDE DEF key, news
    <3> QED
      BY <2>3, <2>4, <3>1, <3>3
  <2>7. RequestInv(r)'
    BY <1>1, <1>2, <2>3, <2>4, <2>5, <2>6 DEF RequestInv
  <2> QED
    BY <2>1, <2>4, <2>7, QuietRequestKeeps
<1> QED
  BY <1>3, <1>4, <1>5

\* A broadcast is told or left untold.
LEMMA BroadcastKeeps ==
    ASSUME StorageInv, NEW r \in Requests, Broadcast(r)
    PROVE  StorageInv'
<1> DEFINE self == request[r]
<1>1. /\ DOMAIN request = Requests /\ self \in RequestType /\ RequestInv(r) /\ self.pc = "run"
      /\ self.announce \in Held /\ self.told \in Seq(Topics) /\ self.untold \in SUBSET Topics
  BY DEF StorageInv, StorageType, RequestType, Broadcast, RequestInv
<1>2. self.announce \in Seq(Topics) /\ Range(self.announce) \subseteq Topics /\ Range(<<>>) = {}
  <2>1. <<>> \in Seq(Topics) /\ Range(<<>>) = {}
    BY DEF Range
  <2>2. ASSUME NEW k \in Topics PROVE <<k>> \in Seq(Topics) /\ Range(<<k>>) = {k}
    BY DEF Range
  <2>3. self.announce = <<>> \/ \E k \in Topics : self.announce = <<k>>
    BY <1>1 DEF Held
  <2> QED
    BY <2>1, <2>2, <2>3
<1>3. ASSUME NEW q \in RequestType, request' = [request EXCEPT ![r] = q], q.pc = "run",
             q.program = self.program, q.todo = self.todo, q.conn = self.conn, q.writes = self.writes,
             q.applied = self.applied, q.bare = self.bare, q.announce = <<>>,
             Range(self.told) \cup self.untold \cup Range(self.announce) = Range(q.told) \cup q.untold
      PROVE  StorageInv'
  <2>1. request'[r] = q
    BY <1>1, <1>3
  <2>2. RequestInv(r)'
    BY <1>1, <1>2, <1>3, <2>1 DEF RequestInv
  <2> QED
    BY <1>3, <2>2, QuietRequestKeeps DEF Broadcast
<1> DEFINE heard == [self EXCEPT !.announce = <<>>, !.told = self.told \o self.announce]
           unheard == [self EXCEPT !.announce = <<>>, !.untold = self.untold \cup Range(self.announce)]
<1>4. /\ heard \in RequestType /\ unheard \in RequestType
      /\ \A q \in {heard, unheard} :
            /\ q.pc = self.pc /\ q.program = self.program /\ q.todo = self.todo /\ q.conn = self.conn
            /\ q.writes = self.writes /\ q.applied = self.applied /\ q.bare = self.bare /\ q.announce = <<>>
      /\ heard.told = self.told \o self.announce /\ heard.untold = self.untold
      /\ unheard.told = self.told /\ unheard.untold = self.untold \cup Range(self.announce)
  <2>1. self.told \o self.announce \in Seq(Topics) /\ <<>> \in Held
    BY <1>1, <1>2, ConcatProperties DEF Held
  <2> QED
    BY <1>1, <1>2, <2>1 DEF RequestType
<1>5. Range(heard.told) = Range(self.told) \cup Range(self.announce)
  BY <1>1, <1>2, <1>4, RangeConcatenation
<1>6. request' = [request EXCEPT ![r] = heard] \/ request' = [request EXCEPT ![r] = unheard]
  BY <1>1 DEF Broadcast, RequestType
<1> HIDE DEF heard, unheard
<1> QED
  BY <1>1, <1>3, <1>4, <1>5, <1>6

LEMMA RunAloneKeeps ==
    ASSUME StorageInv, NEW r \in Requests, RunAlone(r)
    PROVE  StorageInv'
<1> DEFINE self == request[r]
           k == Head(self.todo).key
           q == [self EXCEPT !.todo = Tail(@), !.applied = @ \cup {k}]
<1>1. /\ StorageType /\ DOMAIN request = Requests /\ self \in RequestType /\ RequestInv(r)
      /\ self.todo # <<>> /\ self.pc = "run" /\ self.todo \in Seq(Statement) /\ self.announce = <<>>
  BY DEF StorageInv, StorageType, RunAlone, HasStatement, RequestInv, RequestType
<1>2. /\ Head(self.todo) \in Statement /\ Tail(self.todo) \in Seq(Statement) /\ k \in Keys
      /\ Head(self.todo) = self.todo[1]
      /\ KeysOf(self.todo) = {k} \cup KeysOf(Tail(self.todo))
  BY <1>1, KeysOfHeadTail DEF Statement
<1>3. <<k>> \in Seq(Keys)
  BY <1>2
<1>4. /\ Written(<<k>>) \in Seq(Change) /\ DOMAIN Written(<<k>>) = DOMAIN <<k>>
      /\ \A i \in DOMAIN <<k>> : Written(<<k>>)[i].key = <<k>>[i]
  BY <1>1, <1>3, WrittenIs
<1>5. CommitChanges(Written(<<k>>), <<>>) /\ watch' = watch /\ UNCHANGED <<load, bus>>
  BY DEF RunAlone
<1>9. Head(self.todo).via = "UsingDb" /\ self.conn = "none"
  BY <1>1, <1>2 DEF RunAlone, Connection, RequestType, Statement
<1>6. /\ rows' \in [Keys -> Values \cup {Absent}] /\ busWire' \in Seq(Topics)
      /\ watch' \in [Watches -> WatchType] /\ \A w \in Watches : WatchInv(w)'
  <2>1. \A i \in DOMAIN Written(<<k>>) : Written(<<k>>)[i].key \notin Topics
    BY <1>2, <1>4, <1>9 DEF Statement
  <2>2. watch' = Deafened(<<>>, {})
    <3>1. Range(<<>>) = {}
      BY DEF Range
    <3>2. ASSUME NEW w \in Watches PROVE [watch[w] EXCEPT !.blind = @] = watch[w]
      BY <1>1 DEF StorageType, WatchType
    <3>3. watch = [w \in Watches |-> watch[w]]
      BY <1>1 DEF StorageType
    <3>4. ASSUME NEW w \in Watches
          PROVE  [watch[w] EXCEPT !.blind = watch[w].blind
                     \/ ({} \cup (IF busOn THEN {} ELSE Range(<<>>))) \cap watch[w].wants # {}] = watch[w]
      <4>1. ({} \cup (IF busOn THEN {} ELSE Range(<<>>))) \cap watch[w].wants = {}
        BY <3>1
      <4>2. watch[w].blind \in BOOLEAN /\ watch[w] \in WatchType
        BY <1>1 DEF StorageType, WatchType
      <4>3. (watch[w].blind \/ ({} \cup (IF busOn THEN {} ELSE Range(<<>>))) \cap watch[w].wants # {}) = watch[w].blind
        BY <4>1, <4>2
      <4> QED
        BY <3>2, <4>3
    <3> QED
      BY <1>5, <3>3, <3>4 DEF Deafened
  <2>3. <<>> \in Seq(Topics) /\ {} \in SUBSET Topics
    OBVIOUS
  <2> QED
    BY <1>1, <1>4, <1>5, <2>1, <2>2, <2>3, CommitKeepsWatches DEF StorageInv
<1>7. request' = [request EXCEPT ![r] = q]
  BY <1>1 DEF RunAlone, RequestType
<1>8. /\ q \in RequestType /\ q.pc = "run" /\ q.bare = self.bare /\ q.conn = self.conn
      /\ q.writes = self.writes /\ q.program = self.program /\ q.applied = self.applied \cup {k}
      /\ q.todo = Tail(self.todo) /\ q.announce = self.announce /\ q.told = self.told /\ q.untold = self.untold
  BY <1>1, <1>2 DEF RequestType
<1> HIDE DEF q
<1>10. RequestInv(r)'
  <2>1. request'[r] = q
    BY <1>1, <1>7
  <2>2. self.bare \/ self.program[1].via # "WithTx"
    BY <1>1, <1>2, <1>9 DEF RequestInv
  <2> QED
    BY <1>1, <1>2, <1>8, <2>1, <2>2 DEF RequestInv
<1> QED
  BY <1>5, <1>6, <1>7, <1>8, <1>10, OneRequestKeeps

LEMMA CommitKeeps ==
    ASSUME StorageInv, NEW r \in Requests, Commit(r)
    PROVE  StorageInv'
<1> DEFINE self == request[r]
           cs == Written(self.writes)
<1>1. /\ StorageType /\ DOMAIN request = Requests /\ self \in RequestType /\ RequestInv(r)
      /\ self.todo = <<>> /\ self.announce = <<>> /\ self.pc = "run" /\ self.writes \in Seq(Keys)
      /\ self.told \in Seq(Topics) /\ self.untold \in SUBSET Topics
  BY DEF StorageInv, StorageType, Commit, RequestInv, RequestType
<1>2. KeysOf(<<>>) = {} /\ Range(<<>>) = {}
  BY DEF KeysOf, Range
<1>3. ~self.bare => KeysOf(self.program) = self.applied \cup Range(self.writes)
  BY <1>1, <1>2 DEF RequestInv
<1>4. CASE /\ CommitChanges(cs, self.told) /\ watch' = Deafened(self.told, self.untold) /\ UNCHANGED <<load, bus>>
           /\ \E result \in {"ok", "error"} :
                request' = [request EXCEPT ![r].pc = result, ![r].applied = @ \cup Range(self.writes)]
  <2>1. /\ cs \in Seq(Change)
        /\ \A i \in DOMAIN cs : cs[i].key \in Topics => cs[i].key \in Range(self.told) \cup self.untold
    <3>1. /\ cs \in Seq(Change) /\ DOMAIN cs = DOMAIN self.writes
          /\ \A i \in DOMAIN self.writes : cs[i].key = self.writes[i]
      BY <1>1, WrittenIs
    <3>2. \A i \in DOMAIN self.writes : self.writes[i] \in Range(self.writes)
      BY DEF Range
    <3>3. \A k \in Range(self.writes) \cap Topics : k \in Range(self.told) \cup self.untold
      BY <1>1, <1>2 DEF RequestInv
    <3> HIDE DEF cs
    <3> QED
      BY <3>1, <3>2, <3>3
  <2>2. /\ rows' \in [Keys -> Values \cup {Absent}] /\ busWire' \in Seq(Topics)
        /\ watch' \in [Watches -> WatchType] /\ \A w \in Watches : WatchInv(w)'
    <3> HIDE DEF cs
    <3> QED
      BY <1>1, <1>4, <2>1, CommitKeepsWatches DEF StorageInv
  <2>3. PICK result \in {"ok", "error"} :
          request' = [request EXCEPT ![r].pc = result, ![r].applied = @ \cup Range(self.writes)]
    BY <1>4
  <2> DEFINE q == [self EXCEPT !.pc = result, !.applied = @ \cup Range(self.writes)]
  <2>4. request' = [request EXCEPT ![r] = q]
    BY <1>1, <2>3 DEF RequestType
  <2>5. Range(self.writes) \subseteq Keys
    BY <1>1, RangeOfSeq
  <2>6. /\ q \in RequestType /\ q.pc = result /\ q.bare = self.bare /\ q.program = self.program
        /\ q.applied = self.applied \cup Range(self.writes) /\ q.todo = <<>> /\ q.announce = <<>>
    BY <1>1, <2>5 DEF RequestType
  <2> HIDE DEF q
  <2>7. RequestInv(r)'
    <3>1. request'[r] = q
      BY <1>1, <2>4
    <3>2. ~q.bare => q.applied = KeysOf(q.program)
      BY <1>3, <2>6
    <3> QED
      BY <2>6, <3>1, <3>2 DEF RequestInv, Wholly, KeysOf
  <2> QED
    BY <1>4, <2>2, <2>4, <2>6, <2>7, OneRequestKeeps
<1>5. CASE Rollback(r) /\ UNCHANGED <<NotRequest, rows, watch>>
  BY <1>1, <1>5, RollbackKeeps
<1>6. CASE /\ self.conn = "none" /\ request' = [request EXCEPT ![r].pc = "ok"]
           /\ UNCHANGED <<NotRequest, rows, watch>>
  <2> DEFINE q == [self EXCEPT !.pc = "ok"]
  <2>1. request' = [request EXCEPT ![r] = q]
    BY <1>6
  <2>2. /\ q \in RequestType /\ q.pc = "ok" /\ q.bare = self.bare /\ q.program = self.program
        /\ q.applied = self.applied /\ q.todo = <<>> /\ q.announce = <<>>
    BY <1>1 DEF RequestType
  <2> HIDE DEF q
  <2>3. RequestInv(r)'
    <3>1. request'[r] = q
      BY <1>1, <2>1
    <3>2. self.writes = <<>>
      BY <1>1, <1>6 DEF RequestInv
    <3>3. ~q.bare => q.applied = KeysOf(q.program)
      BY <1>2, <1>3, <2>2, <3>2
    <3> QED
      BY <2>2, <3>1, <3>3 DEF RequestInv, Wholly, KeysOf
  <2> QED
    BY <1>6, <2>1, <2>2, <2>3, QuietRequestKeeps
<1>7. CASE /\ CommitChanges(cs, self.told) /\ watch' = Deafened(self.told, self.untold)
           /\ \E result \in {"ok"} \cup IF cs # <<>> /\ outages < Load.maxOutages THEN {"error"} ELSE {} :
                request' = [request EXCEPT ![r].pc = result, ![r].applied = @ \cup Range(self.writes)]
           /\ UNCHANGED <<load, master, caching, bus, changes>>
  <2> HIDE DEF cs
  <2> QED
    BY <1>4, <1>7
<1> QED
  <2> HIDE DEF cs
  <2> QED
    BY <1>5, <1>6, <1>7 DEF Commit, cs

-----------------------------------------------------------------------------
(* Theorems                                                                *)

\* A topic that is registered elsewhere is told or not.
LEMMA CommitElsewhereKeeps ==
    ASSUME StorageInv, NEW k \in Keys, NEW v \in Values \cup {Absent}, CommitElsewhere(k, v)
    PROVE  StorageInv'
<1> DEFINE c == [key |-> k, from |-> rows[k], to |-> v]
           cs == <<c>>
           news == IF rows[k] = Absent /\ k \in Topics THEN {k} ELSE {}
<1>1. StorageType /\ c \in Change
  BY DEF StorageInv, StorageType, Change
<1>2. cs \in Seq(Change) /\ DOMAIN cs = {1} /\ cs[1].key = k
  <2>1. cs \in Seq(Change) /\ DOMAIN cs = 1 .. 1 /\ cs[1] = c
    BY <1>1
  <2>2. c.key = k
    OBVIOUS
  <2> HIDE DEF cs, c
  <2> QED
    BY <2>1, <2>2
<1>3. PICK untold \in SUBSET news :
          LET told == IF news = untold THEN <<>> ELSE <<k>> IN
          CommitChanges(cs, told) /\ watch' = Deafened(told, untold)
  BY DEF CommitElsewhere
<1> DEFINE told == IF news = untold THEN <<>> ELSE <<k>>
<1>4. /\ rows' \in [Keys -> Values \cup {Absent}] /\ busWire' \in Seq(Topics)
      /\ watch' \in [Watches -> WatchType] /\ \A w \in Watches : WatchInv(w)'
  <2>1. told \in Seq(Topics) /\ untold \in SUBSET Topics
    <3>1. news # untold => k \in Topics
      OBVIOUS
    <3> QED
      BY <3>1
  <2>2. k \in Topics /\ rows[k] = Absent => k \in Range(told) \cup untold
    BY DEF Range
  <2>3. CommitChanges(cs, told) /\ watch' = Deafened(told, untold) /\ UNCHANGED <<load, bus>>
    BY <1>3 DEF CommitElsewhere
  <2> HIDE DEF cs, told, news
  <2> QED
    BY <1>1, <1>2, <2>1, <2>2, <2>3, CommitKeepsWatches DEF StorageInv
<1>5. StorageType' /\ request' = request
  BY <1>1, <1>4 DEF StorageType, bus, CommitElsewhere
<1>6. \A r \in Requests : RequestInv(r)'
  BY <1>5, RequestStays DEF StorageInv
<1> QED
  BY <1>4, <1>5, <1>6 DEF StorageInv

LEMMA NextKeepsStorage == StorageInv /\ [Next]_vars => StorageInv'
<1> SUFFICES ASSUME StorageInv, [Next]_vars PROVE StorageInv'
  OBVIOUS
<1>1. CASE UNCHANGED observed
  BY <1>1, UnchangedKeepsStorage
<1>2. UNCHANGED vars => UNCHANGED observed
  BY DEF vars, observed
<1>3. UNCHANGED Others => UNCHANGED observed
  BY DEF Others, bus, observed
<1>4. \/ StartCache \/ DropTriggers \/ CreateTriggers \/ AttachTriggersElsewhere \/ FirstCopy
      \/ TimerFires \/ (\E t \in Tables : QueryTable(t)) \/ CopyFails \/ DeleteTable
      \/ (\E r \in copy.rows : InsertRow(r)) \/ EndTable \/ Listen \/ ReceiveSync \/ HandleSyncEvent
      => UNCHANGED Others
  BY DEF StartCache, DropTriggers, CreateTriggers, AttachTriggersElsewhere, FirstCopy, TimerFires,
         QueryTable, CopyFails, DeleteTable, InsertRow, EndTable, Listen, ReceiveSync, HandleSyncEvent,
         Others
<1>5. MasterUp \/ (\E ok \in BOOLEAN : UpdateStatus(ok)) => UNCHANGED observed
  BY DEF MasterUp, UpdateStatus, bus, observed
<1>6. ASSUME NEW w \in Watches,
             \/ \E wants \in Load.wants : StartWatch(w, wants)
             \/ \E k \in Topics : SearchTopic(w, k)
             \/ EndSearch(w) \/ ReceiveTopic(w) \/ TimeOut(w)
      PROVE  StorageInv'
  BY <1>6, WatchStepsKeep, ReceiveTopicKeeps
<1>7. ASSUME NEW r \in Requests,
             \/ \E program \in Load.programs : Begin(r, program)
             \/ SkipStatement(r) \/ RefuseStatement(r) \/ RunInTransaction(r) \/ RunAlone(r)
             \/ Broadcast(r) \/ Commit(r)
      PROVE  StorageInv'
  BY <1>7, BeginKeeps, StatementsKeep, RunAloneKeeps, BroadcastKeeps, CommitKeeps
<1> QED
  BY <1>1, <1>2, <1>3, <1>4, <1>5, <1>6, <1>7, CommitElsewhereKeeps, MasterDownKeeps, BusKeeps DEF Next

\* The invariant from which the properties of watches and requests follow.
THEOREM Inductive == Spec => []StorageInv
BY InitStorageInv, NextKeepsStorage, PTL DEF Spec

\* A request that is answered with success has done all its writes, and one that
\* began its transaction with WithTx has done all or none (UsingDb, WithTx), for
\* any programs, through any number of outages and false alarms.
THEOREM RequestsAreWhole == Spec => []RequestIsWhole
<1>1. StorageInv => RequestIsWhole
  BY DEF StorageInv, RequestInv, RequestIsWhole
<1> QED
  BY <1>1, Inductive, PTL

\* A watch that has looked on the master and waits has no topic that is
\* registered and of which no event is on its way (WatchTopicsCreate, Broadcast,
\* the event bus), for any number of watches, topics and requests, except for
\* events that WatchHasEvent names.
THEOREM NoWatchInVain == Spec => []WatchHasEvent
<1>1. StorageInv => WatchHasEvent
  BY DEF StorageInv, WatchInv, WatchHasEvent
<1> QED
  BY <1>1, Inductive, PTL
-----------------------------------------------------------------------------
(* The replica cache: when nothing has met a copy, the cache and the       *)
(* events on their way to it add up to the committed rows                  *)

Bags == [Keys \X Values -> Nat]

-----------------------------------------------------------------------------
(* What an event does to the cache                                         *)

LEMMA AppliedIs ==
    ASSUME NEW bag \in Bags, NEW c \in Change
    PROVE  /\ Applied(bag, c) \in Bags
           /\ \A k \in Keys \ {c.key}, v \in Values : Applied(bag, c)[<<k, v>>] = bag[<<k, v>>]
           /\ c.from = Absent => \A v \in Values : Applied(bag, c)[<<c.key, v>>]
                                                     = bag[<<c.key, v>>] + (IF v = c.to THEN 1 ELSE 0)
           /\ c.from = "a" /\ c.to = Absent => /\ Applied(bag, c)[<<c.key, "a">>] = 0
                                               /\ Applied(bag, c)[<<c.key, "null">>] = bag[<<c.key, "null">>]
           /\ c.from = "a" /\ c.to = "a" => Applied(bag, c) = bag
<1> DEFINE k == c.key
           was == bag[<<c.key, c.from>>]
<1>1. /\ k \in Keys /\ c.from \in {"a", "null", "absent"} /\ c.to \in {"a", "null", "absent"}
      /\ Values = {"a", "null"} /\ Absent = "absent"
  BY DEF Change, Values, Absent
<1>2. \A v \in Values : <<k, v>> \in Keys \X Values /\ bag[<<k, v>>] \in Nat
  BY <1>1 DEF Bags
<1>3. c.from # Absent => was \in Nat
  BY <1>1, <1>2
<1>4. CASE c.from = Absent
  <2>1. Applied(bag, c) = [bag EXCEPT ![<<k, c.to>>] = @ + 1]
    BY <1>4 DEF Applied
  <2>2. CASE c.to \in Values
    <3>1. <<k, c.to>> \in Keys \X Values /\ bag[<<k, c.to>>] + 1 \in Nat
      BY <1>2, <2>2
    <3>2. Applied(bag, c) \in Bags
      BY <2>1, <3>1 DEF Bags
    <3>3. \A p \in Keys \X Values : Applied(bag, c)[p] = IF p = <<k, c.to>> THEN bag[p] + 1 ELSE bag[p]
      BY <2>1 DEF Bags
    <3> QED
      BY <1>1, <1>2, <1>4, <2>2, <3>2, <3>3
  <2>3. CASE c.to \notin Values
    <3>1. <<k, c.to>> \notin Keys \X Values
      BY <2>3
    <3>2. Applied(bag, c) = bag
      BY <2>1, <3>1 DEF Bags
    <3> QED
      BY <1>1, <1>2, <1>4, <2>3, <3>2
  <2> QED
    BY <2>2, <2>3
<1>5. CASE c.from = "null"
  <2>1. Applied(bag, c) = bag
    BY <1>1, <1>5 DEF Applied
  <2> QED
    BY <1>1, <1>5, <2>1
<1>6. CASE c.from = "a" /\ c.to = Absent
  <2>1. Applied(bag, c) = [bag EXCEPT ![<<k, "a">>] = 0]
    BY <1>1, <1>6 DEF Applied
  <2> QED
    BY <1>1, <1>2, <1>6, <2>1 DEF Bags
<1>7. CASE c.from = "a" /\ c.to # Absent
  <2> DEFINE gone == [bag EXCEPT ![<<k, "a">>] = 0]
  <2>1. Applied(bag, c) = [gone EXCEPT ![<<k, c.to>>] = @ + was]
    BY <1>1, <1>7 DEF Applied, Moved
  <2>2. /\ was = bag[<<k, "a">>]
        /\ gone \in Bags /\ gone[<<k, "a">>] = 0 /\ gone[<<k, "null">>] = bag[<<k, "null">>]
        /\ \A j \in Keys \ {k}, v \in Values : gone[<<j, v>>] = bag[<<j, v>>]
    BY <1>1, <1>2, <1>7 DEF Bags
  <2> HIDE DEF was, gone
  <2>3. Applied(bag, c) \in Bags
    BY <1>1, <1>2, <1>3, <1>7, <2>1, <2>2 DEF Bags
  <2>4. \A j \in Keys \ {k}, v \in Values : Applied(bag, c)[<<j, v>>] = bag[<<j, v>>]
    <3>1. <<k, c.to>> \in Keys \X Values /\ gone[<<k, c.to>>] \in Nat /\ was \in Nat
      BY <1>1, <1>3, <1>7, <2>2 DEF Bags
    <3> QED
      BY <2>1, <2>2, <3>1 DEF Bags
  <2>5. ASSUME c.to = "a" PROVE Applied(bag, c) = bag
    <3>1. Applied(bag, c)[<<k, "a">>] = 0 + was /\ Applied(bag, c)[<<k, "null">>] = bag[<<k, "null">>]
      BY <1>1, <1>2, <2>1, <2>2, <2>5 DEF Bags
    <3>2. 0 + was = was
      BY <1>1, <1>3, <1>7
    <3>3. ASSUME NEW j \in Keys, NEW v \in Values PROVE Applied(bag, c)[<<j, v>>] = bag[<<j, v>>]
      BY <1>1, <2>2, <2>4, <3>1, <3>2
    <3> QED
      BY <2>3, <3>3 DEF Bags
  <2> QED
    BY <1>1, <1>7, <2>3, <2>4, <2>5
<1> QED
  BY <1>1, <1>4, <1>5, <1>6, <1>7

-----------------------------------------------------------------------------
(* What a sequence of events does                                          *)

\* The states of the cache on the way through the events.
Through(f, bag, cs) ==
    /\ f \in [0 .. Len(cs) -> Bags] /\ f[0] = bag
    /\ \A n \in 1 .. Len(cs) : f[n] = Applied(f[n - 1], cs[n])

LEMMA ThroughIsUnique ==
    ASSUME NEW bag, NEW cs \in Seq(Change), NEW f, NEW g, Through(f, bag, cs), Through(g, bag, cs)
    PROVE  f = g
<1> DEFINE S == {n \in 0 .. Len(cs) : f[n] = g[n]}
<1>1. Len(cs) \in Nat
  OBVIOUS
<1>2. 0 \in S
  BY <1>1 DEF Through
<1>3. \A n \in 1 .. Len(cs) : n - 1 \in S => n \in S
  BY <1>1 DEF Through
<1>4. 0 .. Len(cs) \subseteq S
  <2> HIDE DEF S
  <2> QED
    BY <1>1, <1>2, <1>3, SetInduction
<1> QED
  BY <1>4 DEF Through

LEMMA CacheAfterIs ==
    ASSUME NEW bag \in Bags, NEW cs \in Seq(Change)
    PROVE  \E f : Through(f, bag, cs) /\ CacheAfter(bag, cs) = f[Len(cs)]
<1> DEFINE m == Len(cs)
           G == [x \in Bags \X (1 .. m) |-> Applied(x[1], cs[x[2]])]
           Body(f) == [n \in 0 .. m |-> IF n = 0 THEN bag ELSE Applied(f[n - 1], cs[n])]
<1>1. m \in Nat
  OBVIOUS
<1>2. \A x \in Bags, n \in 1 .. m : G[<<x, n>>] = Applied(x, cs[n])
  OBVIOUS
<1>3. G \in StepFunctions(Bags, m)
  <2>1. ASSUME NEW x \in Bags \X (1 .. m) PROVE Applied(x[1], cs[x[2]]) \in Bags
    <3>1. x[1] \in Bags /\ x[2] \in 1 .. m /\ cs[x[2]] \in Change
      BY ElementOfSeq
    <3> QED
      BY <3>1, AppliedIs
  <2> QED
    BY <2>1 DEF StepFunctions
<1>4. PICK f \in [0 .. m -> Bags] : f[0] = bag /\ \A n \in 1 .. m : f[n] = G[<<f[n - 1], n>>]
  <2> HIDE DEF G, m
  <2>1. HasIterates(Bags, bag, m, G)
    BY <1>1, <1>3, Iterates
  <2> QED
    BY <2>1 DEF HasIterates
<1>5. \A n \in 1 .. m : f[n] = Applied(f[n - 1], cs[n])
  <2>1. \A n \in 1 .. m : n - 1 \in 0 .. m
    BY <1>1
  <2> HIDE DEF G, m
  <2> QED
    BY <1>2, <1>4, <2>1
<1> HIDE DEF G
<1>6. f = Body(f)
  <2>1. f = [n \in 0 .. m |-> f[n]]
    BY <1>4
  <2>2. ASSUME NEW n \in 0 .. m PROVE f[n] = IF n = 0 THEN bag ELSE Applied(f[n - 1], cs[n])
    <3>1. CASE n = 0
      BY <1>4, <3>1
    <3>2. CASE n # 0
      <4>1. n \in 1 .. m
        BY <1>1, <3>2
      <4> HIDE DEF m
      <4> QED
        BY <1>5, <3>2, <4>1
    <3> QED
      BY <3>1, <3>2
  <2> QED
    BY <2>1, <2>2
<1>7. PICK g : g = Body(g) /\ CacheAfter(bag, cs) = g[m]
  BY <1>6 DEF CacheAfter
<1>8. DOMAIN g = 0 .. m /\ g[0] = bag
  BY <1>1, <1>7
<1>9. \A n \in 1 .. m : g[n] = Applied(g[n - 1], cs[n])
  <2> SUFFICES ASSUME NEW n \in 1 .. m PROVE g[n] = Applied(g[n - 1], cs[n])
    OBVIOUS
  <2>1. n \in 0 .. m /\ n # 0
    BY <1>1
  <2>2. g[n] = Body(g)[n]
    BY <1>7
  <2> QED
    BY <2>1, <2>2
<1>10. g = f
  <2> DEFINE S == {n \in 0 .. m : g[n] = f[n]}
  <2>1. 0 \in S
    BY <1>1, <1>4, <1>8
  <2>2. \A n \in 1 .. m : n - 1 \in S => n \in S
    BY <1>1, <1>5, <1>9
  <2>3. 0 .. m \subseteq S
    <3> HIDE DEF S
    <3> QED
      BY <1>1, <2>1, <2>2, SetInduction
  <2> QED
    BY <1>4, <1>7, <2>3
<1> QED
  BY <1>4, <1>5, <1>7, <1>10 DEF Through

LEMMA ThroughGives ==
    ASSUME NEW bag \in Bags, NEW cs \in Seq(Change), NEW f, Through(f, bag, cs)
    PROVE  CacheAfter(bag, cs) = f[Len(cs)] /\ CacheAfter(bag, cs) \in Bags
<1>1. PICK g : Through(g, bag, cs) /\ CacheAfter(bag, cs) = g[Len(cs)]
  BY CacheAfterIs
<1>2. f = g
  BY <1>1, ThroughIsUnique
<1> QED
  BY <1>1, <1>2 DEF Through

LEMMA CacheAfterType ==
    ASSUME NEW bag \in Bags, NEW cs \in Seq(Change)
    PROVE  CacheAfter(bag, cs) \in Bags
BY CacheAfterIs, ThroughGives

LEMMA CacheAfterNone == \A bag \in Bags : CacheAfter(bag, <<>>) = bag
<1> SUFFICES ASSUME NEW bag \in Bags PROVE CacheAfter(bag, <<>>) = bag
  OBVIOUS
<1>1. <<>> \in Seq(Change) /\ Len(<<>>) = 0
  OBVIOUS
<1>2. PICK g : Through(g, bag, <<>>) /\ CacheAfter(bag, <<>>) = g[Len(<<>>)]
  BY <1>1, CacheAfterIs
<1> QED
  BY <1>1, <1>2 DEF Through

LEMMA CacheAfterOne ==
    ASSUME NEW bag \in Bags, NEW c \in Change
    PROVE  CacheAfter(bag, <<c>>) = Applied(bag, c)
<1> DEFINE cs == <<c>>
<1>1. cs \in Seq(Change) /\ Len(cs) = 1 /\ cs[1] = c
  OBVIOUS
<1> HIDE DEF cs
<1>2. PICK g : Through(g, bag, cs) /\ CacheAfter(bag, cs) = g[Len(cs)]
  BY <1>1, CacheAfterIs
<1>3. g[1] = Applied(g[1 - 1], cs[1]) /\ g[0] = bag
  BY <1>1, <1>2 DEF Through
<1> QED
  BY <1>1, <1>2, <1>3 DEF cs

\* Events that come after others find the cache as those leave it.
LEMMA CacheAfterConcat ==
    ASSUME NEW bag \in Bags, NEW s \in Seq(Change), NEW t \in Seq(Change)
    PROVE  CacheAfter(bag, s \o t) = CacheAfter(CacheAfter(bag, s), t)
<1> DEFINE mid == CacheAfter(bag, s)
           cs == s \o t
<1>1. mid \in Bags
  BY CacheAfterType
<1>2. PICK f : Through(f, bag, s) /\ mid = f[Len(s)]
  BY CacheAfterIs
<1> HIDE DEF mid
<1>3. PICK g : Through(g, mid, t) /\ CacheAfter(mid, t) = g[Len(t)]
  BY <1>1, CacheAfterIs
<1> DEFINE a == Len(s)
           b == Len(t)
           h == [n \in 0 .. a + b |-> IF n <= a THEN f[n] ELSE g[n - a]]
<1>4. /\ a \in Nat /\ b \in Nat /\ cs \in Seq(Change) /\ Len(cs) = a + b
      /\ \A n \in 1 .. a + b : cs[n] = IF n <= a THEN s[n] ELSE t[n - a]
  BY ConcatProperties, LenProperties
<1>5. /\ f \in [0 .. a -> Bags] /\ f[0] = bag /\ \A n \in 1 .. a : f[n] = Applied(f[n - 1], s[n])
      /\ g \in [0 .. b -> Bags] /\ g[0] = mid /\ \A n \in 1 .. b : g[n] = Applied(g[n - 1], t[n])
  BY <1>2, <1>3 DEF Through
<1>6. mid = f[a]
  BY <1>2
<1> HIDE DEF a, b, cs
<1>7. h \in [0 .. a + b -> Bags]
  <2>1. ASSUME NEW n \in 0 .. a + b PROVE (IF n <= a THEN f[n] ELSE g[n - a]) \in Bags
    <3>1. CASE n <= a
      <4>1. n \in 0 .. a
        BY <1>4, <3>1
      <4> QED
        BY <1>5, <3>1, <4>1
    <3>2. CASE ~ (n <= a)
      <4>1. n - a \in 0 .. b
        BY <1>4, <3>2
      <4> QED
        BY <1>5, <3>2, <4>1
    <3> QED
      BY <3>1, <3>2
  <2> QED
    BY <2>1
<1>8. h[0] = bag
  BY <1>4, <1>5
<1>9. ASSUME NEW n \in 1 .. a + b PROVE h[n] = Applied(h[n - 1], cs[n])
  <2>1. CASE n <= a
    <3>1. n \in 1 .. a /\ h[n] = f[n] /\ h[n - 1] = f[n - 1] /\ cs[n] = s[n]
      BY <1>4, <2>1
    <3> HIDE DEF h
    <3> QED
      BY <1>5, <3>1
  <2>2. CASE n = a + 1
    <3>1. h[n] = g[1] /\ h[n - 1] = f[a] /\ cs[n] = t[1] /\ 1 \in 1 .. b
      BY <1>4, <2>2
    <3>2. g[1] = Applied(g[1 - 1], t[1]) /\ 1 - 1 = 0
      BY <1>5, <3>1
    <3> HIDE DEF h
    <3> QED
      BY <1>5, <1>6, <3>1, <3>2
  <2>3. CASE n > a + 1
    <3>1. /\ n - a \in 1 .. b /\ h[n] = g[n - a] /\ h[n - 1] = g[(n - a) - 1] /\ cs[n] = t[n - a]
      BY <1>4, <2>3
    <3> HIDE DEF h
    <3> QED
      BY <1>5, <3>1
  <2> QED
    BY <1>4, <2>1, <2>2, <2>3
<1>10. Through(h, bag, cs)
  <2> HIDE DEF h
  <2> QED
    BY <1>4, <1>7, <1>8, <1>9 DEF Through
<1>11. CacheAfter(bag, cs) = h[a + b]
  <2> HIDE DEF h
  <2>1. cs \in Seq(Change) /\ Len(cs) = a + b
    BY <1>4
  <2>2. CacheAfter(bag, cs) = h[Len(cs)]
    BY <1>10, <2>1, ThroughGives
  <2> QED
    BY <2>1, <2>2
<1>12. h[a + b] = g[b]
  <2>1. CASE b = 0
    BY <1>4, <1>5, <1>6, <2>1
  <2>2. CASE b # 0
    BY <1>4, <2>2
  <2> QED
    BY <2>1, <2>2
<1> QED
  BY <1>3, <1>11, <1>12 DEF b, cs, mid

-----------------------------------------------------------------------------
(* The inductive invariant                                                 *)

\* The keys of rows that hold no NULL.
Entire == Keys \ Load.nullable

\* How often a row should be in the cache.
Count(k, v) == IF rows[k] = v THEN 1 ELSE 0

Faithful(bag) == \A k \in Entire, v \in Values : bag[<<k, v>>] = Count(k, v)

CopyType ==
    /\ copy \in [left : SUBSET Tables, table : Tables \cup {"none"}, deleted : BOOLEAN,
                 rows : SUBSET (Keys \X Values)]
    /\ copy.table # "none" => copy.table \in copy.left
    /\ copy.deleted => copy.table # "none"
    /\ \A x \in copy.rows : TableOf[x[1]] = copy.table

CacheType ==
    /\ cache \in Bags /\ wire \in Seq(Change) /\ queue \in Seq(Change) /\ gap \in BOOLEAN
    /\ CopyType

\* The tables that the copy has done are as they are on the master.  What it has
\* read of its table is what is there; and while it inserts, what it has left
\* and what is in the cache make up the table.
RowCopied(k, v) ==
    /\ TableOf[k] \notin copy.left => cache[<<k, v>>] = Count(k, v)
    /\ TableOf[k] = copy.table =>
          /\ <<k, v>> \in copy.rows => rows[k] = v
          /\ ~copy.deleted => (rows[k] = v => <<k, v>> \in copy.rows)
          /\ copy.deleted => cache[<<k, v>>] = IF <<k, v>> \in copy.rows THEN 0 ELSE Count(k, v)

HalfCopied == \A k \in Entire, v \in Values : RowCopied(k, v)

CacheInv ==
    /\ CacheType
    /\ \A k \in Entire : rows[k] # "null"
    /\ ~gap /\ Copying => Pending = <<>> /\ HalfCopied
    /\ ~gap /\ ~Copying => Faithful(CacheToBe)

cached == <<load, rows, gap, cache, copy, queue, wire>>

LEMMA InitCacheInv == Init => CacheInv
<1> SUFFICES ASSUME Init PROVE CacheInv
  OBVIOUS
<1>1. cache \in Bags /\ wire \in Seq(Change) /\ queue \in Seq(Change) /\ gap = TRUE
  BY EmptySeq DEF Init, Bag0, Bags
<1>2. CopyType
  BY DEF Init, NoCopy, CopyType
<1>3. \A k \in Entire : rows[k] # "null"
  BY DEF Init, Absent, Entire
<1> QED
  BY <1>1, <1>2, <1>3 DEF CacheInv, CacheType

LEMMA UnchangedKeepsCache == CacheInv /\ UNCHANGED cached => CacheInv'
<1> SUFFICES ASSUME CacheInv, UNCHANGED cached PROVE CacheInv'
  OBVIOUS
<1>1. UNCHANGED <<load, rows, gap, cache, copy, queue, wire>>
  BY DEF cached
<1>2. CacheType'
  BY <1>1 DEF CacheInv, CacheType, CopyType
<1>3. Entire' = Entire /\ Pending' = Pending /\ Copying' = Copying /\ CacheToBe' = CacheToBe
  BY <1>1 DEF Entire, Load, Pending, Copying, CacheToBe
<1>4. (HalfCopied => HalfCopied') /\ (Faithful(CacheToBe) => Faithful(CacheToBe)')
  BY <1>1, <1>3 DEF HalfCopied, RowCopied, Faithful, Count
<1> QED
  BY <1>1, <1>2, <1>3, <1>4 DEF CacheInv

-----------------------------------------------------------------------------
(* Commits                                                                 *)

\* Changes that set rows to the same value, each saying what the row was.
Honest(cs, v) ==
    \A i \in 1 .. Len(cs) :
        /\ cs[i].to = v
        /\ cs[i].from = IF \E j \in 1 .. i - 1 : cs[j].key = cs[i].key THEN v ELSE rows[cs[i].key]

\* The row of a key after the first n of these changes.
RowAfter(cs, v, n, k) == IF \E j \in 1 .. n : cs[j].key = k THEN v ELSE rows[k]

LEMMA HonestIsFollowed ==
    ASSUME StorageInv, NEW bag \in Bags, Faithful(bag), \A k \in Entire : rows[k] # "null",
           NEW v \in Values \cup {Absent}, NEW cs \in Seq(Change), Honest(cs, v),
           v = "null" => \A i \in 1 .. Len(cs) : cs[i].key \notin Entire
    PROVE  \A k \in Entire, x \in Values :
              CacheAfter(bag, cs)[<<k, x>>] = IF RowAfter(cs, v, Len(cs), k) = x THEN 1 ELSE 0
<1>1. PICK f : Through(f, bag, cs) /\ CacheAfter(bag, cs) = f[Len(cs)]
  BY CacheAfterIs
<1> DEFINE Right(n, k, x) == f[n][<<k, x>>] = IF RowAfter(cs, v, n, k) = x THEN 1 ELSE 0
           S == {n \in 0 .. Len(cs) : \A k \in Entire, x \in Values : Right(n, k, x)}
<1>2. /\ Len(cs) \in Nat /\ Entire \subseteq Keys /\ rows \in [Keys -> Values \cup {Absent}]
      /\ Values = {"a", "null"} /\ Absent = "absent"
  BY DEF Entire, StorageInv, StorageType, Values, Absent
<1>3. 0 \in S
  <2>1. \A k : RowAfter(cs, v, 0, k) = rows[k]
    BY DEF RowAfter
  <2> QED
    BY <1>1, <1>2, <2>1 DEF Through, Faithful, Count
<1>4. ASSUME NEW n \in 1 .. Len(cs), n - 1 \in S PROVE n \in S
  <2> DEFINE c == cs[n]
             was == RowAfter(cs, v, n - 1, c.key)
  <2>1. /\ c \in Change /\ c.key \in Keys /\ c.to = v /\ c.from = was
        /\ f[n] = Applied(f[n - 1], c) /\ f[n - 1] \in Bags
    <3>1. c \in Change /\ n - 1 \in 0 .. Len(cs)
      BY ElementOfSeq
    <3> QED
      BY <1>1, <3>1 DEF Honest, RowAfter, Through, Change
  <2> HIDE DEF c
  <2> DEFINE bag0 == f[n - 1]
  <2>2. /\ \A k \in Keys \ {c.key}, x \in Values : f[n][<<k, x>>] = bag0[<<k, x>>]
        /\ was = Absent => \A x \in Values : f[n][<<c.key, x>>]
                                              = bag0[<<c.key, x>>] + (IF x = v THEN 1 ELSE 0)
        /\ was = "a" /\ v = Absent => /\ f[n][<<c.key, "a">>] = 0
                                      /\ f[n][<<c.key, "null">>] = bag0[<<c.key, "null">>]
        /\ was = "a" /\ v = "a" => f[n] = bag0
    <3>1. bag0 \in Bags /\ f[n] = Applied(bag0, c)
      BY <2>1
    <3> HIDE DEF bag0, was
    <3>2. /\ \A k \in Keys \ {c.key}, x \in Values : Applied(bag0, c)[<<k, x>>] = bag0[<<k, x>>]
          /\ c.from = Absent => \A x \in Values : Applied(bag0, c)[<<c.key, x>>]
                                                    = bag0[<<c.key, x>>] + (IF x = c.to THEN 1 ELSE 0)
          /\ c.from = "a" /\ c.to = Absent => /\ Applied(bag0, c)[<<c.key, "a">>] = 0
                                              /\ Applied(bag0, c)[<<c.key, "null">>] = bag0[<<c.key, "null">>]
          /\ c.from = "a" /\ c.to = "a" => Applied(bag0, c) = bag0
      BY <2>1, <3>1, AppliedIs
    <3> QED
      BY <2>1, <3>1, <3>2
  <2>3. RowAfter(cs, v, n, c.key) = v
    BY DEF RowAfter, c
  <2>4. ASSUME NEW k, k # c.key PROVE RowAfter(cs, v, n, k) = RowAfter(cs, v, n - 1, k)
    <3>1. (\E j \in 1 .. n : cs[j].key = k) <=> (\E j \in 1 .. n - 1 : cs[j].key = k)
      BY <2>4 DEF c
    <3> QED
      BY <3>1 DEF RowAfter
  <2>5. c.key \in Entire => was # "null" /\ v # "null"
    BY DEF RowAfter, c
  <2>6. \A k \in Entire, x \in Values : Right(n - 1, k, x)
    BY <1>4
  <2>7. ASSUME NEW k \in Entire, NEW x \in Values PROVE Right(n, k, x)
    <3>1. CASE k # c.key
      <4>1. f[n][<<k, x>>] = f[n - 1][<<k, x>>]
        BY <1>2, <2>2, <3>1
      <4> QED
        BY <2>4, <2>6, <3>1, <4>1
    <3>2. CASE k = c.key
      <4>1. f[n - 1][<<k, x>>] = IF was = x THEN 1 ELSE 0
        BY <2>6, <3>2
      <4>2. was \in {"a", "absent"} /\ v \in {"a", "absent"}
        <5>1. was \in Values \cup {Absent}
          BY <2>1 DEF Change
        <5> QED
          BY <1>2, <2>5, <3>2, <5>1
      <4>3. f[n][<<k, x>>] = IF v = x THEN 1 ELSE 0
        <5>1. CASE was = "absent"
          <6>1. f[n][<<k, x>>] = f[n - 1][<<k, x>>] + (IF x = v THEN 1 ELSE 0)
            BY <1>2, <2>2, <3>2, <5>1
          <6>2. f[n - 1][<<k, x>>] = 0
            BY <1>2, <4>1, <5>1
          <6> QED
            BY <6>1, <6>2
        <5>2. CASE was = "a" /\ v = "absent"
          <6>1. f[n][<<k, "a">>] = 0 /\ f[n][<<k, "null">>] = f[n - 1][<<k, "null">>]
            BY <1>2, <2>2, <3>2, <5>2
          <6> QED
            BY <1>2, <4>1, <5>2, <6>1
        <5>3. CASE was = "a" /\ v = "a"
          <6>1. f[n] = f[n - 1]
            BY <1>2, <2>2, <3>2, <5>3
          <6> QED
            BY <4>1, <5>3, <6>1
        <5> QED
          BY <4>2, <5>1, <5>2, <5>3
      <4> QED
        BY <2>3, <3>2, <4>3
    <3> QED
      BY <3>1, <3>2
  <2> QED
    BY <2>7
<1>5. Len(cs) \in S
  <2> HIDE DEF S
  <2>1. 0 .. Len(cs) \subseteq S
    BY <1>2, <1>3, <1>4, SetInduction
  <2> QED
    BY <1>2, <2>1
<1> QED
  BY <1>1, <1>5

LEMMA CommitKeepsCache ==
    ASSUME StorageInv, CacheInv, NEW v \in Values \cup {Absent}, NEW cs \in Seq(Change), Honest(cs, v),
           v = "null" => \A i \in 1 .. Len(cs) : cs[i].key \notin Entire,
           NEW told, CommitChanges(cs, told), UNCHANGED <<load, caching>>
    PROVE  CacheInv'
<1>1. /\ Len(cs) \in Nat /\ DOMAIN cs = 1 .. Len(cs)
      /\ UNCHANGED <<load, cache, copy, queue>> /\ Entire' = Entire /\ Copying' = Copying
      /\ CacheType /\ Entire \subseteq Keys
  BY LenProperties DEF caching, Entire, Load, Copying, CacheInv
<1>2. \A k \in Keys : rows'[k] = RowAfter(cs, v, Len(cs), k)
  <2> SUFFICES ASSUME NEW k \in Keys PROVE rows'[k] = RowAfter(cs, v, Len(cs), k)
    OBVIOUS
  <2>1. rows'[k] = IF \E i \in DOMAIN cs : cs[i].key = k
                   THEN (CHOOSE c \in Range(cs) : c.key = k).to ELSE rows[k]
    BY DEF CommitChanges
  <2>2. ASSUME NEW i \in DOMAIN cs, cs[i].key = k PROVE (CHOOSE c \in Range(cs) : c.key = k).to = v
    <3>1. cs[i] \in Range(cs)
      BY DEF Range
    <3>2. (CHOOSE c \in Range(cs) : c.key = k) \in Range(cs)
      BY <2>2, <3>1
    <3>3. \A c \in Range(cs) : c.to = v
      BY <1>1 DEF Range, Honest
    <3> QED
      BY <3>2, <3>3
  <2> QED
    BY <1>1, <2>1, <2>2 DEF RowAfter
<1>3. \A k \in Entire' : rows'[k] # "null"
  BY <1>1, <1>2 DEF RowAfter, CacheInv
<1>4. CASE cs = <<>>
  <2>1. Len(cs) = 0
    BY <1>4
  <2>2. \A k \in Keys : rows'[k] = rows[k]
    BY <1>2, <2>1 DEF RowAfter
  <2>3. wire' = wire /\ gap' = gap
    <3>1. wire \o <<>> = wire
      BY <1>1, ConcatEmptySeq DEF CacheType
    <3> QED
      BY <1>1, <1>4, <3>1 DEF CommitChanges, CacheType
  <2>4. rows' = rows
    <3>1. rows' = [k \in Keys |-> rows'[k]]
      BY DEF CommitChanges
    <3>2. rows = [k \in Keys |-> rows[k]]
      BY DEF StorageInv, StorageType
    <3> QED
      BY <2>2, <3>1, <3>2
  <2> QED
    BY <1>1, <2>3, <2>4, UnchangedKeepsCache DEF cached
<1>5. CASE cs # <<>>
  <2>1. CacheType'
    <3>1. wire' \in Seq(Change)
      BY <1>1, ConcatProperties DEF CommitChanges, CacheType
    <3>2. gap' \in BOOLEAN
      BY <1>1 DEF CommitChanges, CacheType
    <3> QED
      BY <1>1, <3>1, <3>2 DEF CacheType, CopyType
  <2>2. ASSUME ~gap' PROVE ~Copying' /\ Faithful(CacheToBe)'
    <3>1. ~gap /\ ~Copying /\ listener = "listening" /\ triggers /\ wire' = wire \o cs
      BY <1>5, <2>2 DEF CommitChanges
    <3>2. Faithful(CacheToBe)
      BY <3>1 DEF CacheInv
    <3>3. Pending \in Seq(Change) /\ Pending' = Pending \o cs
      <4>1. wire \in Seq(Change) /\ queue \in Seq(Change) /\ queue' = queue
        BY <1>1 DEF CacheType
      <4>2. (queue \o wire) \o cs = queue \o (wire \o cs)
        BY <4>1, ConcatAssociative
      <4>3. queue \o wire \in Seq(Change)
        BY <4>1, ConcatProperties
      <4> QED
        BY <3>1, <4>1, <4>2, <4>3 DEF Pending
    <3>4. CacheToBe \in Bags /\ CacheToBe' = CacheAfter(CacheToBe, cs)
      BY <1>1, <3>3, CacheAfterType, CacheAfterConcat DEF CacheToBe, CacheType
    <3>5. \A k \in Entire, x \in Values :
              CacheAfter(CacheToBe, cs)[<<k, x>>] = IF RowAfter(cs, v, Len(cs), k) = x THEN 1 ELSE 0
      BY <3>2, <3>4, HonestIsFollowed DEF CacheInv
    <3> QED
      BY <1>1, <1>2, <3>1, <3>4, <3>5 DEF Faithful, Count
  <2> QED
    BY <1>3, <2>1, <2>2 DEF CacheInv
<1> QED
  BY <1>4, <1>5

LEMMA WrittenIsHonest ==
    ASSUME StorageInv, NEW keys \in Seq(Keys)
    PROVE  Written(keys) \in Seq(Change) /\ Honest(Written(keys), "a")
<1> DEFINE cs == Written(keys)
<1>1. /\ cs \in Seq(Change) /\ DOMAIN cs = DOMAIN keys
      /\ \A i \in DOMAIN keys : cs[i].key = keys[i]
  BY WrittenIs DEF StorageInv
<1>2. \A i \in DOMAIN keys :
          /\ cs[i].to = "a"
          /\ cs[i].from = IF \E j \in 1 .. i - 1 : keys[j] = keys[i] THEN "a" ELSE rows[keys[i]]
  BY DEF Written
<1> HIDE DEF cs
<1>3. DOMAIN cs = 1 .. Len(cs) /\ Len(cs) \in Nat
  BY <1>1, LenProperties
<1>4. ASSUME NEW i \in 1 .. Len(cs)
      PROVE  /\ cs[i].to = "a"
             /\ cs[i].from = IF \E j \in 1 .. i - 1 : cs[j].key = cs[i].key THEN "a" ELSE rows[cs[i].key]
  <2>1. \A j \in 1 .. i - 1 : cs[j].key = keys[j]
    BY <1>1, <1>3
  <2>2. cs[i].key = keys[i]
    BY <1>1, <1>3
  <2> QED
    BY <1>1, <1>2, <1>3, <2>1, <2>2
<1> QED
  BY <1>1, <1>4 DEF Honest, cs

LEMMA CommitsKeepCache ==
    ASSUME StorageInv, CacheInv,
           \/ \E k \in Keys, v \in Values \cup {Absent} : CommitElsewhere(k, v)
           \/ \E r \in Requests : RunAlone(r) \/ Commit(r)
    PROVE  CacheInv'
<1>1. "a" \in Values \cup {Absent}
  BY DEF Values
<1>2. ASSUME NEW keys \in Seq(Keys), NEW told, CommitChanges(Written(keys), told), UNCHANGED <<load, caching>>
      PROVE  CacheInv'
  <2>1. Written(keys) \in Seq(Change) /\ Honest(Written(keys), "a")
    BY WrittenIsHonest
  <2> QED
    BY <1>1, <1>2, <2>1, CommitKeepsCache
<1>3. ASSUME NEW k \in Keys, NEW v \in Values \cup {Absent}, CommitElsewhere(k, v) PROVE CacheInv'
  <2> DEFINE c == [key |-> k, from |-> rows[k], to |-> v]
             cs == <<c>>
  <2>1. c \in Change /\ c.key = k /\ c.from = rows[k] /\ c.to = v
    BY DEF StorageInv, StorageType, Change
  <2>2. PICK told : CommitChanges(cs, told)
    BY <1>3 DEF CommitElsewhere
  <2>6. UNCHANGED <<load, caching>> /\ (v = "null" => k \notin Entire)
    BY <1>3 DEF CommitElsewhere, Entire
  <2> HIDE DEF c
  <2>3. cs \in Seq(Change) /\ Len(cs) = 1 /\ cs[1] = c
    BY <2>1
  <2> HIDE DEF cs
  <2>4. Honest(cs, v)
    BY <2>1, <2>3 DEF Honest
  <2>5. v = "null" => \A i \in 1 .. Len(cs) : cs[i].key \notin Entire
    BY <2>1, <2>3, <2>6
  <2> QED
    BY <2>2, <2>3, <2>4, <2>5, <2>6, CommitKeepsCache
<1>4. ASSUME NEW r \in Requests, RunAlone(r) PROVE CacheInv'
  <2> DEFINE k == Head(request[r].todo).key
  <2>1. request[r].todo \in Seq(Statement) /\ request[r].todo # <<>>
    BY <1>4 DEF RunAlone, HasStatement, StorageInv, StorageType, RequestType
  <2>2. k \in Keys
    BY <2>1, KeysOfHeadTail DEF Statement
  <2>3. CommitChanges(Written(<<k>>), <<>>) /\ UNCHANGED <<load, caching>>
    BY <1>4 DEF RunAlone
  <2> HIDE DEF k
  <2>4. <<k>> \in Seq(Keys)
    BY <2>2
  <2> QED
    BY <1>2, <2>3, <2>4
<1>5. ASSUME NEW r \in Requests, Commit(r) PROVE CacheInv'
  <2>1. request[r].writes \in Seq(Keys)
    BY DEF StorageInv, StorageType, RequestType
  <2>2. \/ CommitChanges(Written(request[r].writes), request[r].told) /\ UNCHANGED <<load, caching>>
        \/ UNCHANGED <<NotRequest, rows>>
    BY <1>5 DEF Commit
  <2>3. UNCHANGED <<NotRequest, rows>> => UNCHANGED cached
    BY DEF NotRequest, caching, cached
  <2> QED
    BY <1>2, <2>1, <2>2, <2>3, UnchangedKeepsCache
<1> QED
  BY <1>3, <1>4, <1>5

-----------------------------------------------------------------------------
(* The events on their way                                                 *)

LEMMA PendingIs ==
    ASSUME CacheType
    PROVE  /\ Pending \in Seq(Change) /\ CacheToBe \in Bags
           /\ Pending = <<>> => queue = <<>> /\ wire = <<>> /\ CacheToBe = cache
<1>1. Pending \in Seq(Change)
  BY ConcatProperties DEF Pending, CacheType
<1>2. Pending = <<>> => queue = <<>> /\ wire = <<>>
  BY ConcatEqualIffEmpty DEF Pending, CacheType
<1> QED
  BY <1>1, <1>2, CacheAfterType, CacheAfterNone DEF CacheToBe, CacheType

\* An event stays in its place when it gets from the connection to syncChannel.
LEMMA ReceiveSyncKeepsCache ==
    ASSUME CacheInv, ReceiveSync
    PROVE  CacheInv'
<1> DEFINE e == Head(wire)
           rest == Tail(wire)
<1>1. /\ CacheType /\ wire \in Seq(Change) /\ queue \in Seq(Change) /\ wire # <<>>
      /\ UNCHANGED <<load, rows, gap, cache, copy>> /\ wire' = rest /\ queue' = Append(queue, e)
  BY DEF CacheInv, CacheType, ReceiveSync, Others
<1>2. e \in Change /\ rest \in Seq(Change) /\ wire = <<e>> \o rest
  BY <1>1
<1> HIDE DEF e, rest
<1>3. Append(queue, e) = queue \o <<e>> /\ <<e>> \in Seq(Change) /\ Append(queue, e) \in Seq(Change)
  BY <1>1, <1>2, AppendIsConcat, AppendProperties
<1>4. Pending' = Pending
  <2>1. (queue \o <<e>>) \o rest = queue \o (<<e>> \o rest)
    BY <1>1, <1>2, <1>3, ConcatAssociative
  <2> QED
    BY <1>1, <1>2, <1>3, <2>1 DEF Pending
<1>5. CacheType'
  BY <1>1, <1>2, <1>3 DEF CacheType, CopyType
<1>6. /\ Entire' = Entire /\ Copying' = Copying /\ CacheToBe' = CacheToBe
      /\ (HalfCopied => HalfCopied') /\ (Faithful(CacheToBe) => Faithful(CacheToBe)')
  BY <1>1, <1>4 DEF Entire, Load, Copying, CacheToBe, HalfCopied, RowCopied, Faithful, Count
<1> QED
  BY <1>1, <1>4, <1>5, <1>6 DEF CacheInv

\* The event that is handled does to the cache what was to come of it.
LEMMA HandleSyncEventKeepsCache ==
    ASSUME CacheInv, HandleSyncEvent
    PROVE  CacheInv'
<1> DEFINE e == Head(queue)
           rest == Tail(queue)
<1>1. /\ CacheType /\ wire \in Seq(Change) /\ queue \in Seq(Change) /\ queue # <<>> /\ cache \in Bags
      /\ UNCHANGED <<load, rows, copy, wire>> /\ queue' = rest
      /\ cache' = IF up THEN Applied(cache, e) ELSE cache
      /\ gap \in BOOLEAN /\ gap' = (gap \/ ~up)
  BY DEF CacheInv, CacheType, HandleSyncEvent, Others
<1>2. e \in Change /\ rest \in Seq(Change) /\ queue = <<e>> \o rest
  BY <1>1
<1> HIDE DEF e, rest
<1>3. CacheType'
  <2>1. cache' \in Bags
    BY <1>1, <1>2, AppliedIs
  <2>2. gap' \in BOOLEAN
    BY <1>1
  <2> QED
    BY <1>1, <1>2, <2>1, <2>2 DEF CacheType, CopyType
<1>4. Entire' = Entire /\ Copying' = Copying
  BY <1>1 DEF Entire, Load, Copying
<1>5. ~Copying \/ gap
  BY <1>1, PendingIs DEF CacheInv
<1>6. ASSUME ~gap' PROVE CacheToBe' = CacheToBe
  <2>1. cache' = Applied(cache, e)
    BY <1>1, <1>6
  <2>2. <<e>> \in Seq(Change) /\ rest \o wire \in Seq(Change)
    BY <1>1, <1>2, ConcatProperties
  <2>3. Pending = <<e>> \o (rest \o wire) /\ Pending' = rest \o wire
    BY <1>1, <1>2, <2>2, ConcatAssociative DEF Pending
  <2>4. CacheToBe = CacheAfter(CacheAfter(cache, <<e>>), rest \o wire)
    BY <1>1, <2>2, <2>3, CacheAfterConcat DEF CacheToBe
  <2>5. CacheAfter(cache, <<e>>) = cache'
    BY <1>1, <1>2, <2>1, CacheAfterOne
  <2> QED
    BY <2>3, <2>4, <2>5 DEF CacheToBe
<1>7. ASSUME ~gap' PROVE ~Copying' /\ Faithful(CacheToBe)'
  <2>1. ~gap /\ ~Copying
    BY <1>1, <1>5, <1>7
  <2> QED
    BY <1>1, <1>4, <1>6, <1>7, <2>1 DEF CacheInv, Faithful, Count
<1> QED
  BY <1>1, <1>3, <1>4, <1>7 DEF CacheInv

LEMMA MasterDownKeepsCache ==
    ASSUME CacheInv, MasterDown
    PROVE  CacheInv'
<1> DEFINE Cut(some) == [copy EXCEPT !.rows = some]
<1>1. /\ CacheType /\ UNCHANGED <<load, rows, cache, queue>> /\ wire' = <<>>
      /\ gap' = (gap \/ wire # <<>> \/ Copying)
  BY DEF CacheInv, MasterDown
<1>2. PICK some \in SUBSET copy.rows : copy' = Cut(some)
  BY DEF MasterDown
<1>3. CopyType'
  <2>1. /\ Cut(some) \in [left : SUBSET Tables, table : Tables \cup {"none"}, deleted : BOOLEAN,
                          rows : SUBSET (Keys \X Values)]
        /\ Cut(some).left = copy.left /\ Cut(some).table = copy.table
        /\ Cut(some).deleted = copy.deleted /\ Cut(some).rows = some
    BY <1>1 DEF CacheType, CopyType
  <2> HIDE DEF Cut
  <2> QED
    BY <1>1, <1>2, <2>1 DEF CacheType, CopyType
<1>4. CacheType'
  <2>1. gap' \in BOOLEAN
    BY <1>1 DEF CacheType
  <2> QED
    BY <1>1, <1>3, <2>1, EmptySeq DEF CacheType
<1>5. Entire' = Entire
  BY <1>1 DEF Entire, Load
<1>6. ASSUME ~gap' PROVE UNCHANGED cached
  <2>1. ~gap /\ wire = <<>> /\ ~Copying /\ gap' = gap
    BY <1>1, <1>6 DEF CacheType
  <2>2. copy = NoCopy
    BY <2>1 DEF Copying
  <2>3. some = {}
    BY <2>2 DEF NoCopy
  <2>4. copy' = copy
    BY <1>2, <2>2, <2>3 DEF NoCopy
  <2> QED
    BY <1>1, <2>1, <2>4 DEF cached
<1>7. ASSUME gap' PROVE CacheInv'
  BY <1>1, <1>4, <1>5, <1>7 DEF CacheInv
<1>8. gap' \in BOOLEAN
  BY <1>4 DEF CacheType
<1> QED
  BY <1>6, <1>7, <1>8, UnchangedKeepsCache

-----------------------------------------------------------------------------
(* The full copy                                                           *)

\* What is the same as before, and what follows where nothing is to show.
LEMMA SameRows ==
    ASSUME CacheInv, UNCHANGED <<load, rows>>
    PROVE  /\ Entire' = Entire /\ \A k \in Entire' : rows'[k] # "null"
           /\ \A k, v : Count(k, v)' = Count(k, v)
BY DEF CacheInv, Entire, Load, Count

CopyFields ==
    [left : SUBSET Tables, table : Tables \cup {"none"}, deleted : BOOLEAN, rows : SUBSET (Keys \X Values)]

LEMMA BeginCopyKeepsCache ==
    ASSUME CacheInv, BeginCopy, UNCHANGED <<load, rows, cache, queue, wire>>
    PROVE  CacheInv'
<1>1. /\ copy' = [left |-> Tables, table |-> "none", deleted |-> FALSE, rows |-> {}]
      /\ gap' = (Pending # <<>>) /\ CacheType
  BY DEF BeginCopy, NoCopy, CacheInv
<1>2. CacheType'
  BY <1>1 DEF CacheType, CopyType
<1>3. \A k \in Keys : TableOf[k] \in Tables /\ TableOf[k] # "none"
  BY StorageAssumption DEF Tables
<1>4. HalfCopied'
  BY <1>1, <1>3 DEF HalfCopied, RowCopied, Entire
<1>5. ASSUME ~Copying' PROVE Faithful(CacheToBe)'
  <2>1. Tables = {}
    BY <1>1, <1>5 DEF Copying, NoCopy
  <2>2. Entire' = {}
    BY <1>3, <2>1 DEF Entire
  <2> QED
    BY <2>2 DEF Faithful
<1>6. Pending' = Pending
  BY DEF Pending
<1> QED
  BY <1>1, <1>2, <1>4, <1>5, <1>6, SameRows DEF CacheInv

LEMMA CopyFailsKeepsCache ==
    ASSUME CacheInv, CopyFails
    PROVE  CacheInv'
<1>1. /\ CacheType /\ UNCHANGED <<load, rows, cache, queue, wire>>
      /\ copy' = [left |-> {}, table |-> "none", deleted |-> FALSE, rows |-> {}] /\ gap' = TRUE
  BY DEF CacheInv, CopyFails, NoCopy, Others
<1>2. CacheType'
  BY <1>1 DEF CacheType, CopyType
<1> QED
  BY <1>1, <1>2, SameRows DEF CacheInv

\* A step of a copy that leaves it under way.
LEMMA CopyGoesOn ==
    ASSUME CacheInv, UNCHANGED <<load, rows, gap, queue, wire>>, Copying, Copying',
           cache' \in Bags, CopyType', HalfCopied => HalfCopied'
    PROVE  CacheInv'
<1>1. CacheType' /\ Pending' = Pending
  BY DEF CacheInv, CacheType, Pending
<1> QED
  BY <1>1, SameRows DEF CacheInv

\* The table is read.
LEMMA QueryTableKeepsCache ==
    ASSUME StorageInv, CacheInv, NEW t \in Tables, QueryTable(t)
    PROVE  CacheInv'
<1> DEFINE there == {<<k, rows[k]>> : k \in {j \in Keys : TableOf[j] = t /\ rows[j] # Absent}}
           q == [copy EXCEPT !.table = t, !.deleted = FALSE, !.rows = there]
<1>1. /\ CacheType /\ CopyType /\ UNCHANGED <<load, rows, gap, queue, wire, cache>> /\ copy' = q
      /\ t \in copy.left /\ copy.table = "none" /\ t # "none"
  BY StorageAssumption DEF CacheInv, CacheType, QueryTable, Others, Tables
<1>2. /\ there \subseteq Keys \X Values
      /\ \A k, v : <<k, v>> \in there <=> k \in Keys /\ TableOf[k] = t /\ rows[k] # Absent /\ v = rows[k]
  BY DEF StorageInv, StorageType
<1>3. \A x \in there : TableOf[x[1]] = t
  OBVIOUS
<1> HIDE DEF there
<1>4. q \in CopyFields /\ q.left = copy.left /\ q.table = t /\ q.deleted = FALSE /\ q.rows = there
  BY <1>1, <1>2 DEF CopyType, CopyFields
<1> HIDE DEF q
<1>5. CopyType'
  BY <1>1, <1>3, <1>4 DEF CopyType, CopyFields
<1>6. Copying /\ Copying'
  BY <1>1, <1>4 DEF Copying, NoCopy
<1>7. HalfCopied => HalfCopied'
  <2> SUFFICES ASSUME HalfCopied PROVE HalfCopied'
    OBVIOUS
  <2>1. Absent \notin Values /\ Entire \subseteq Keys
    BY DEF Absent, Values, Entire
  <2>2. ASSUME NEW k \in Entire, NEW v \in Values
        PROVE  /\ TableOf[k] \notin q.left => cache[<<k, v>>] = Count(k, v)
               /\ TableOf[k] = q.table => (<<k, v>> \in q.rows <=> rows[k] = v)
    BY <1>2, <1>4, <2>1 DEF HalfCopied, RowCopied
  <2>3. Entire' = Entire
    BY <1>1, SameRows
  <2>4. ASSUME NEW k \in Entire, NEW v \in Values PROVE RowCopied(k, v)'
    <3>1. Count(k, v)' = Count(k, v) /\ rows' = rows
      BY <1>1, SameRows
    <3> QED
      BY <1>1, <1>4, <2>2, <3>1 DEF RowCopied
  <2> QED
    BY <2>3, <2>4 DEF HalfCopied
<1> QED
  BY <1>1, <1>5, <1>6, <1>7, CopyGoesOn DEF CacheType

\* What is cached of the table is deleted.
LEMMA DeleteTableKeepsCache ==
    ASSUME CacheInv, DeleteTable
    PROVE  CacheInv'
<1> DEFINE q == [copy EXCEPT !.deleted = TRUE]
<1>1. /\ CacheType /\ CopyType /\ UNCHANGED <<load, rows, gap, queue, wire>> /\ copy' = q
      /\ copy.table # "none" /\ ~copy.deleted /\ copy.table \in copy.left /\ cache \in Bags
      /\ cache' = [r \in DOMAIN cache |-> IF TableOf[r[1]] = copy.table THEN 0 ELSE cache[r]]
  BY DEF CacheInv, CacheType, CopyType, DeleteTable, Others
<1>2. /\ q \in CopyFields /\ q.left = copy.left /\ q.table = copy.table /\ q.deleted = TRUE
      /\ q.rows = copy.rows
  BY <1>1 DEF CopyType, CopyFields
<1> HIDE DEF q
<1>3. /\ cache' \in Bags
      /\ \A k \in Keys, v \in Values :
            cache'[<<k, v>>] = IF TableOf[k] = copy.table THEN 0 ELSE cache[<<k, v>>]
  BY <1>1 DEF Bags
<1>4. CopyType'
  BY <1>1, <1>2 DEF CopyType, CopyFields
<1>5. Copying /\ Copying'
  BY <1>1, <1>2 DEF Copying, NoCopy
<1>6. HalfCopied => HalfCopied'
  <2> SUFFICES ASSUME HalfCopied PROVE HalfCopied'
    OBVIOUS
  <2>1. Entire \subseteq Keys
    BY DEF Entire
  <2>2. ASSUME NEW k \in Entire, NEW v \in Values
        PROVE  /\ TableOf[k] \notin q.left => cache'[<<k, v>>] = Count(k, v)
               /\ TableOf[k] = q.table =>
                     /\ <<k, v>> \in q.rows => rows[k] = v
                     /\ cache'[<<k, v>>] = IF <<k, v>> \in q.rows THEN 0 ELSE Count(k, v)
    <3>1. TableOf[k] # copy.table => cache'[<<k, v>>] = cache[<<k, v>>]
      BY <1>3, <2>1
    <3>2. TableOf[k] = copy.table => cache'[<<k, v>>] = 0 /\ (<<k, v>> \in copy.rows <=> rows[k] = v)
      BY <1>1, <1>3, <2>1 DEF HalfCopied, RowCopied
    <3> QED
      BY <1>1, <1>2, <3>1, <3>2 DEF HalfCopied, RowCopied, Count
  <2>3. Entire' = Entire
    BY <1>1, SameRows
  <2>4. ASSUME NEW k \in Entire, NEW v \in Values PROVE RowCopied(k, v)'
    <3>1. Count(k, v)' = Count(k, v) /\ rows' = rows
      BY <1>1, SameRows
    <3> QED
      BY <1>1, <1>2, <2>2, <3>1 DEF RowCopied
  <2> QED
    BY <2>3, <2>4 DEF HalfCopied
<1> QED
  BY <1>1, <1>3, <1>4, <1>5, <1>6, CopyGoesOn

\* A row that was read is inserted.
LEMMA InsertRowKeepsCache ==
    ASSUME CacheInv, NEW r \in copy.rows, InsertRow(r)
    PROVE  CacheInv'
<1> DEFINE q == [copy EXCEPT !.rows = @ \ {r}]
<1>1. /\ CacheType /\ CopyType /\ UNCHANGED <<load, rows, gap, queue, wire>> /\ copy' = q
      /\ copy.deleted /\ copy.table # "none" /\ copy.table \in copy.left /\ cache \in Bags
      /\ cache' = [cache EXCEPT ![r] = @ + 1]
  BY DEF CacheInv, CacheType, CopyType, InsertRow, Others
<1>2. /\ q \in CopyFields /\ q.left = copy.left /\ q.table = copy.table /\ q.deleted = copy.deleted
      /\ q.rows = copy.rows \ {r}
  BY <1>1 DEF CopyType, CopyFields
<1> HIDE DEF q
<1>3. /\ r \in Keys \X Values /\ TableOf[r[1]] = copy.table
      /\ cache' \in Bags
      /\ \A p \in Keys \X Values : cache'[p] = IF p = r THEN cache[p] + 1 ELSE cache[p]
  BY <1>1 DEF CopyType, Bags
<1>4. CopyType'
  BY <1>1, <1>2 DEF CopyType, CopyFields
<1>5. Copying /\ Copying'
  BY <1>1, <1>2 DEF Copying, NoCopy
<1>6. HalfCopied => HalfCopied'
  <2> SUFFICES ASSUME HalfCopied PROVE HalfCopied'
    OBVIOUS
  <2>1. Entire \subseteq Keys
    BY DEF Entire
  <2>2. ASSUME NEW k \in Entire, NEW v \in Values
        PROVE  /\ TableOf[k] \notin q.left => cache'[<<k, v>>] = Count(k, v)
               /\ TableOf[k] = q.table =>
                     /\ <<k, v>> \in q.rows => rows[k] = v
                     /\ cache'[<<k, v>>] = IF <<k, v>> \in q.rows THEN 0 ELSE Count(k, v)
    <3>1. CASE <<k, v>> = r
      <4>1. TableOf[k] = copy.table /\ <<k, v>> \notin q.rows
        BY <1>2, <1>3, <3>1
      <4>2. cache[<<k, v>>] = 0 /\ rows[k] = v
        BY <1>1, <3>1, <4>1 DEF HalfCopied, RowCopied
      <4>3. cache'[<<k, v>>] = 1
        BY <1>3, <3>1, <4>2
      <4> QED
        BY <1>1, <1>2, <4>1, <4>2, <4>3 DEF Count
    <3>2. CASE <<k, v>> # r
      <4>1. cache'[<<k, v>>] = cache[<<k, v>>] /\ (<<k, v>> \in q.rows <=> <<k, v>> \in copy.rows)
        BY <1>2, <1>3, <2>1, <3>2
      <4> QED
        BY <1>1, <1>2, <4>1 DEF HalfCopied, RowCopied
    <3> QED
      BY <3>1, <3>2
  <2>3. Entire' = Entire
    BY <1>1, SameRows
  <2>4. ASSUME NEW k \in Entire, NEW v \in Values PROVE RowCopied(k, v)'
    <3>1. Count(k, v)' = Count(k, v) /\ rows' = rows
      BY <1>1, SameRows
    <3> QED
      BY <1>1, <1>2, <2>2, <3>1 DEF RowCopied
  <2> QED
    BY <2>3, <2>4 DEF HalfCopied
<1> QED
  BY <1>1, <1>3, <1>4, <1>5, <1>6, CopyGoesOn

\* The table is done; if it was the last one, so is the copy.
LEMMA EndTableKeepsCache ==
    ASSUME CacheInv, EndTable
    PROVE  CacheInv'
<1> DEFINE left == copy.left \ {copy.table}
<1>1. /\ CacheType /\ CopyType /\ UNCHANGED <<load, rows, gap, queue, wire, cache>>
      /\ copy' = [left |-> left, table |-> "none", deleted |-> FALSE, rows |-> {}]
      /\ copy.deleted /\ copy.rows = {} /\ Copying
  <2>1. CacheType /\ CopyType
    BY DEF CacheInv, CacheType
  <2>2. UNCHANGED <<load, rows, gap, queue, wire, cache>> /\ copy.deleted /\ copy.rows = {}
    BY DEF EndTable, Others
  <2>3. copy' = [NoCopy EXCEPT !.left = left]
    BY DEF EndTable
  <2>4. Copying
    BY <2>2 DEF Copying, NoCopy
  <2> QED
    BY <2>1, <2>2, <2>3, <2>4 DEF NoCopy
<1>2. CacheType'
  BY <1>1 DEF CacheType, CopyType
<1>3. \A k \in Entire : TableOf[k] # "none"
  BY StorageAssumption DEF Entire
<1>4. ASSUME ~gap, NEW k \in Entire, NEW v \in Values, TableOf[k] \notin left
      PROVE  cache[<<k, v>>] = Count(k, v)
  <2>1. RowCopied(k, v)
    BY <1>1, <1>4 DEF CacheInv, HalfCopied
  <2>2. TableOf[k] \notin copy.left \/ TableOf[k] = copy.table
    BY <1>4
  <2> QED
    BY <1>1, <2>1, <2>2 DEF RowCopied
<1>5. ~gap => HalfCopied' /\ Pending = <<>>
  BY <1>1, <1>3, <1>4, SameRows DEF HalfCopied, RowCopied, CacheInv
<1>6. ASSUME ~gap, ~Copying' PROVE Faithful(CacheToBe)'
  <2>1. left = {}
    BY <1>1, <1>6 DEF Copying, NoCopy
  <2>2. Faithful(cache)
    BY <1>4, <1>6, <2>1 DEF Faithful
  <2>3. CacheToBe = cache
    BY <1>1, <1>5, <1>6, PendingIs
  <2>4. CacheToBe' = CacheToBe
    BY <1>1 DEF CacheToBe, Pending
  <2> QED
    BY <1>1, <2>2, <2>3, <2>4, SameRows DEF Faithful
<1>7. Pending' = Pending
  BY <1>1 DEF Pending
<1> QED
  BY <1>1, <1>2, <1>5, <1>6, <1>7, SameRows DEF CacheInv

-----------------------------------------------------------------------------
(* Theorems                                                                *)

LEMMA NextKeepsCache == StorageInv /\ CacheInv /\ [Next]_vars => CacheInv'
<1> SUFFICES ASSUME StorageInv, CacheInv, [Next]_vars PROVE CacheInv'
  OBVIOUS
<1>1. CASE UNCHANGED cached
  BY <1>1, UnchangedKeepsCache
<1>2. UNCHANGED vars => UNCHANGED cached
  BY DEF vars, cached
<1>3. StartCache \/ DropTriggers \/ CreateTriggers \/ AttachTriggersElsewhere \/ Listen => UNCHANGED cached
  BY DEF StartCache, DropTriggers, CreateTriggers, AttachTriggersElsewhere, Listen, Others, cached
<1>4. MasterUp \/ (\E ok \in BOOLEAN : UpdateStatus(ok)) => UNCHANGED cached
  BY DEF MasterUp, UpdateStatus, caching, cached
<1>5. BusConnect \/ BusReceive \/ BusTake => UNCHANGED cached
  BY DEF BusConnect, BusReceive, BusTake, NotBus, caching, cached
<1>6. ASSUME NEW w \in Watches,
             \/ \E wants \in Load.wants : StartWatch(w, wants)
             \/ \E k \in Topics : SearchTopic(w, k)
             \/ EndSearch(w) \/ ReceiveTopic(w) \/ TimeOut(w)
      PROVE  UNCHANGED cached
  BY <1>6 DEF StartWatch, SearchTopic, EndSearch, ReceiveTopic, TimeOut, NotBus, caching, cached
<1>7. ASSUME NEW r \in Requests,
             \/ \E program \in Load.programs : Begin(r, program)
             \/ SkipStatement(r) \/ RefuseStatement(r) \/ RunInTransaction(r) \/ Broadcast(r)
      PROVE  UNCHANGED cached
  BY <1>7 DEF Begin, SkipStatement, RefuseStatement, RunInTransaction, Broadcast, NotRequest, caching, cached
<1>8. FirstCopy \/ TimerFires => CacheInv'
  BY <1>1, BeginCopyKeepsCache DEF FirstCopy, TimerFires, Others, cached
<1> QED
  BY <1>1, <1>2, <1>3, <1>4, <1>5, <1>6, <1>7, <1>8, CommitsKeepCache, MasterDownKeepsCache,
     ReceiveSyncKeepsCache, HandleSyncEventKeepsCache, CopyFailsKeepsCache, QueryTableKeepsCache,
     DeleteTableKeepsCache, InsertRowKeepsCache, EndTableKeepsCache
     DEF Next

\* When no change has met a copy and none is under way, the cache and the events
\* on their way to it add up to the committed rows (BackupStorageReplicator), for
\* any keys and tables, any capacity of syncChannel, and transactions of any
\* length.
THEOREM CacheFollowsMaster == Spec => []CacheFollows
<1>1. StorageInv /\ CacheInv /\ [Next]_vars => (CacheInv)'
  BY NextKeepsCache
<1>2. CacheInv => CacheFollows
  BY DEF CacheInv, CacheFollows, Faithful, Entire, Count
<1> QED
  BY <1>1, <1>2, InitCacheInv, Inductive, PTL DEF Spec
=============================================================================
