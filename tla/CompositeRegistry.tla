-------------------------- MODULE CompositeRegistry --------------------------
(***************************************************************************)
(* What the registrations of composites promise to their readers, apart    *)
(* from how requests get there: a map from baselines to composites that    *)
(* share no namespace, in which one composite at a time is replaced or     *)
(* destroyed as a whole, and never replaced by an older one.               *)
(***************************************************************************)
EXTENDS Naturals

CONSTANTS Namespaces, Indexes, NoIndex

VARIABLES
    members,   \* members[b]: the namespaces of the composite b, none if there is no b
    index      \* index[b]: its modify index, NoIndex if it has none

Current(b) == IF index[b] = NoIndex THEN 0 ELSE index[b]

Init ==
    /\ members = [b \in Namespaces |-> {}]
    /\ index = [b \in Namespaces |-> NoIndex]

Replace(b, M, i) ==
    /\ b \in M
    /\ \A other \in Namespaces \ {b} : members[other] \cap M = {}
    /\ i # NoIndex => Current(b) <= i
    /\ members' = [members EXCEPT ![b] = M]
    /\ index' = [index EXCEPT ![b] = i]

Destroy(b) ==
    /\ members' = [members EXCEPT ![b] = {}]
    /\ index' = [index EXCEPT ![b] = NoIndex]

Next ==
    \E b \in Namespaces :
       \/ \E M \in SUBSET Namespaces, i \in Indexes \cup {NoIndex} : Replace(b, M, i)
       \/ Destroy(b)

Spec == Init /\ [][Next]_<<members, index>>
=============================================================================
