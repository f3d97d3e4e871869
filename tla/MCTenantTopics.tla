--------------------------- MODULE MCTenantTopics ---------------------------
(***************************************************************************)
(* Two requests at a time. The loads: instances that come and go in an     *)
(* empty installation; a namespace from its first request on, where the    *)
(* definition is of a tenant topic or of a lazy topic; one that has its    *)
(* template, tenant topic and tenant; and the same while the default or    *)
(* designated instance changes.                                            *)
(***************************************************************************)
EXTENDS TenantTopics, TLC

MCLoads ==
    [instances |-> [requests |-> 0, faults |-> 0, changes |-> 3, lazy |-> {}],
     fresh     |-> [requests |-> 3, faults |-> 1, changes |-> 0, lazy |-> {}],
     lazy      |-> [requests |-> 3, faults |-> 1, changes |-> 0, lazy |-> Definitions],
     deployed  |-> [requests |-> 3, faults |-> 2, changes |-> 0, lazy |-> {}],
     moving    |-> [requests |-> 2, faults |-> 0, changes |-> 1, lazy |-> {}]]

MCSymmetry == Permutations(Requests) \cup Permutations(Managers) \cup Permutations(Replicas)
=============================================================================
