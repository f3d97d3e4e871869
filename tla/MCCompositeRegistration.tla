----------------------- MODULE MCCompositeRegistration -----------------------
(* CompositeRegistration on a small instance: baselines a and b, a         *)
(* satellite c, which forms a BG domain with b, and four requests that     *)
(* write, exchange, extend, destroy and clean up their namespaces.         *)
EXTENDS CompositeRegistration, TLC

CONSTANTS p1, p2, p3, p4, a, b, c

Upserts(base, memberSets, indexes) ==
    [op : {"upsert"}, base : {base}, members : memberSets, index : indexes]

Others(ops, bases) ==
    [op : ops, base : bases, members : {{}}, index : {NoIndex}]

Joins(base, namespace) ==
    [op : {"join"}, base : {base}, members : {{namespace}}, index : {NoIndex}]

MCCalls ==
    p1 :> Upserts(a, {{a, c}}, {NoIndex, 1})
 @@ p2 :> (Upserts(b, {{b, c}}, {NoIndex}) \cup Others({"destroy"}, {a})
             \cup Joins(a, c) \cup Joins(c, a))
 @@ p3 :> (Upserts(a, {{a, b}}, {2}) \cup Upserts(a, {{a}}, {NoIndex})
             \cup Others({"cleanup"}, {a, c}))
 @@ p4 :> (Upserts(b, {{a, b}}, {NoIndex}) \cup Upserts(a, {{a, c}}, {1})
             \cup Others({"cleanup"}, {c}) \cup Joins(a, b))
=============================================================================
