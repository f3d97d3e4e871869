--------------------------- MODULE MCKafkaTopics ---------------------------
(* KafkaTopics on a small instance: two sibling classifiers of one BG      *)
(* domain, three keys on two instances, and three requests of which the    *)
(* last may be of any kind.                                                *)
EXTENDS KafkaTopics, TLC

CONSTANTS r1, r2, r3, r4, old, c1, c2, k1, k2, k3, i1, i2

MCSiblingOf == c1 :> c2 @@ c2 :> c1

MCInstanceOf == k1 :> i1 @@ k2 :> i1 @@ k3 :> i2

CallSet(ops, c, ks, exts, vs, ms, keeps) ==
    [op : ops, cls : {c}, key : ks, ext : exts, versioned : vs, merge : ms, keep : keeps]

No == {FALSE}

\* r1 registers for c1, r2 for its sibling; r3 asks for c1 again, on the same
\* or on another instance, deletes its topics or syncs them.
MCCalls ==
    r1 :> CallSet({"getOrCreate"}, c1, {k1}, BOOLEAN, No, BOOLEAN, No)
 @@ r2 :> CallSet({"getOrCreate"}, c2, {k1, k2}, No, BOOLEAN, BOOLEAN, No)
 @@ r3 :> (CallSet({"getOrCreate"}, c1, {k1, k3}, BOOLEAN, No, {TRUE}, No)
             \cup CallSet({"delete"}, c1, {k1}, No, No, No, BOOLEAN)
             \cup CallSet({"sync"}, c1, {k1}, No, No, No, No))

OldRow == [id |-> old, cls |-> c1, key |-> k1, ext |-> FALSE, versioned |-> FALSE]

MCLegacy == {{}, {OldRow}}

\* Registrations of both siblings on keys of their own (they may deadlock),
\* the deletion of c1's topic and a later search, all at the same time.
RaceCalls ==
    r1 :> CallSet({"getOrCreate"}, c1, {k1}, No, No, {TRUE}, No)
 @@ r2 :> CallSet({"getOrCreate"}, c2, {k2}, No, No, {TRUE}, No)
 @@ r3 :> CallSet({"delete"}, c1, {k1}, No, No, No, BOOLEAN)
 @@ r4 :> CallSet({"sync"}, c1, {k1}, No, No, No, No)
=============================================================================
