----------------------------- MODULE MCStorage -----------------------------
(***************************************************************************)
(* Storage under six loads: changes that the cache follows through copies  *)
(* and an outage; watches for two topics; watches that may read the cache; *)
(* watches for what a request registers; and transactions through an       *)
(* outage, without a cache and with one.                                   *)
(***************************************************************************)
EXTENDS Storage, TLC

CONSTANTS t1, t2, m1, w1, w2, r1

MCKeys == {t1, t2, m1}
MCTableOf == [k \in MCKeys |-> IF k = m1 THEN "kafka_topic_templates" ELSE "kafka_topics"]

Quiet == [cache |-> FALSE, wants |-> {}, programs |-> {}, maxChanges |-> 0, maxOutages |-> 0, maxAlarms |-> 0,
          nullable |-> {}]

Caching == [Quiet EXCEPT !.cache = TRUE, !.maxChanges = 3, !.maxOutages = 1, !.nullable = {t2}]
Watching == [Quiet EXCEPT !.wants = {{t1}, {t1, t2}}, !.maxChanges = 3, !.maxOutages = 1]

Register == [key |-> t1, via |-> "WithTx"]
Set(via) == [key |-> m1, via |-> via]
Programs == {<<Register, Set(via)>> : via \in {"WithTx", "UsingDb"}}
              \cup {<<Set(via), Register>> : via \in {"WithTx", "UsingDb"}}
Writing(cached) == [Quiet EXCEPT !.cache = cached, !.programs = Programs, !.maxOutages = 1, !.maxAlarms = 1]

WatchingCached == [Quiet EXCEPT !.cache = TRUE, !.wants = {{t1}}, !.maxChanges = 1, !.maxAlarms = 1]

WatchingWriter == [Quiet EXCEPT !.wants = {{t1}}, !.programs = {<<Register>>}, !.maxChanges = 1, !.maxOutages = 1,
                                !.maxAlarms = 1]

MCLoads == <<Caching, Watching, WatchingCached, WatchingWriter, Writing(FALSE), Writing(TRUE)>>
Symmetry == Permutations({w1, w2})
=============================================================================
