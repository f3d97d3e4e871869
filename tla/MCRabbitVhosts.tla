--------------------------- MODULE MCRabbitVhosts ---------------------------
EXTENDS RabbitVhosts, TLC

CONSTANTS i1, i2, r1, r2, r3

MCInstances == {i1, i2}
MCRequests == {r1, r2, r3}

Call(op, cls, inst, config) == [op |-> op, cls |-> cls, inst |-> inst, config |-> config]
None == [ns \in Namespaces |-> "none"]

\* Clients of one classifier at the same time, on two instances.
Clients(prod, designator) ==
    [ready |-> ~prod, calls |-> {Call(op, "origin", "any", NoConfig) : op \in {"get", "rotate", "remove"}}
                 \cup {Call("get", "origin", i, NoConfig) : i \in MCInstances},
     once |-> TRUE, maxActive |-> 3, prodMode |-> prod, designator |-> designator,
     maxFailures |-> IF prod THEN 0 ELSE 1, lossy |-> FALSE]

Config(declare, exported, delete, changed) ==
    [declare |-> declare, exported |-> exported, delete |-> delete, changed |-> changed]

\* A queue whose binding waits for its exchange; the exchange, exported; all of
\* it exported; the exchange not exported any more, with other arguments; a
\* deletion.
Lazy == Config({"q", "b"}, {}, {}, FALSE)
Exchange == Config({"x"}, {"x"}, {}, FALSE)
All == Config({"x", "q", "b"}, {"x", "q"}, {}, FALSE)
Changed == Config({"x"}, {}, {}, TRUE)
NoQueue == Config({}, {}, {"q"}, FALSE)

BgCalls(ops) == {Call(op, "origin", "any", NoConfig) : op \in ops}
Applies(namespaces, configs) == {Call("apply", ns, "any", c) : ns \in namespaces, c \in configs}

\* One request after the other: the life of a BG domain.
Domain ==
    [ready |-> TRUE, calls |-> Applies(Namespaces, {Exchange, All, Changed, NoQueue})
                 \cup BgCalls({"warmup", "promote", "rollback", "commit"}),
     once |-> FALSE, maxActive |-> 1, prodMode |-> TRUE, designator |-> None, maxFailures |-> 0, lossy |-> FALSE]

\* A vhost with password rotations, a failure and a loss.
Recovery ==
    [ready |-> TRUE, calls |-> Applies({"origin"}, {Lazy, Exchange})
                 \cup {Call("recover", c, "any", NoConfig) : c \in {"origin", "exported"}}
                 \cup {Call("rotate", "origin", "any", NoConfig)},
     once |-> FALSE, maxActive |-> 1, prodMode |-> TRUE, designator |-> None, maxFailures |-> 1, lossy |-> TRUE]

\* Warm-ups, promotions and commits, with a failure and a loss.
Retry ==
    [ready |-> TRUE, calls |-> Applies({"origin"}, {Lazy, All}) \cup BgCalls({"warmup", "promote", "commit"}),
     once |-> FALSE, maxActive |-> 1, prodMode |-> TRUE, designator |-> None, maxFailures |-> 1, lossy |-> TRUE]

MCLoads == <<Clients(TRUE, None), Clients(FALSE, None), Clients(TRUE, [None EXCEPT !["origin"] = i2]),
             Domain, Recovery, Retry>>

Symmetry == Permutations(MCRequests)
=============================================================================
