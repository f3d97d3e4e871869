----------------------------- MODULE MCBgTopics -----------------------------
(* BgTopics on a small instance: a domain whose services register a shared *)
(* topic, a versioned (cloned) one, and one with a fixed name, whose flag  *)
(* they change.                                                            *)
EXTENDS BgTopics, TLC

CONSTANTS shared, cloned, changing

MCFlags == shared :> {FALSE} @@ cloned :> {TRUE} @@ changing :> BOOLEAN
=============================================================================
