-------------------------- MODULE MCRabbitVersions --------------------------
(***************************************************************************)
(* A publisher that may have an exchange, and a subscriber that may have a *)
(* queue bound to it, or a queue without a binding, which is refused.      *)
(***************************************************************************)
EXTENDS RabbitVersions

MCServices == {"pub", "sub"}
Queue == <<"queue", "q">>
Binding == <<"binding", "e", "q">>
MCOffers == [s \in MCServices |->
               IF s = "pub" THEN {{}, {<<"exchange", "e">>}}
                            ELSE {{}, {Queue}, {Queue, Binding}}]
=============================================================================
