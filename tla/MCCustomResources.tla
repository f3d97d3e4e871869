------------------------- MODULE MCCustomResources -------------------------
(* Two topics that share a template, the template, and a topic of its name.  *)
EXTENDS CustomResources, TLC

CONSTANTS p1, p2, p3, p4, orders, bills, tmpl

MCNames == {orders, bills, tmpl}

Apply(op, kind, name, template) ==
    [op |-> op, cr |-> [kind |-> kind, name |-> name, template |-> template]]

WaitingOrders == Apply("create", "Topic", orders, tmpl)
PlainOrders   == Apply("create", "Topic", orders, NoTemplate)
WaitingBills  == Apply("create", "Topic", bills, tmpl)
TopicOfThatName == Apply("create", "Topic", tmpl, tmpl)
NewTemplate   == Apply("create", "TopicTemplate", tmpl, NoTemplate)
DropOrders    == Apply("delete", "Topic", orders, NoTemplate)
DropTemplate  == Apply("delete", "TopicTemplate", tmpl, NoTemplate)
StopOrders    == [op |-> "terminate", id |-> p1]
CleanAll      == [op |-> "cleanup"]

\* Every pair of operations can overlap.
MCCalls == (p1 :> {WaitingOrders}) @@ (p2 :> {TopicOfThatName, PlainOrders, DropOrders, StopOrders})
           @@ (p3 :> {NewTemplate})
           @@ (p4 :> {WaitingOrders, DropTemplate, NewTemplate, CleanAll})

\* The requests of one client, one after the other in any order.
SerialCalls == (p1 :> {WaitingOrders}) @@ (p2 :> {WaitingBills, WaitingOrders, DropTemplate, DropOrders})
               @@ (p3 :> {NewTemplate})
               @@ (p4 :> {WaitingOrders, PlainOrders, StopOrders, CleanAll, NewTemplate})

Overlapping == {[prodMode |-> m, calls |-> MCCalls, maxActive |-> 3, lossy |-> TRUE] : m \in BOOLEAN}
Serial == {[prodMode |-> m, calls |-> SerialCalls, maxActive |-> 1, lossy |-> FALSE] : m \in BOOLEAN}
Both == Overlapping \cup Serial

=============================================================================
