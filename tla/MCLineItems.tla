---------------------------- MODULE MCLineItems ----------------------------
(***************************************************************************)
(* Two tools deployed in one context.  Link 1 has an assignment and link 2 *)
(* has none, both of tool A; link 3 is of A in a context of its own.       *)
(***************************************************************************)
EXTENDS LineItems, TLC

CONSTANTS toolA, toolB, c1, c2, l1, l2, l3, x, t

Symmetry == Permutations(Requests)

MCLinks == {l1, l2, l3}
MCLinkTool == [l \in MCLinks |-> toolA]
MCLinkContext == [l \in MCLinks |-> IF l = l3 THEN c2 ELSE c1]
MCScopes == [tool \in {toolA, toolB} |-> {"lineitem"}]
MCDeployed == {<<toolA, c1>>, <<toolB, c1>>, <<toolA, c2>>}

Payload == [kind |-> "create", tool |-> toolA, context |-> c1, headers |-> TRUE,
            resourceId |-> None, tag |-> None, link |-> None, valid |-> TRUE,
            item |-> None, via |-> "route", page |-> None, limit |-> None]

\* what both tools create; two of these have a link that does not suit them
Creates ==
    {[Payload EXCEPT !.link = l2], [Payload EXCEPT !.link = l3],
     [Payload EXCEPT !.tool = toolB, !.context = c2],
     [Payload EXCEPT !.resourceId = x, !.tag = t]}
    \cup {[Payload EXCEPT !.resourceId = x, !.link = l1, !.tool = tool] :
            tool \in {toolA, toolB}}

\* the route without and with a page; pages one and two of the service, and one of none
Lists ==
    {[Payload EXCEPT !.kind = "list"],
     [Payload EXCEPT !.kind = "list", !.tool = toolB],
     [Payload EXCEPT !.kind = "list", !.page = 2]}
    \cup {[Payload EXCEPT !.kind = "list", !.via = "service", !.page = p[1], !.limit = p[2]] :
            p \in {<<0, 1>>, <<2, 1>>, <<1, 0>>}}

Finds == {[Payload EXCEPT !.kind = "find", !.tool = toolB, !.via = "service",
                     !.item = 1]}

MCInputs == Creates \cup Lists \cup Finds
=============================================================================
