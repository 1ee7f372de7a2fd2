----------------------------- MODULE LineItems -----------------------------
(***************************************************************************)
(* The line items of the Assignment and Grade Services: a tool creates one,*)
(* finds one by its id or lists a page of the container of a context.      *)
(* Every await on the database is the end of a step: between the lookup of *)
(* an existing line item and the insertion of a new one, between the query *)
(* of a page and the query of the count, other requests go on.             *)
(*                                                                         *)
(* Resource links, their assignments and the contexts do not change here:  *)
(* Coursework creates them.  An id of a line item is a random UUID, so a   *)
(* new one sorts anywhere among the others.                                *)
(***************************************************************************)
EXTENDS Integers, FiniteSets

CONSTANTS
    Requests,    \* concurrent callers
    Inputs,      \* what they may send
    Tools, Contexts, Links, ExternalIds, Tags,
    LinkTool,    \* LinkTool[l]: the tool whose deployment the link l is of
    LinkContext, \* LinkContext[l]: the context of l
    Assigned,    \* the links that have an LTI assignment
    Scopes,      \* Scopes[t]: the scopes granted to tool t
    DefaultLimit,\* how many line items a page holds unless the caller says
    Deployed,    \* <<t, c>>: tool t has a deployment in the tree of c, or a global one
    ItemIds,     \* bound: the ids there are to draw from
    None

Kinds == {"create", "find", "list"}
Input == [kind : Kinds, tool : Tools, context : Contexts,
          headers : BOOLEAN,   \* whether the Accept and Content-Type headers suit the service
          resourceId : ExternalIds \cup {None}, tag : Tags \cup {None},
          link : Links \cup {None},
          valid : BOOLEAN,     \* a label that is not blank and a positive score
          item : ItemIds \cup {None},
          via : {"route", "service"}, \* an HTTP request, or a caller of the library's service
          page : Nat \cup {None}, limit : Nat \cup {None}]
Resource == [tool : Tools, ext : ExternalIds]
LineItem == [context : Contexts, link : Links \cup {None},
             resource : Resource \cup {None}, tag : Tags \cup {None}]

ASSUME LineItemsAssumption ==
    /\ LinkTool \in [Links -> Tools] /\ LinkContext \in [Links -> Contexts]
    /\ Assigned \subseteq Links
    /\ Scopes \in [Tools -> SUBSET {"lineitem", "lineitem.readonly"}]
    /\ Deployed \subseteq Tools \X Contexts /\ DefaultLimit \in Nat \ {0}
    /\ Inputs \subseteq Input /\ ItemIds \subseteq Nat
    /\ None \notin Links \cup ExternalIds \cup Tags \cup Resource \cup ItemIds

VARIABLES
    resources, \* external_lti_resources, with a unique key on tool and external id
    items,     \* lti_line_items: a function from ids to rows
    req,       \* req[r]: the request r serves and how far it is
    made       \* history: made[i] is the input that line item i was created from

vars == <<resources, items, req, made>>

Request ==
    [pc : {"idle", "find", "attach", "insert", "read", "page", "count", "ok", "refused", "failed"},
     in : Inputs \cup {None},
     todo : SUBSET {"resource", "link"}, \* the promises of te.apS that are pending
     linkOk : BOOLEAN,
     rows : SUBSET ItemIds, count : Nat, \* the answer of the queries
     start : SUBSET ItemIds] \* history: the container when a page of it was asked for

Fresh == [pc |-> "idle", in |-> None, todo |-> {}, linkOk |-> FALSE,
          rows |-> {}, count |-> 0, start |-> {}]

TypeOK ==
    /\ resources \subseteq Resource
    /\ DOMAIN items \subseteq ItemIds /\ \A i \in DOMAIN items : items[i] \in LineItem
    /\ DOMAIN made = DOMAIN items /\ \A i \in DOMAIN made : made[i] \in Inputs
    /\ req \in [Requests -> Request]

Init ==
    /\ resources = {}
    /\ items = [i \in {} |-> None]
    /\ made = [i \in {} |-> None]
    /\ req = [r \in Requests |-> Fresh]

-----------------------------------------------------------------------------
(***************************************************************************)
(* Admission: the checks every service of line items shares.               *)
(***************************************************************************)
\* The query of a URL holds strings, which z.int refuses: the route takes neither a page
\* nor a limit.  A caller of the service passes numbers.
FiltersAreValid(in) == in.via = "route" => in.page = None /\ in.limit = None

RequiredScopes(kind) ==
    IF kind = "create" THEN {"lineitem"} ELSE {"lineitem", "lineitem.readonly"}

EnsureHasAnyScope(in) == Scopes[in.tool] \cap RequiredScopes(in.kind) # {}

EnsureToolIsDeployedInContext(in) == <<in.tool, in.context>> \in Deployed

Admitted(in) ==
    EnsureHasAnyScope(in) /\ in.headers /\ EnsureToolIsDeployedInContext(in)

(***************************************************************************)
(* The line item and its row.  A link is stored as its assignment, so a    *)
(* link without one is not stored, and what is read has no link.           *)
(***************************************************************************)
Create(in) ==
    [context |-> in.context, link |-> in.link, tag |-> in.tag,
     resource |-> IF in.resourceId = None THEN None
                  ELSE [tool |-> in.tool, ext |-> in.resourceId]]

ResolveAssignment(link) == IF link \in Assigned THEN link ELSE None

IntoRow(item) == [item EXCEPT !.link = ResolveAssignment(@)]

FromRow(row) == [row EXCEPT !.link = None]

IsAccessibleToTool(item, tool) ==
    /\ item.link # None => LinkTool[item.link] = tool
    /\ item.resource # None => item.resource.tool = tool

-----------------------------------------------------------------------------
(***************************************************************************)
(* Queries.                                                                *)
(***************************************************************************)
\* Mutant: any line item of the resource's id will do.
AnyTag(in) ==
    {i \in DOMAIN items : items[i].resource # None /\ items[i].resource.ext = in.resourceId}

\* the subquery compares the tool of an external resource with a resource id
FindByExternalResourceAndTag(in) ==
    {i \in DOMAIN items :
        /\ items[i].tag = in.tag
        /\ items[i].resource # None /\ items[i].resource.tool = in.resourceId}

\* Mutant: the tool of the external resource is not compared.
ResourceOfAnyTool(row, in) ==
    row.context = in.context /\ (row.link # None => LinkTool[row.link] = in.tool)

ContainerAccess(row, in) ==
    /\ row.context = in.context
    /\ row.link # None => LinkTool[row.link] = in.tool
    /\ row.resource # None => row.resource.tool = in.tool

Filtered(row, in) ==
    /\ in.link # None => row.link = in.link
    /\ in.resourceId # None => row.resource # None /\ row.resource.ext = in.resourceId
    /\ in.tag # None => row.tag = in.tag

Container(in) ==
    {i \in DOMAIN items : ContainerAccess(items[i], in) /\ Filtered(items[i], in)}

\* Mutant: pages count from zero.
ZeroBasedOffset(page, limit) == page * limit

Offset(page, limit) == (page - 1) * limit

Rank(i, ids) == Cardinality({j \in ids : j < i})

PageOf(ids, page, limit) ==
    {i \in ids : /\ Offset(page, limit) <= Rank(i, ids)
                 /\ Rank(i, ids) < Offset(page, limit) + limit}

\* the route asks for the first page; pages are forced to count from one
PageNumber(in) == IF in.page \in {None, 0} THEN 1 ELSE in.page

\* the route gives no maximum
PageSize(in) == IF in.limit = None THEN DefaultLimit ELSE in.limit

CountOf(in) == Cardinality(Container(in))

\* Mutant: a full page always has a next one.
NextAfterFullPage(page, count, limit) == page * limit <= count

\* the Link header of a page; a limit of 0 makes the last page Infinity or NaN
HasNextPage(page, count, limit) == page * limit < count

LastPage(count, limit) == IF count = 0 THEN 1 ELSE (count + limit - 1) \div limit

-----------------------------------------------------------------------------
(***************************************************************************)
(* Requests.                                                               *)
(***************************************************************************)
Goto(r, pc) == req' = [req EXCEPT ![r].pc = pc]

\* of a request that did not succeed only the answer is kept
EndsWith(r, pc) == req' = [req EXCEPT ![r] = [Fresh EXCEPT !.pc = pc]]

Answered == {"idle", "ok", "refused", "failed"}

FirstStep(in) ==
    CASE in.kind = "create" -> IF in.resourceId = None THEN "attach" ELSE "find"
      [] in.kind = "find"   -> "read"
      [] in.kind = "list"   -> "page"

Receive(r) ==
    /\ req[r].pc \in Answered
    /\ \E in \in Inputs :
        IF FiltersAreValid(in) /\ Admitted(in)
        THEN req' = [req EXCEPT ![r] =
                [Fresh EXCEPT !.pc = FirstStep(in), !.in = in, !.todo = {"resource", "link"},
                              !.start = IF in.kind = "list" THEN Container(in) ELSE {}]]
        ELSE EndsWith(r, "refused")
    /\ UNCHANGED <<resources, items, made>>

\* an existing line item of the resource and tag is the answer
FindExistingLineItem(r) ==
    /\ req[r].pc = "find"
    /\ LET found == FindByExternalResourceAndTag(req[r].in)
       IN  IF found = {} THEN Goto(r, "attach")
           ELSE \E i \in found : req' = [req EXCEPT ![r].pc = "ok", ![r].rows = {i}]
    /\ UNCHANGED <<resources, items, made>>

\* te.apS runs this and CheckLink side by side and awaits both
FindOrCreateResource(r) ==
    /\ req[r].pc = "attach" /\ "resource" \in req[r].todo
    /\ resources' = resources \cup ({Create(req[r].in).resource} \ {None})
    /\ req' = [req EXCEPT ![r].todo = @ \ {"resource"}]
    /\ UNCHANGED <<items, made>>

\* Mutant: the tool of the link is not compared.
AnyLinkOfContext(in) == in.link # None => LinkContext[in.link] = in.context

LinkAttachable(in) ==
    in.link # None => LinkTool[in.link] = in.tool /\ LinkContext[in.link] = in.context

CheckLink(r) ==
    /\ req[r].pc = "attach" /\ "link" \in req[r].todo
    /\ req' = [req EXCEPT ![r].todo = @ \ {"link"}, ![r].linkOk = LinkAttachable(req[r].in)]
    /\ UNCHANGED <<resources, items, made>>

ComposeLineItem(r) ==
    /\ req[r].pc = "attach" /\ req[r].todo = {}
    /\ IF req[r].linkOk /\ req[r].in.valid THEN Goto(r, "insert") ELSE EndsWith(r, "refused")
    /\ UNCHANGED <<resources, items, made>>

Save(r) ==
    /\ req[r].pc = "insert"
    /\ \E i \in ItemIds \ DOMAIN items :
        LET stored == DOMAIN items \cup {i}
        IN  /\ items' = [j \in stored |->
                            IF j = i THEN IntoRow(Create(req[r].in)) ELSE items[j]]
            /\ made' = [j \in stored |-> IF j = i THEN req[r].in ELSE made[j]]
            /\ req' = [req EXCEPT ![r].pc = "ok", ![r].rows = {i}]
    /\ UNCHANGED resources

Find(r) ==
    /\ req[r].pc = "read"
    /\ LET i == req[r].in.item
       IN  IF i \in DOMAIN items /\ IsAccessibleToTool(FromRow(items[i]), req[r].in.tool)
           THEN req' = [req EXCEPT ![r].pc = "ok", ![r].rows = {i}]
           ELSE EndsWith(r, "refused")
    /\ UNCHANGED <<resources, items, made>>

FetchPage(r) ==
    /\ req[r].pc = "page"
    /\ LET in == req[r].in
       IN  req' = [req EXCEPT ![r].pc = "count",
                              ![r].rows = PageOf(Container(in), PageNumber(in), PageSize(in))]
    /\ UNCHANGED <<resources, items, made>>

Count(r) ==
    /\ req[r].pc = "count"
    /\ req' = [req EXCEPT ![r].pc = "ok", ![r].count = CountOf(req[r].in)]
    /\ UNCHANGED <<resources, items, made>>

Listed(r) == req[r].pc = "ok" /\ req[r].in.kind = "list"

HasNext(r) == HasNextPage(PageNumber(req[r].in), req[r].count, PageSize(req[r].in))

\* a statement fails; of two that were sent together the other one still runs
StoreFails(r) ==
    /\ \/ req[r].pc \in {"find", "insert", "read", "page", "count"}
       \/ req[r].pc = "attach" /\ Cardinality(req[r].todo) = 1
    /\ EndsWith(r, "failed")
    /\ UNCHANGED <<resources, items, made>>

Next ==
    \E r \in Requests :
        \/ Receive(r)
        \/ FindExistingLineItem(r) \/ FindOrCreateResource(r) \/ CheckLink(r)
        \/ ComposeLineItem(r) \/ Save(r)
        \/ Find(r)
        \/ FetchPage(r) \/ Count(r)
        \/ StoreFails(r)

Spec == Init /\ [][Next]_vars

-----------------------------------------------------------------------------
(***************************************************************************)
(* Properties.                                                             *)
(***************************************************************************)
\* What a line item is attached to agrees: its link and its resource are of
\* one tool, and its link is of its context, whatever requests interleave
\* (maybeGetAndValidateResourceLink runs beside findOrCreateByExternalId).
OwnersAgree ==
    \A i \in DOMAIN items :
        LET row == items[i]
        IN  row.link # None =>
                /\ LinkContext[row.link] = row.context
                /\ row.resource # None => row.resource.tool = LinkTool[row.link]

\* A create is answered with a line item of the tool, context, resource and
\* tag it asked for, be it new or an existing one
\* ("should never modify `resourceId` nor `tag` values").
AnsweredAsAsked ==
    \A r \in Requests : req[r].pc = "ok" /\ req[r].in.kind = "create" =>
        \A i \in req[r].rows :
            /\ made[i].tool = req[r].in.tool /\ items[i].context = req[r].in.context
            /\ items[i].tag = req[r].in.tag
            /\ req[r].in.resourceId # None => items[i].resource.ext = req[r].in.resourceId

\* No page shows what another tool created on a resource of its own or on a
\* link that has an assignment, nor a line item of another context.
PagesKeepToTheTool ==
    \A r \in Requests : Listed(r) => \A i \in req[r].rows :
        /\ made[i].context = req[r].in.context
        /\ made[i].resourceId # None \/ made[i].link \in Assigned => made[i].tool = req[r].in.tool

\* A page without a next link hides nothing: of the line items that were there when it was
\* asked for it shows all but those of the pages before, although others are created before
\* the page is queried and between that query and the one of the count.  A tool can only
\* ask the route for the first page, so an answer without a next link is all there is.
LastPageHidesNothing ==
    \A r \in Requests : Listed(r) /\ ~HasNext(r) =>
        \A i \in req[r].start \ req[r].rows :
            Rank(i, req[r].start) < (PageNumber(req[r].in) - 1) * PageSize(req[r].in)

\* The links of a page agree: there is a next page just before the last one.
NextUntilLast ==
    \A r \in Requests : Listed(r) /\ PageSize(req[r].in) > 0 =>
        (HasNext(r) <=>
            PageNumber(req[r].in) < LastPage(req[r].count, PageSize(req[r].in)))
=============================================================================
