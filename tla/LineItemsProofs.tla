-------------------------- MODULE LineItemsProofs --------------------------
(***************************************************************************)
(* What line items are attached to, what tools are answered, and what a    *)
(* page of a container shows, for any number of requests, tools, links and *)
(* items.  Line items only come and never change, so what a request has    *)
(* seen of them stays true while it waits; a new one can only push the     *)
(* others back, behind the page, and then the count tells of a next page.  *)
(***************************************************************************)
EXTENDS LineItems, FiniteSetTheorems, TLAPS

Ended == {"idle", "refused", "failed"}

\* Every row was made from an input whose link could be attached.
ItemsInv ==
    /\ resources \subseteq Resource
    /\ DOMAIN items \subseteq ItemIds /\ IsFiniteSet(DOMAIN items)
    /\ DOMAIN made = DOMAIN items
    /\ \A i \in DOMAIN items :
        /\ made[i] \in Inputs /\ LinkAttachable(made[i])
        /\ items[i] = IntoRow(Create(made[i]))

\* What a request knows at each of its steps.
ServiceInv(r) ==
    /\ req[r] \in Request
    /\ req[r].pc \notin Ended => req[r].in \in Inputs
    /\ req[r].pc \in {"find", "attach", "insert"} => req[r].in.kind = "create"
    /\ req[r].pc = "read" => req[r].in.kind = "find"
    /\ req[r].pc \in {"page", "count"} => req[r].in.kind = "list"
    /\ req[r].pc \in {"find", "attach"} /\ req[r].linkOk => LinkAttachable(req[r].in)
    /\ req[r].pc = "insert" => LinkAttachable(req[r].in)

\* What sorts before page p of pages of n.
Before(p, n) == (p - 1) * n

\* What was in the container is there still, and so is what the page shows; what was there
\* and was not before the page is on it or sorts behind it, and is on it if there is no
\* next page.
PageInv(r) ==
    LET in == req[r].in
        later == {i \in req[r].start \ req[r].rows :
                    Before(PageNumber(in), PageSize(in)) <= Rank(i, req[r].start)}
    IN  /\ req[r].pc \in {"page", "count"} \/ Listed(r) => req[r].start \subseteq Container(in)
        /\ req[r].pc = "count" \/ Listed(r) => req[r].rows \subseteq Container(in)
        /\ req[r].pc = "count" => \A i \in later :
              PageNumber(in) * PageSize(in) <= Rank(i, Container(in))
        /\ Listed(r) /\ ~HasNext(r) => later = {}

LineItemsInv ==
    /\ ItemsInv
    /\ req \in [Requests -> Request]
    /\ \A r \in Requests : ServiceInv(r) /\ PageInv(r)

\* Line items come and stay as they are.
Grows ==
    /\ DOMAIN items \subseteq DOMAIN items' /\ IsFiniteSet(DOMAIN items')
    /\ DOMAIN items' \subseteq ItemIds
    /\ \A i \in DOMAIN items : items'[i] = items[i] /\ made'[i] = made[i]

-----------------------------------------------------------------------------
(***************************************************************************)
(* Line items and containers.                                              *)
(***************************************************************************)
LEMMA RowsAreTyped ==
  ASSUME NEW in \in Inputs
  PROVE  IntoRow(Create(in)) \in LineItem
<1>1. in \in Input
  BY LineItemsAssumption
<1>2. Create(in) \in LineItem
  BY <1>1 DEF Create, LineItem, Resource, Input
<1>3. ResolveAssignment(Create(in).link) \in Links \cup {None}
  BY <1>2 DEF ResolveAssignment, LineItem
<1> QED  BY <1>2, <1>3 DEF IntoRow, LineItem

\* A row against the input it was made from.
LEMMA RowOfInput ==
  ASSUME NEW in \in Inputs
  PROVE  LET row == IntoRow(Create(in))
         IN  /\ row.context = in.context /\ row.tag = in.tag
             /\ row.link = ResolveAssignment(in.link)
             /\ in.resourceId = None => row.resource = None
             /\ in.resourceId # None =>
                   row.resource # None /\ row.resource.tool = in.tool
                   /\ row.resource.ext = in.resourceId
<1>1. in \in Input
  BY LineItemsAssumption
<1>2. in.resourceId # None => [tool |-> in.tool, ext |-> in.resourceId] \in Resource
  BY <1>1 DEF Input, Resource
<1> QED  BY <1>1, <1>2, LineItemsAssumption DEF IntoRow, Create

LEMMA ContainerIsFinite ==
  ASSUME ItemsInv, NEW in
  PROVE  IsFiniteSet(Container(in)) /\ Container(in) \subseteq DOMAIN items
<1>1. Container(in) \subseteq DOMAIN items
  BY DEF Container
<1> QED  BY <1>1, FS_Subset DEF ItemsInv

LEMMA ContainerGrows ==
  ASSUME ItemsInv, Grows, NEW in
  PROVE  /\ Container(in) \subseteq Container(in)'
         /\ IsFiniteSet(Container(in)')
         /\ \A i \in Container(in) :
               Rank(i, Container(in)) <= Rank(i, Container(in)')
               /\ Rank(i, Container(in)) \in Nat /\ Rank(i, Container(in)') \in Nat
<1>1. Container(in) \subseteq Container(in)'
  BY DEF Container, ContainerAccess, Filtered, Grows
<1>2. Container(in)' \subseteq DOMAIN items'
  BY DEF Container
<1>3. IsFiniteSet(Container(in)')
  BY <1>2, FS_Subset DEF Grows
<1>4. ASSUME NEW i \in Container(in)
      PROVE  Rank(i, Container(in)) <= Rank(i, Container(in)')
             /\ Rank(i, Container(in)) \in Nat /\ Rank(i, Container(in)') \in Nat
  <2> DEFINE before == {j \in Container(in) : j < i}
             after == {j \in Container(in)' : j < i}
  <2>1. before \subseteq after /\ after \subseteq Container(in)'
    BY <1>1
  <2>2. IsFiniteSet(after)
    BY <1>3, <2>1, FS_Subset
  <2>3. Cardinality(before) <= Cardinality(after) /\ IsFiniteSet(before)
    BY <2>1, <2>2, FS_Subset
  <2>4. Cardinality(before) \in Nat /\ Cardinality(after) \in Nat
    BY <2>2, <2>3, FS_CardinalityType
  <2> QED  BY <2>3, <2>4 DEF Rank
<1> QED  BY <1>1, <1>3, <1>4

\* An item's rank in a finite set of numbers is less than their number.
LEMMA RankBelowCount ==
  ASSUME NEW S, IsFiniteSet(S), S \subseteq Nat, NEW i \in S
  PROVE  Rank(i, S) \in Nat /\ Cardinality(S) \in Nat /\ Rank(i, S) < Cardinality(S)
<1> DEFINE before == {j \in S : j < i}
<1>1. before \subseteq S /\ i \notin before
  OBVIOUS
<1>2. IsFiniteSet(before) /\ Cardinality(before) <= Cardinality(S)
      /\ (Cardinality(S) = Cardinality(before) => S = before)
  BY <1>1, FS_Subset
<1>3. Cardinality(before) \in Nat /\ Cardinality(S) \in Nat
  BY <1>2, FS_CardinalityType
<1> QED  BY <1>1, <1>2, <1>3 DEF Rank

\* An item that is in a part of a finite set sorts no earlier in the whole.
LEMMA RanksGrow ==
  ASSUME NEW S, IsFiniteSet(S), NEW T \in SUBSET S, NEW i
  PROVE  Rank(i, T) <= Rank(i, S) /\ Rank(i, T) \in Nat /\ Rank(i, S) \in Nat
<1> DEFINE part == {j \in T : j < i}
           whole == {j \in S : j < i}
<1>1. part \subseteq whole /\ whole \subseteq S
  OBVIOUS
<1>2. IsFiniteSet(whole)
  BY <1>1, FS_Subset
<1>3. Cardinality(part) <= Cardinality(whole) /\ IsFiniteSet(part)
  BY <1>1, <1>2, FS_Subset
<1>4. Cardinality(part) \in Nat /\ Cardinality(whole) \in Nat
  BY <1>2, <1>3, FS_CardinalityType
<1> QED  BY <1>3, <1>4 DEF Rank

\* What is in the container of a tool and has an owner is the tool's.
LEMMA ContainerKeepsToTheTool ==
  ASSUME ItemsInv, NEW in \in Inputs, NEW i \in Container(in)
  PROVE  /\ made[i].context = in.context
         /\ made[i].resourceId # None \/ made[i].link \in Assigned => made[i].tool = in.tool
<1>1. i \in DOMAIN items /\ ContainerAccess(items[i], in)
  BY DEF Container
<1>2. made[i] \in Inputs /\ LinkAttachable(made[i]) /\ items[i] = IntoRow(Create(made[i]))
  BY <1>1 DEF ItemsInv
<1>3. items[i].context = made[i].context
  BY <1>2, RowOfInput
<1>4. made[i].resourceId # None => items[i].resource # None
                                   /\ items[i].resource.tool = made[i].tool
  BY <1>2, RowOfInput
<1>5. made[i].link \in Assigned => items[i].link = made[i].link /\ made[i].link # None
  BY <1>2, RowOfInput, LineItemsAssumption DEF ResolveAssignment
<1> QED  BY <1>1, <1>2, <1>3, <1>4, <1>5 DEF ContainerAccess, LinkAttachable

-----------------------------------------------------------------------------
(***************************************************************************)
(* Steps.  One lemma per kind of step: a request's own steps keep what it  *)
(* knows, and what others do only makes the items grow.                    *)
(***************************************************************************)
LEMMA NothingNew ==
  ASSUME ItemsInv, UNCHANGED <<resources, items, made>>
  PROVE  /\ ItemsInv' /\ Grows
         /\ \A in : Container(in)' = Container(in)
<1>1. ItemsInv'
  BY DEF ItemsInv
<1>2. Grows
  BY DEF Grows, ItemsInv
<1>3. \A in : Container(in)' = Container(in)
  BY DEF Container
<1> QED  BY <1>1, <1>2, <1>3

LEMMA PagesAreNumbers ==
  ASSUME NEW in \in Inputs
  PROVE  PageNumber(in) \in Nat \ {0} /\ PageSize(in) \in Nat
BY LineItemsAssumption DEF Input, PageNumber, PageSize

LEMMA OthersAreKept ==
  ASSUME ItemsInv, Grows, NEW s \in Requests, ServiceInv(s), PageInv(s), req'[s] = req[s]
  PROVE  ServiceInv(s)' /\ PageInv(s)'
<1> DEFINE in == req[s].in
           behind == PageNumber(in) * PageSize(in)
<1>1. ServiceInv(s)'
  BY DEF ServiceInv
<1>2. /\ Container(in) \subseteq Container(in)'
      /\ \A i \in Container(in) :
            /\ Rank(i, Container(in)) <= Rank(i, Container(in)')
            /\ Rank(i, Container(in)) \in Nat /\ Rank(i, Container(in)') \in Nat
  BY ContainerGrows
<1>3. Container(req[s].in)' = Container(in)'
  BY DEF Container
<1>4. Listed(s)' = Listed(s) /\ HasNext(s)' = HasNext(s)
  BY DEF Listed, HasNext, HasNextPage, PageNumber, PageSize
<1>5. ASSUME req[s].pc = "count" PROVE behind \in Nat
  <2>1. in \in Inputs
    BY <1>5 DEF ServiceInv, Ended
  <2> QED  BY <2>1, PagesAreNumbers
<1>6. ASSUME req[s].pc = "count", NEW i \in req[s].start \ req[s].rows,
             Before(PageNumber(in), PageSize(in)) <= Rank(i, req[s].start)
      PROVE  behind <= Rank(i, Container(in)')
  <2>1. behind <= Rank(i, Container(in)) /\ i \in Container(in)
    BY <1>6 DEF PageInv
  <2> QED  BY <1>2, <1>5, <1>6, <2>1
<1>7. (req[s].pc \in {"page", "count"} \/ Listed(s)) => req[s].start \subseteq Container(in)'
  BY <1>2 DEF PageInv
<1>8. (req[s].pc = "count" \/ Listed(s)) => req[s].rows \subseteq Container(in)'
  BY <1>2 DEF PageInv
<1>9. Listed(s) /\ ~HasNext(s) =>
        \A i \in req[s].start \ req[s].rows :
            ~(Before(PageNumber(in), PageSize(in)) <= Rank(i, req[s].start))
  BY DEF PageInv
<1> HIDE DEF behind
<1>10. PageInv(s)'
  BY <1>3, <1>4, <1>6, <1>7, <1>8, <1>9
     DEF PageInv, behind, PageNumber, PageSize, Before, Rank
<1> QED  BY <1>1, <1>10

LEMMA FreshIsRequest == Fresh \in Request
  BY DEF Fresh, Request

\* A request that is refused or fails forgets what it knew.
LEMMA EndIsSafe ==
  ASSUME req \in [Requests -> Request], NEW r \in Requests, NEW pc \in {"refused", "failed"},
         EndsWith(r, pc)
  PROVE  req'[r] \in Request /\ ServiceInv(r)' /\ PageInv(r)'
<1>1. req'[r] = [Fresh EXCEPT !.pc = pc]
  BY DEF EndsWith
<1>2. req'[r].pc = pc
  BY <1>1 DEF Fresh
<1>3. req'[r] \in Request
  BY <1>1, FreshIsRequest DEF Request
<1> QED  BY <1>2, <1>3 DEF ServiceInv, PageInv, Listed, Ended

LEMMA ReceiveStep ==
  ASSUME LineItemsInv, NEW r \in Requests, Receive(r)
  PROVE  ServiceInv(r)' /\ PageInv(r)'
<1> USE DEF LineItemsInv
<1>1. PICK in \in Inputs :
        IF FiltersAreValid(in) /\ Admitted(in)
        THEN req' = [req EXCEPT ![r] =
                [Fresh EXCEPT !.pc = FirstStep(in), !.in = in, !.todo = {"resource", "link"},
                              !.start = IF in.kind = "list" THEN Container(in) ELSE {}]]
        ELSE EndsWith(r, "refused")
  BY DEF Receive
<1>2. CASE ~(FiltersAreValid(in) /\ Admitted(in))
  BY <1>1, <1>2, EndIsSafe
<1>3. CASE FiltersAreValid(in) /\ Admitted(in)
  <2> DEFINE start == IF in.kind = "list" THEN Container(in) ELSE {}
  <2>1. req'[r] = [Fresh EXCEPT !.pc = FirstStep(in), !.in = in,
                                !.todo = {"resource", "link"}, !.start = start]
    BY <1>1, <1>3
  <2>2. in \in Input /\ in.kind \in Kinds
    BY LineItemsAssumption DEF Input
  <2>3. Container(in) \subseteq DOMAIN items /\ DOMAIN items \subseteq ItemIds
    BY ContainerIsFinite DEF ItemsInv
  <2> HIDE DEF start
  <2>4. /\ req'[r].pc = FirstStep(in) /\ req'[r].in = in /\ req'[r].linkOk = FALSE
        /\ req'[r].start = start
    BY <2>1 DEF Fresh
  <2>5. FirstStep(in) \in {"find", "attach", "read", "page"}
        /\ (FirstStep(in) \in {"find", "attach"} => in.kind = "create")
        /\ (FirstStep(in) = "page" => in.kind = "list")
        /\ (FirstStep(in) = "read" => in.kind = "find")
    BY <2>2 DEF FirstStep, Kinds
  <2>6. start \subseteq ItemIds /\ start \subseteq Container(in)
    BY <2>3 DEF start
  <2>7. req'[r] \in Request
    <3>1. req'[r] = [pc |-> FirstStep(in), in |-> in, todo |-> {"resource", "link"},
                     linkOk |-> FALSE, rows |-> {}, count |-> 0, start |-> start]
      BY <2>1 DEF Fresh
    <3>2. FirstStep(in) \in {"find", "attach", "read", "page"} /\ start \in SUBSET ItemIds
      BY <2>5, <2>6
    <3> QED  BY <3>1, <3>2 DEF Request
  <2>8. ServiceInv(r)'
    BY <2>4, <2>5, <2>7 DEF ServiceInv, Ended
  <2>9. Container(in)' = Container(in)
    BY NothingNew DEF Receive
  <2>10. Container(req[r].in)' = Container(in)'
    BY <2>4 DEF Container
  <2>11. req'[r].pc \notin {"count", "ok"}
    BY <2>4, <2>5
  <2>12. PageInv(r)'
    BY <2>4, <2>6, <2>9, <2>10, <2>11 DEF PageInv, Listed
  <2> QED  BY <2>8, <2>12
<1> QED  BY <1>2, <1>3

\* Steps of a request that does not list.
LEMMA NoPage ==
  ASSUME NEW r \in Requests, req'[r].pc \notin {"page", "count"}, ~Listed(r)'
  PROVE  PageInv(r)'
BY DEF PageInv

\* An answer of one line item.
LEMMA AnswersAreTyped ==
  ASSUME NEW q \in Request, NEW i \in ItemIds
  PROVE  [q EXCEPT !.pc = "ok", !.rows = {i}] \in Request
<1> DEFINE rows == {i}
<1>1. rows \in SUBSET ItemIds
  OBVIOUS
<1> HIDE DEF rows
<1>2. [q EXCEPT !.pc = "ok", !.rows = rows] \in Request
  BY <1>1 DEF Request
<1> QED  BY <1>2 DEF rows

LEMMA FindExistingStep ==
  ASSUME LineItemsInv, NEW r \in Requests, FindExistingLineItem(r)
  PROVE  ServiceInv(r)' /\ PageInv(r)'
<1> USE DEF LineItemsInv
<1>1. req[r] \in Request /\ req[r].pc = "find" /\ req[r].in \in Inputs
      /\ req[r].in.kind = "create"
  BY DEF FindExistingLineItem, ServiceInv, Ended
<1>2. Grows
  BY NothingNew DEF FindExistingLineItem
<1>3. CASE FindByExternalResourceAndTag(req[r].in) = {}
  <2>1. req'[r] = [req[r] EXCEPT !.pc = "attach"]
    BY <1>3 DEF FindExistingLineItem, Goto
  <2>2. req'[r] \in Request
    BY <1>1, <2>1 DEF Request
  <2>3. /\ req'[r].in = req[r].in /\ req'[r].linkOk = req[r].linkOk
        /\ req'[r].pc = "attach"
    BY <1>1, <2>1 DEF Request
  <2>4. ServiceInv(r)'
    BY <1>1, <2>2, <2>3 DEF ServiceInv, Ended, LinkAttachable
  <2>5. PageInv(r)'
    BY <1>2, <2>3, NoPage DEF Listed
  <2> QED  BY <2>4, <2>5
<1>4. CASE FindByExternalResourceAndTag(req[r].in) # {}
  <2>1. PICK i \in FindByExternalResourceAndTag(req[r].in) :
              req' = [req EXCEPT ![r].pc = "ok", ![r].rows = {i}]
    BY <1>4 DEF FindExistingLineItem
  <2>2. i \in ItemIds
    BY DEF FindByExternalResourceAndTag, ItemsInv
  <2>3. req'[r] = [req[r] EXCEPT !.pc = "ok", !.rows = {i}]
    BY <2>1
  <2>4. req'[r] \in Request
    BY <1>1, <2>2, <2>3, AnswersAreTyped, ZenonT(40)
  <2>5. req'[r].in = req[r].in /\ req'[r].pc = "ok"
    BY <1>1, <2>3 DEF Request
  <2>6. ServiceInv(r)'
    BY <1>1, <2>4, <2>5 DEF ServiceInv, Ended
  <2>7. PageInv(r)'
    BY <1>1, <1>2, <2>5, NoPage DEF Listed
  <2> QED  BY <2>6, <2>7
<1> QED  BY <1>3, <1>4

\* The two promises of a creation, and what becomes of their answers.
LEMMA AttachStep ==
  ASSUME LineItemsInv, NEW r \in Requests,
         FindOrCreateResource(r) \/ CheckLink(r) \/ ComposeLineItem(r)
  PROVE  ServiceInv(r)' /\ PageInv(r)' /\ ItemsInv' /\ Grows
<1> USE DEF LineItemsInv
<1> DEFINE in == req[r].in
<1>1. req[r] \in Request /\ req[r].pc = "attach" /\ in \in Inputs /\ in.kind = "create"
  BY DEF FindOrCreateResource, CheckLink, ComposeLineItem, ServiceInv, Ended
<1>2. UNCHANGED <<items, made>>
  BY DEF FindOrCreateResource, CheckLink, ComposeLineItem
<1>3. Grows
  BY <1>2 DEF Grows, ItemsInv
<1>4. Create(in).resource \in Resource \cup {None}
  BY <1>1, LineItemsAssumption DEF Create, Resource, Input
<1>5. resources' \subseteq Resource
  BY <1>4 DEF FindOrCreateResource, CheckLink, ComposeLineItem, ItemsInv
<1>6. ItemsInv'
  BY <1>2, <1>5 DEF ItemsInv, LinkAttachable
<1>7. CASE FindOrCreateResource(r) \/ CheckLink(r)
  <2>1. PICK todo \in SUBSET req[r].todo, ok \in BOOLEAN :
          /\ req'[r] = [req[r] EXCEPT !.todo = todo, !.linkOk = ok]
          /\ ok => LinkAttachable(in) \/ ok = req[r].linkOk
    <3>1. CASE FindOrCreateResource(r)
      <4>1. req'[r] = [req[r] EXCEPT !.todo = @ \ {"resource"}]
        BY <3>1 DEF FindOrCreateResource
      <4>2. req'[r] = [req[r] EXCEPT !.todo = @ \ {"resource"}, !.linkOk = req[r].linkOk]
        BY <1>1, <4>1 DEF Request
      <4>3. req[r].linkOk \in BOOLEAN
        BY <1>1 DEF Request
      <4> QED  BY <4>2, <4>3
    <3>2. CASE CheckLink(r)
      <4>1. req'[r] = [req[r] EXCEPT !.todo = @ \ {"link"}, !.linkOk = LinkAttachable(in)]
        BY <3>2 DEF CheckLink
      <4>2. LinkAttachable(in) \in BOOLEAN
        BY DEF LinkAttachable
      <4> QED  BY <4>1, <4>2
    <3> QED  BY <1>7, <3>1, <3>2
  <2>2. req'[r] \in Request
    BY <1>1, <2>1, ZenonT(40) DEF Request
  <2>3. req'[r].in = in /\ req'[r].linkOk = ok /\ req'[r].pc = "attach"
    BY <1>1, <2>1 DEF Request
  <2>4. ok => LinkAttachable(in)
    BY <1>1, <2>1 DEF ServiceInv
  <2>5. ServiceInv(r)'
    BY <1>1, <2>2, <2>3, <2>4 DEF ServiceInv, Ended, LinkAttachable
  <2>6. PageInv(r)'
    BY <1>3, <2>3, NoPage DEF Listed
  <2> QED  BY <1>3, <1>6, <2>5, <2>6
<1>8. CASE ComposeLineItem(r)
  <2>1. CASE req[r].linkOk /\ in.valid
    <3>1. req'[r] = [req[r] EXCEPT !.pc = "insert"]
      BY <1>8, <2>1 DEF ComposeLineItem, Goto
    <3>2. req'[r] \in Request
      BY <1>1, <3>1 DEF Request
    <3>3. req'[r].in = in /\ req'[r].pc = "insert"
      BY <1>1, <3>1 DEF Request
    <3>4. LinkAttachable(in)
      BY <1>1, <2>1 DEF ServiceInv
    <3>5. ServiceInv(r)'
      BY <1>1, <3>2, <3>3, <3>4 DEF ServiceInv, Ended, LinkAttachable
    <3>6. PageInv(r)'
      BY <1>3, <3>3, NoPage DEF Listed
    <3> QED  BY <1>3, <1>6, <3>5, <3>6
  <2>2. CASE ~(req[r].linkOk /\ in.valid)
    <3>1. EndsWith(r, "refused")
      BY <1>8, <2>2 DEF ComposeLineItem
    <3> QED  BY <1>3, <1>6, <3>1, EndIsSafe
  <2> QED  BY <2>1, <2>2
<1> QED  BY <1>7, <1>8

LEMMA SaveStep ==
  ASSUME LineItemsInv, NEW r \in Requests, Save(r)
  PROVE  ServiceInv(r)' /\ PageInv(r)' /\ ItemsInv' /\ Grows
<1> USE DEF LineItemsInv
<1> DEFINE in == req[r].in
<1>1. req[r] \in Request /\ req[r].pc = "insert" /\ in \in Inputs /\ in.kind = "create"
      /\ LinkAttachable(in)
  BY DEF Save, ServiceInv, Ended
<1>2. PICK i \in ItemIds \ DOMAIN items :
        /\ items' = [j \in DOMAIN items \cup {i} |->
                        IF j = i THEN IntoRow(Create(in)) ELSE items[j]]
        /\ made' = [j \in DOMAIN items \cup {i} |-> IF j = i THEN in ELSE made[j]]
        /\ req' = [req EXCEPT ![r].pc = "ok", ![r].rows = {i}]
  BY DEF Save
<1>3. DOMAIN items' = DOMAIN items \cup {i} /\ DOMAIN made' = DOMAIN items'
  BY <1>2
<1>4. IsFiniteSet(DOMAIN items')
  BY <1>3, FS_AddElement DEF ItemsInv
<1>5. DOMAIN items' \subseteq ItemIds
  BY <1>3 DEF ItemsInv
<1>6. \A j \in DOMAIN items : items'[j] = items[j] /\ made'[j] = made[j]
  BY <1>2
<1>7. Grows
  BY <1>3, <1>4, <1>5, <1>6 DEF Grows
<1>8. items'[i] = IntoRow(Create(in)) /\ made'[i] = in
  BY <1>2
<1>9. \A j \in DOMAIN items' :
        made'[j] \in Inputs /\ LinkAttachable(made'[j])
        /\ items'[j] = IntoRow(Create(made'[j]))
  BY <1>1, <1>3, <1>6, <1>8 DEF ItemsInv
<1>10. ItemsInv'
  BY <1>3, <1>4, <1>5, <1>9 DEF ItemsInv, Save, LinkAttachable
<1>11. req'[r] = [req[r] EXCEPT !.pc = "ok", !.rows = {i}]
  BY <1>2
<1>12. req'[r] \in Request
  BY <1>1, <1>11, AnswersAreTyped, ZenonT(40)
<1>13. req'[r].in = in /\ req'[r].pc = "ok"
  BY <1>1, <1>11 DEF Request
<1>14. ServiceInv(r)'
  BY <1>1, <1>12, <1>13 DEF ServiceInv, Ended
<1>15. PageInv(r)'
  BY <1>1, <1>7, <1>13, NoPage DEF Listed
<1> QED  BY <1>7, <1>10, <1>14, <1>15

LEMMA FindStep ==
  ASSUME LineItemsInv, NEW r \in Requests, Find(r)
  PROVE  ServiceInv(r)' /\ PageInv(r)'
<1> USE DEF LineItemsInv
<1> DEFINE in == req[r].in
           found == in.item \in DOMAIN items /\ IsAccessibleToTool(FromRow(items[in.item]), in.tool)
<1>1. req[r] \in Request /\ req[r].pc = "read" /\ in \in Inputs
  BY DEF Find, ServiceInv, Ended
<1>2. Grows
  BY NothingNew DEF Find
<1>3. CASE found
  <2>1. req'[r] = [req[r] EXCEPT !.pc = "ok", !.rows = {in.item}]
    BY <1>3 DEF Find
  <2>2. req'[r] \in Request
    <3>1. in.item \in ItemIds
      BY <1>3 DEF ItemsInv
    <3> QED  BY <1>1, <2>1, <3>1, AnswersAreTyped, ZenonT(40)
  <2>3. req'[r].in = in /\ req'[r].pc = "ok"
    BY <1>1, <2>1 DEF Request
  <2>4. in.kind = "find"
    BY <1>1 DEF ServiceInv
  <2>5. ServiceInv(r)'
    BY <1>1, <2>2, <2>3 DEF ServiceInv, Ended
  <2>6. PageInv(r)'
    BY <1>1, <1>2, <2>3, <2>4, NoPage DEF Listed
  <2> QED  BY <2>5, <2>6
<1>4. CASE ~found
  <2>1. EndsWith(r, "refused")
    BY <1>4 DEF Find
  <2> QED  BY <2>1, EndIsSafe
<1> QED  BY <1>3, <1>4

\* What was there and was not before the page is on it, or sorts behind it: the items that
\* have come since can only have pushed it back.
LEMMA FetchPageStep ==
  ASSUME LineItemsInv, NEW r \in Requests, FetchPage(r)
  PROVE  ServiceInv(r)' /\ PageInv(r)'
<1> USE DEF LineItemsInv
<1> DEFINE in == req[r].in
           S == Container(in)
           page == PageNumber(in)
           limit == PageSize(in)
           rows == PageOf(S, page, limit)
<1>1. req[r] \in Request /\ req[r].pc = "page" /\ in \in Inputs /\ in.kind = "list"
  BY DEF FetchPage, ServiceInv, Ended
<1>2. limit \in Nat /\ page \in Nat \ {0}
  BY <1>1, PagesAreNumbers
<1>3. /\ S' = S /\ IsFiniteSet(S) /\ S \subseteq DOMAIN items
      /\ S \subseteq ItemIds /\ ItemIds \subseteq Nat
  BY NothingNew, ContainerIsFinite, LineItemsAssumption DEF FetchPage, ItemsInv
<1>4. rows \subseteq S
  BY DEF PageOf
<1>5. req'[r] = [req[r] EXCEPT !.pc = "count", !.rows = rows]
  BY DEF FetchPage
<1>6. req[r].start \subseteq S
  BY <1>1 DEF PageInv
<1>7. ASSUME NEW i \in req[r].start \ rows, Before(page, limit) <= Rank(i, req[r].start)
      PROVE  page * limit <= Rank(i, S)
  <2>1. i \in S /\ Rank(i, S) \in Nat
    BY <1>3, <1>6, RankBelowCount
  <2>2. Rank(i, req[r].start) <= Rank(i, S) /\ Rank(i, req[r].start) \in Nat
    BY <1>3, <1>6, RanksGrow
  <2>3. Before(page, limit) \in Int /\ Before(page, limit) + limit = page * limit
        /\ Offset(page, limit) = Before(page, limit) /\ page * limit \in Nat
    BY <1>2 DEF Before, Offset
  <2> HIDE DEF page, limit, S
  <2>4. Offset(page, limit) <= Rank(i, S)
    BY <1>7, <2>1, <2>2, <2>3
  <2>5. ~(Rank(i, S) < Offset(page, limit) + limit)
    BY <1>7, <2>1, <2>4 DEF PageOf
  <2> QED  BY <1>2, <2>1, <2>3, <2>5
<1> HIDE DEF S, rows, page, limit
<1>8. rows \in SUBSET ItemIds
  BY <1>3, <1>4
<1>9. req'[r] \in Request
  BY <1>1, <1>5, <1>8 DEF Request
<1>10. /\ req'[r].in = in /\ req'[r].start = req[r].start
       /\ req'[r].rows = rows /\ req'[r].pc = "count"
  BY <1>1, <1>5 DEF Request
<1>11. ServiceInv(r)'
  BY <1>1, <1>9, <1>10 DEF ServiceInv, Ended
<1>12. Container(req[r].in)' = S
  BY <1>3, <1>10 DEF Container, S
<1>13. PageNumber(req[r].in)' = page /\ PageSize(req[r].in)' = limit
  BY <1>10 DEF PageNumber, PageSize, page, limit
<1>14. ~Listed(r)'
  BY <1>10 DEF Listed
<1>15. PageInv(r)'
  BY <1>4, <1>6, <1>7, <1>10, <1>12, <1>13, <1>14 DEF PageInv, Before, Rank
<1> QED  BY <1>11, <1>15

\* What sorts behind the page when the items are counted makes them more than the pages so
\* far can hold, so there is a next page.
LEMMA CountStep ==
  ASSUME LineItemsInv, NEW r \in Requests, Count(r)
  PROVE  ServiceInv(r)' /\ PageInv(r)'
<1> USE DEF LineItemsInv
<1> DEFINE in == req[r].in
           S == Container(in)
           page == PageNumber(in)
           limit == PageSize(in)
<1>1. req[r] \in Request /\ req[r].pc = "count" /\ in \in Inputs /\ in.kind = "list"
  BY DEF Count, ServiceInv, Ended
<1>2. limit \in Nat /\ page \in Nat \ {0}
  BY <1>1, PagesAreNumbers
<1>3. /\ S' = S /\ IsFiniteSet(S) /\ S \subseteq ItemIds /\ ItemIds \subseteq Nat
  BY NothingNew, ContainerIsFinite, LineItemsAssumption DEF Count, ItemsInv
<1>4. req'[r] = [req[r] EXCEPT !.pc = "ok", !.count = Cardinality(S)]
  BY DEF Count, CountOf
<1>5. \A i \in S : Rank(i, S) \in Nat /\ Rank(i, S) < Cardinality(S)
  BY <1>3, RankBelowCount
<1>6. Cardinality(S) \in Nat
  BY <1>3, FS_CardinalityType
<1>7. /\ req[r].start \subseteq S /\ req[r].rows \subseteq S
      /\ \A i \in req[r].start \ req[r].rows :
            Before(page, limit) <= Rank(i, req[r].start) => page * limit <= Rank(i, S)
  BY <1>1 DEF PageInv
<1> HIDE DEF S, page, limit
<1>8. req'[r] \in Request
  BY <1>1, <1>4, <1>6, ZenonT(40) DEF Request
<1>9. /\ req'[r].in = in /\ req'[r].start = req[r].start /\ req'[r].rows = req[r].rows
      /\ req'[r].pc = "ok" /\ req'[r].count = Cardinality(S)
  BY <1>1, <1>4 DEF Request
<1>10. ServiceInv(r)'
  BY <1>1, <1>8, <1>9 DEF ServiceInv, Ended
<1>11. Container(req[r].in)' = S
  BY <1>3, <1>9 DEF Container, S
<1>12. PageNumber(req[r].in)' = page /\ PageSize(req[r].in)' = limit
  BY <1>9 DEF PageNumber, PageSize, page, limit
<1>13. ASSUME ~HasNext(r)', NEW i \in req[r].start \ req[r].rows,
              Before(page, limit) <= Rank(i, req[r].start)
       PROVE  FALSE
  <2>1. ~(page * limit < Cardinality(S))
    BY <1>9, <1>12, <1>13 DEF HasNext, HasNextPage
  <2>2. page * limit \in Nat
    BY <1>2
  <2> QED  BY <1>5, <1>6, <1>7, <1>13, <2>1, <2>2
<1>14. PageInv(r)'
  BY <1>7, <1>9, <1>11, <1>12, <1>13 DEF PageInv, Before, Rank
<1> QED  BY <1>10, <1>14

-----------------------------------------------------------------------------
LEMMA LineItemsInitInv == Init => LineItemsInv
<1> SUFFICES ASSUME Init PROVE LineItemsInv
  OBVIOUS
<1>1. DOMAIN items = {} /\ DOMAIN made = {} /\ resources = {}
  BY DEF Init
<1>2. ItemsInv
  BY <1>1, FS_EmptySet DEF ItemsInv
<1>3. req \in [Requests -> Request]
  BY FreshIsRequest DEF Init
<1>4. ASSUME NEW r \in Requests PROVE ServiceInv(r) /\ PageInv(r)
  <2>1. req[r] = Fresh /\ Fresh.pc = "idle"
    BY DEF Init, Fresh
  <2> QED  BY <2>1, FreshIsRequest DEF ServiceInv, PageInv, Listed, Ended
<1> QED  BY <1>2, <1>3, <1>4 DEF LineItemsInv

\* A step of one request leaves the others' knowledge alone.
LEMMA StepsAreLocal ==
  ASSUME LineItemsInv, NEW r \in Requests,
         \E q : req' = [req EXCEPT ![r] = q],
         ItemsInv', Grows, ServiceInv(r)', PageInv(r)'
  PROVE  LineItemsInv'
<1> USE DEF LineItemsInv
<1>1. PICK q : req' = [req EXCEPT ![r] = q]
  OBVIOUS
<1>2. \A s \in Requests \ {r} : req'[s] = req[s]
  BY <1>1
<1>3. req' \in [Requests -> Request]
  <2>1. q \in Request
    BY <1>1 DEF ServiceInv
  <2> QED  BY <1>1, <2>1
<1>4. \A s \in Requests \ {r} : ServiceInv(s)' /\ PageInv(s)'
  BY <1>2, OthersAreKept
<1> QED  BY <1>3, <1>4

LEMMA LineItemsStep == LineItemsInv /\ Next => LineItemsInv'
<1> SUFFICES ASSUME LineItemsInv, Next PROVE LineItemsInv'
  OBVIOUS
<1> USE DEF LineItemsInv
<1>1. CASE \E r \in Requests : Receive(r)
  <2> PICK r \in Requests : Receive(r)
    BY <1>1
  <2>1. \E q : req' = [req EXCEPT ![r] = q]
    BY DEF Receive, EndsWith
  <2> QED  BY <2>1, ReceiveStep, NothingNew, StepsAreLocal DEF Receive
<1>2. CASE \E r \in Requests : FindExistingLineItem(r)
  <2> PICK r \in Requests : FindExistingLineItem(r)
    BY <1>2
  <2>1. \E q : req' = [req EXCEPT ![r] = q]
    BY DEF FindExistingLineItem, Goto
  <2> QED  BY <2>1, FindExistingStep, NothingNew, StepsAreLocal DEF FindExistingLineItem
<1>3. CASE \E r \in Requests : FindOrCreateResource(r) \/ CheckLink(r) \/ ComposeLineItem(r)
  <2> PICK r \in Requests : FindOrCreateResource(r) \/ CheckLink(r) \/ ComposeLineItem(r)
    BY <1>3
  <2>1. \E q : req' = [req EXCEPT ![r] = q]
    BY DEF FindOrCreateResource, CheckLink, ComposeLineItem, Goto, EndsWith
  <2> QED  BY <2>1, AttachStep, StepsAreLocal
<1>4. CASE \E r \in Requests : Save(r)
  <2> PICK r \in Requests : Save(r)
    BY <1>4
  <2>1. \E q : req' = [req EXCEPT ![r] = q]
    BY DEF Save
  <2> QED  BY <2>1, SaveStep, StepsAreLocal
<1>5. CASE \E r \in Requests : Find(r)
  <2> PICK r \in Requests : Find(r)
    BY <1>5
  <2>1. \E q : req' = [req EXCEPT ![r] = q]
    BY DEF Find, EndsWith
  <2> QED  BY <2>1, FindStep, NothingNew, StepsAreLocal DEF Find
<1>6. CASE \E r \in Requests : FetchPage(r)
  <2> PICK r \in Requests : FetchPage(r)
    BY <1>6
  <2>1. \E q : req' = [req EXCEPT ![r] = q]
    BY DEF FetchPage
  <2> QED  BY <2>1, FetchPageStep, NothingNew, StepsAreLocal DEF FetchPage
<1>7. CASE \E r \in Requests : Count(r)
  <2> PICK r \in Requests : Count(r)
    BY <1>7
  <2>1. \E q : req' = [req EXCEPT ![r] = q]
    BY DEF Count
  <2> QED  BY <2>1, CountStep, NothingNew, StepsAreLocal DEF Count
<1>8. CASE \E r \in Requests : StoreFails(r)
  <2> PICK r \in Requests : StoreFails(r)
    BY <1>8
  <2>1. EndsWith(r, "failed") /\ UNCHANGED <<resources, items, made>>
    BY DEF StoreFails
  <2>2. \E q : req' = [req EXCEPT ![r] = q]
    BY <2>1 DEF EndsWith
  <2> QED  BY <2>1, <2>2, EndIsSafe, NothingNew, StepsAreLocal
<1> QED
  BY <1>1, <1>2, <1>3, <1>4, <1>5, <1>6, <1>7, <1>8 DEF Next

LEMMA LineItemsStutter == LineItemsInv /\ UNCHANGED vars => LineItemsInv'
<1> SUFFICES ASSUME LineItemsInv, UNCHANGED vars PROVE LineItemsInv'
  OBVIOUS
<1> USE DEF LineItemsInv
<1>1. ItemsInv' /\ Grows
  BY NothingNew DEF vars
<1>2. \A s \in Requests : req'[s] = req[s]
  BY DEF vars
<1> QED  BY <1>1, <1>2, OthersAreKept DEF vars

LEMMA LineItemsAreInv == Spec => []LineItemsInv
<1>1. LineItemsInv /\ [Next]_vars => LineItemsInv'
  BY LineItemsStep, LineItemsStutter
<1> QED  BY <1>1, LineItemsInitInv, PTL DEF Spec

\* Tables, line items and requests hold values of their types.
THEOREM LineItemsAreTyped == Spec => []TypeOK
<1>1. LineItemsInv => TypeOK
  <2> SUFFICES ASSUME LineItemsInv PROVE TypeOK
    OBVIOUS
  <2>1. \A i \in DOMAIN items : items[i] \in LineItem /\ made[i] \in Inputs
    BY RowsAreTyped DEF LineItemsInv, ItemsInv
  <2> QED  BY <2>1 DEF LineItemsInv, ItemsInv, TypeOK
<1> QED  BY <1>1, LineItemsAreInv, PTL

\* Link, external resource and context of every stored line item agree, however the
\* requests that create them interleave.
THEOREM OwnersAlwaysAgree == Spec => []OwnersAgree
<1>1. LineItemsInv => OwnersAgree
  <2> SUFFICES ASSUME LineItemsInv, NEW i \in DOMAIN items, items[i].link # None
               PROVE  /\ LinkContext[items[i].link] = items[i].context
                      /\ items[i].resource # None =>
                            items[i].resource.tool = LinkTool[items[i].link]
    BY DEF OwnersAgree
  <2>1. made[i] \in Inputs /\ LinkAttachable(made[i]) /\ items[i] = IntoRow(Create(made[i]))
    BY DEF LineItemsInv, ItemsInv
  <2>2. items[i].link = made[i].link
    BY <2>1, RowOfInput DEF ResolveAssignment
  <2>3. items[i].context = made[i].context
    BY <2>1, RowOfInput
  <2>4. items[i].resource # None => items[i].resource.tool = made[i].tool
    BY <2>1, RowOfInput
  <2> QED  BY <2>1, <2>2, <2>3, <2>4 DEF LinkAttachable
<1> QED  BY <1>1, LineItemsAreInv, PTL

\* No page shows what another tool created on a resource of its own or on an assigned link.
THEOREM PagesAlwaysKeepToTheTool == Spec => []PagesKeepToTheTool
<1>1. LineItemsInv => PagesKeepToTheTool
  <2> SUFFICES ASSUME LineItemsInv, NEW r \in Requests, Listed(r), NEW i \in req[r].rows
               PROVE  /\ made[i].context = req[r].in.context
                      /\ made[i].resourceId # None \/ made[i].link \in Assigned =>
                            made[i].tool = req[r].in.tool
    BY DEF PagesKeepToTheTool
  <2>1. i \in Container(req[r].in) /\ req[r].in \in Inputs
    BY DEF LineItemsInv, ServiceInv, PageInv, Listed, Ended
  <2> QED  BY <2>1, ContainerKeepsToTheTool DEF LineItemsInv
<1> QED  BY <1>1, LineItemsAreInv, PTL

\* A page without a next link hides nothing that was there when it was asked for, however
\* many items are created meanwhile, for any page and any limit.
THEOREM LastPagesHideNothing == Spec => []LastPageHidesNothing
<1>1. LineItemsInv => LastPageHidesNothing
  <2> SUFFICES ASSUME LineItemsInv, NEW r \in Requests, Listed(r), ~HasNext(r),
                      NEW i \in req[r].start \ req[r].rows
               PROVE  Rank(i, req[r].start) < (PageNumber(req[r].in) - 1) * PageSize(req[r].in)
    BY DEF LastPageHidesNothing
  <2> DEFINE in == req[r].in
             before == Before(PageNumber(in), PageSize(in))
  <2>1. ~(before <= Rank(i, req[r].start))
    BY DEF LineItemsInv, PageInv
  <2>2. in \in Inputs /\ req[r].start \subseteq Container(in) /\ ItemsInv
    BY DEF LineItemsInv, ServiceInv, PageInv, Listed, Ended
  <2>3. before \in Int
    BY <2>2, PagesAreNumbers DEF Before
  <2>4. Rank(i, req[r].start) \in Nat
    <3>1. IsFiniteSet(Container(in))
      BY <2>2, ContainerIsFinite
    <3> QED  BY <2>2, <3>1, RanksGrow
  <2> HIDE DEF before
  <2>5. Rank(i, req[r].start) < before
    BY <2>1, <2>3, <2>4
  <2> QED  BY <2>5 DEF before, Before
<1> QED  BY <1>1, LineItemsAreInv, PTL

-----------------------------------------------------------------------------
(***************************************************************************)
(* The Link header of a page.                                              *)
(***************************************************************************)
LEMMA LastPageIsLast ==
  ASSUME NEW page \in Nat \ {0}, NEW count \in Nat, NEW limit \in Nat \ {0}
  PROVE  HasNextPage(page, count, limit) <=> page < LastPage(count, limit)
<1>1. CASE count = 0
  BY <1>1 DEF HasNextPage, LastPage
<1>2. CASE count # 0
  <2> DEFINE last == (count + limit - 1) \div limit
  <2>1. last \in Int /\ LastPage(count, limit) = last
    BY <1>2 DEF LastPage
  <2>2. last * limit <= count + limit - 1 /\ count + limit - 1 < last * limit + limit
    OBVIOUS
  <2> HIDE DEF last
  <2>3. ASSUME page < last PROVE page * limit < count
    <3>1. (page + 1) * limit <= last * limit
      BY <2>1, <2>3
    <3>2. (page + 1) * limit = page * limit + limit
      OBVIOUS
    <3>3. page * limit \in Int /\ last * limit \in Int
      BY <2>1
    <3> QED  BY <2>2, <3>1, <3>2, <3>3
  <2>4. ASSUME last <= page PROVE ~(page * limit < count)
    <3>1. last * limit <= page * limit
      BY <2>1, <2>4
    <3>2. page * limit \in Int /\ last * limit \in Int
      BY <2>1
    <3> QED  BY <2>2, <3>1, <3>2
  <2>5. page < last \/ last <= page
    BY <2>1
  <2> QED  BY <2>1, <2>3, <2>4, <2>5 DEF HasNextPage
<1> QED  BY <1>1, <1>2

\* A page has a next one just before the last page, for every count and limit.
THEOREM NextLinkUntilLast == Spec => []NextUntilLast
<1>1. LineItemsInv => NextUntilLast
  <2> SUFFICES ASSUME LineItemsInv, NEW r \in Requests, Listed(r), PageSize(req[r].in) > 0
               PROVE  HasNext(r) <=>
                        PageNumber(req[r].in) < LastPage(req[r].count, PageSize(req[r].in))
    BY DEF NextUntilLast
  <2>1. req[r] \in Request /\ req[r].in \in Inputs
    BY DEF LineItemsInv, ServiceInv, Listed, Ended
  <2>2. /\ PageNumber(req[r].in) \in Nat \ {0} /\ req[r].count \in Nat
        /\ PageSize(req[r].in) \in Nat \ {0}
    BY <2>1, PagesAreNumbers DEF Request
  <2> QED  BY <2>2, LastPageIsLast DEF HasNext
<1> QED  BY <1>1, LineItemsAreInv, PTL

-----------------------------------------------------------------------------
(***************************************************************************)
(* Answers to creations.  The lookup of an existing item compares a tool's *)
(* id with a resource's, so it finds an item of another resource if one of *)
(* these ids is also one of those; the answers are right if none is.       *)
(***************************************************************************)
IdsAreApart == Tools \cap ExternalIds = {}

\* A creation is answered with what was made from it.
AnswerInv(r) ==
    /\ req[r].pc = "find" => req[r].in.resourceId # None
    /\ req[r].pc = "ok" /\ req[r].in.kind = "create" =>
        \A i \in req[r].rows : i \in DOMAIN items /\ made[i] = req[r].in

AnswersInv == LineItemsInv /\ IdsAreApart /\ \A r \in Requests : AnswerInv(r)

LEMMA NothingIsFound ==
  ASSUME IdsAreApart, ItemsInv, NEW in \in Inputs, in.resourceId # None
  PROVE  FindByExternalResourceAndTag(in) = {}
<1> SUFFICES ASSUME NEW i \in DOMAIN items, items[i].resource # None,
                    items[i].resource.tool = in.resourceId
             PROVE  FALSE
  BY DEF FindByExternalResourceAndTag
<1>1. made[i] \in Inputs /\ items[i] = IntoRow(Create(made[i]))
  BY DEF ItemsInv
<1>2. items[i].resource.tool = made[i].tool
  BY <1>1, RowOfInput
<1>3. made[i] \in Input /\ in \in Input
  BY <1>1, LineItemsAssumption
<1>4. made[i].tool \in Tools /\ in.resourceId \in ExternalIds
  BY <1>3 DEF Input
<1> QED  BY <1>2, <1>4 DEF IdsAreApart

LEMMA AnswersAreMade ==
  ASSUME AnswersInv, NEW r \in Requests,
         \/ Receive(r) \/ FindExistingLineItem(r) \/ FindOrCreateResource(r) \/ CheckLink(r)
         \/ ComposeLineItem(r) \/ Save(r) \/ Find(r) \/ FetchPage(r) \/ Count(r)
         \/ StoreFails(r)
  PROVE  AnswerInv(r)'
<1> USE DEF AnswersInv, LineItemsInv
<1> DEFINE in == req[r].in
<1>1. req[r] \in Request /\ ServiceInv(r) /\ AnswerInv(r)
  BY DEF ServiceInv
<1>2. ASSUME NEW pc \in {"refused", "failed"}, EndsWith(r, pc) PROVE AnswerInv(r)'
  <2>1. req'[r].pc = pc
    BY <1>2 DEF EndsWith, Fresh
  <2> QED  BY <2>1 DEF AnswerInv
<1>3. CASE Receive(r)
  <2>1. PICK new \in Inputs :
          IF FiltersAreValid(new) /\ Admitted(new)
          THEN req' = [req EXCEPT ![r] =
                [Fresh EXCEPT !.pc = FirstStep(new), !.in = new, !.todo = {"resource", "link"},
                              !.start = IF new.kind = "list" THEN Container(new) ELSE {}]]
          ELSE EndsWith(r, "refused")
    BY <1>3 DEF Receive
  <2>2. CASE FiltersAreValid(new) /\ Admitted(new)
    <3>1. req'[r].pc = FirstStep(new) /\ req'[r].in = new
      BY <2>1, <2>2, ZenonT(40) DEF Fresh
    <3>2. new.kind \in Kinds
      BY LineItemsAssumption DEF Input
    <3>3. FirstStep(new) # "ok" /\ (FirstStep(new) = "find" => new.resourceId # None)
      BY <3>2 DEF FirstStep, Kinds
    <3> QED  BY <3>1, <3>3 DEF AnswerInv
  <2> QED  BY <1>2, <2>1, <2>2
<1>4. CASE FindExistingLineItem(r)
  <2>1. in \in Inputs /\ in.resourceId # None
    BY <1>1, <1>4 DEF FindExistingLineItem, ServiceInv, AnswerInv, Ended
  <2>2. FindByExternalResourceAndTag(in) = {}
    BY <2>1, NothingIsFound
  <2>3. req'[r].pc = "attach"
    BY <1>1, <1>4, <2>2 DEF FindExistingLineItem, Goto, Request
  <2> QED  BY <2>3 DEF AnswerInv
<1>5. CASE FindOrCreateResource(r) \/ CheckLink(r)
  <2>1. req'[r].pc = "attach"
    BY <1>1, <1>5 DEF FindOrCreateResource, CheckLink, Request
  <2> QED  BY <2>1 DEF AnswerInv
<1>6. CASE ComposeLineItem(r)
  <2>1. CASE Goto(r, "insert")
    <3>1. req'[r].pc = "insert"
      BY <1>1, <2>1 DEF Goto, Request
    <3> QED  BY <3>1 DEF AnswerInv
  <2> QED  BY <1>2, <1>6, <2>1 DEF ComposeLineItem
<1>7. CASE Save(r)
  <2>1. PICK i \in ItemIds \ DOMAIN items :
        /\ items' = [j \in DOMAIN items \cup {i} |->
                        IF j = i THEN IntoRow(Create(in)) ELSE items[j]]
        /\ made' = [j \in DOMAIN items \cup {i} |-> IF j = i THEN in ELSE made[j]]
        /\ req' = [req EXCEPT ![r].pc = "ok", ![r].rows = {i}]
    BY <1>7 DEF Save
  <2>2. req'[r].rows = {i} /\ req'[r].pc = "ok" /\ req'[r].in = in
    BY <1>1, <2>1 DEF Request
  <2>3. i \in DOMAIN items' /\ made'[i] = in
    BY <2>1
  <2> QED  BY <2>2, <2>3 DEF AnswerInv
<1>8. CASE Find(r)
  <2>1. CASE req' = [req EXCEPT ![r].pc = "ok", ![r].rows = {in.item}]
    <3>1. req'[r].pc = "ok" /\ req'[r].in = in /\ in.kind = "find"
      BY <1>1, <1>8, <2>1 DEF Request, ServiceInv, Find
    <3> QED  BY <3>1 DEF AnswerInv
  <2> QED  BY <1>2, <1>8, <2>1 DEF Find
<1>9. CASE FetchPage(r)
  <2>1. req'[r].pc = "count"
    BY <1>1, <1>9 DEF FetchPage, Request
  <2> QED  BY <2>1 DEF AnswerInv
<1>10. CASE Count(r)
  <2>1. req'[r].pc = "ok" /\ req'[r].in = in /\ in.kind = "list"
    BY <1>1, <1>10 DEF Count, Request, ServiceInv
  <2> QED  BY <2>1 DEF AnswerInv
<1>11. CASE StoreFails(r)
  BY <1>2, <1>11 DEF StoreFails
<1> QED
  BY <1>3, <1>4, <1>5, <1>6, <1>7, <1>8, <1>9, <1>10, <1>11

\* If no external id is a tool's id, every creation is answered with a line item of the
\* tool, context, resource and tag it asked for.
THEOREM AnswersAreAsAsked == Spec /\ IdsAreApart => []AnsweredAsAsked
<1>1. Init /\ IdsAreApart => AnswersInv
  <2> SUFFICES ASSUME Init, IdsAreApart PROVE AnswersInv
    OBVIOUS
  <2>1. \A r \in Requests : req[r].pc = "idle"
    BY DEF Init, Fresh
  <2> QED  BY <2>1, LineItemsInitInv DEF AnswersInv, AnswerInv
<1>2. AnswersInv /\ [Next]_vars => AnswersInv'
  <2> SUFFICES ASSUME AnswersInv, [Next]_vars PROVE AnswersInv'
    OBVIOUS
  <2>1. LineItemsInv' /\ IdsAreApart'
    BY LineItemsStep, LineItemsStutter, SMTT(40) DEF AnswersInv, IdsAreApart
  <2>2. \A i \in DOMAIN items : i \in DOMAIN items' /\ made'[i] = made[i]
    <3>1. CASE UNCHANGED <<items, made>>
      BY <3>1
    <3>2. CASE \E r \in Requests : Save(r)
      BY <3>2, SaveStep DEF AnswersInv, Grows
    <3>3. CASE UNCHANGED vars
      BY <3>3 DEF vars
    <3> QED
      BY <3>1, <3>2, <3>3, ZenonT(40) DEF Next, Receive, FindExistingLineItem, FindOrCreateResource,
         CheckLink, ComposeLineItem, Find, FetchPage, Count, StoreFails
  <2>3. \A s \in Requests : req'[s] = req[s] => AnswerInv(s)'
    BY <2>2 DEF AnswersInv, AnswerInv
  <2>4. CASE UNCHANGED vars
    BY <2>1, <2>3, <2>4 DEF AnswersInv, vars
  <2>5. CASE Next
    <3> PICK r \in Requests :
         \/ Receive(r) \/ FindExistingLineItem(r) \/ FindOrCreateResource(r) \/ CheckLink(r)
         \/ ComposeLineItem(r) \/ Save(r) \/ Find(r) \/ FetchPage(r) \/ Count(r)
         \/ StoreFails(r)
      BY <2>5 DEF Next
    <3>1. \A s \in Requests \ {r} : req'[s] = req[s]
      BY DEF Receive, FindExistingLineItem, FindOrCreateResource, CheckLink, ComposeLineItem,
             Save, Find, FetchPage, Count, StoreFails, Goto, EndsWith,
             AnswersInv, LineItemsInv
    <3> QED  BY <2>1, <2>3, <3>1, AnswersAreMade DEF AnswersInv
  <2> QED  BY <2>4, <2>5
<1>3. AnswersInv => AnsweredAsAsked
  <2> SUFFICES ASSUME AnswersInv, NEW r \in Requests,
                      req[r].pc = "ok", req[r].in.kind = "create", NEW i \in req[r].rows
               PROVE  /\ made[i].tool = req[r].in.tool /\ items[i].context = req[r].in.context
                      /\ items[i].tag = req[r].in.tag
                      /\ req[r].in.resourceId # None =>
                            items[i].resource.ext = req[r].in.resourceId
    BY DEF AnsweredAsAsked
  <2>1. i \in DOMAIN items /\ made[i] = req[r].in
    BY DEF AnswersInv, AnswerInv
  <2>2. made[i] \in Inputs /\ items[i] = IntoRow(Create(made[i]))
    BY <2>1 DEF AnswersInv, LineItemsInv, ItemsInv
  <2> QED  BY <2>1, <2>2, RowOfInput
<1> QED  BY <1>1, <1>2, <1>3, PTL DEF Spec
=============================================================================
