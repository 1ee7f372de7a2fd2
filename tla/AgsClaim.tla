------------------------------- MODULE AgsClaim -------------------------------
(***************************************************************************)
(* The claim by which a launch tells a tool where the line items of its    *)
(* link are, and the guards the tool meets when it comes back for them.    *)
(*                                                                         *)
(* Links are in a deployment; the link of an external assignment is also   *)
(* in the assignment's context, and only such a link has line items.  A    *)
(* claim outlives the launch it came with: the tool may use it at any time *)
(* later, whatever was created and deleted in between.                     *)
(***************************************************************************)
EXTENDS DeploymentTree

CONSTANTS
    Links,   \* ids of resource links
    Items,   \* ids of line items
    Scopes   \* Scopes[t]: the scopes tool t is registered with

AgsScopes == {"lineitem", "lineitem.readonly", "result.readonly", "score"}

ASSUME ClaimAssumption ==
    /\ Scopes \in [Tools -> SUBSET (AgsScopes \cup {"openid"})]
    /\ None \notin Items

VARIABLES
    links,     \* the deployment and the context of each row of lti_resource_link
    assigned,  \* the links of external assignments: rows of lti_assignments
    items,     \* the link of each row of lti_line_items
    claims     \* the claims launches have carried to tools

tables == <<treeVars, links, assigned, items>>
claimVars == <<tables, claims>>

Claim == [tool : Tools, link : Links, context : Contexts, scopes : SUBSET AgsScopes,
          lineitem : Items \cup {None}, lineitems : BOOLEAN]

Init ==
    /\ TreeInit
    /\ links = [l \in {} |-> None]
    /\ assigned = {}
    /\ items = [i \in {} |-> None]
    /\ claims = {}

ToolOf(l) == deployments[links[l].deployment].tool

Extend(f, x, v) == [y \in DOMAIN f \cup {x} |-> IF y = x THEN v ELSE f[y]]

-----------------------------------------------------------------------------
(***************************************************************************)
(* Links and line items.                                                   *)
(***************************************************************************)
\* a link made by hand has no context
CreateLink(l, d) ==
    /\ l \notin DOMAIN links /\ d \in DOMAIN deployments
    /\ links' = Extend(links, l, [deployment |-> d, context |-> None])
    /\ UNCHANGED <<treeVars, assigned, items, claims>>

CreateExternalAssignment(l, t, c) ==
    /\ l \notin DOMAIN links /\ c \in DOMAIN parent
    /\ \E d \in MostAppropriate(t, c) :
        links' = Extend(links, l, [deployment |-> d, context |-> c])
    /\ assigned' = assigned \cup {l}
    /\ UNCHANGED <<treeVars, items, claims>>

\* the key of lti_assignments keeps the links of external assignments
MayBeDeleted(ls) == ls \cap assigned = {}

DeleteLinks(ls) ==
    /\ MayBeDeleted(ls)
    /\ links' = Restrict(links, DOMAIN links \ ls)
    /\ assigned' = assigned \ ls

DeleteLink(l) ==
    DeleteLinks({l}) /\ UNCHANGED <<treeVars, items, claims>>

RemoveDeployment(d) ==
    /\ DeleteLinks({l \in DOMAIN links : links[l].deployment = d})
    /\ DeleteDeployment(d)
    /\ UNCHANGED <<items, claims>>

\* Mutant: any scope of the services will do.
AnyAgsScope(kind) == AgsScopes

RequiredScopes(kind) ==
    IF kind = "create" THEN {"lineitem"} ELSE {"lineitem", "lineitem.readonly"}

EnsureHasAnyScope(t, required) == Scopes[t] \cap required # {}

Admitted(t, c, kind) ==
    EnsureHasAnyScope(t, RequiredScopes(kind)) /\ EnsureToolIsDeployedInContext(t, c)

\* a tool adds a line item to one of its links
CreateLineItem(i, l) ==
    /\ i \notin DOMAIN items /\ l \in assigned
    /\ Admitted(ToolOf(l), links[l].context, "create")
    /\ items' = Extend(items, i, l)
    /\ UNCHANGED <<treeVars, links, assigned, claims>>

-----------------------------------------------------------------------------
(***************************************************************************)
(* The claim of a launch.                                                  *)
(***************************************************************************)
FindManyByResourceLink(l, limit) ==
    LET of == {i \in DOMAIN items : items[i] = l}
    IN  {S \in SUBSET of : Cardinality(S) = IF Cardinality(of) < limit THEN Cardinality(of)
                                            ELSE limit}

\* Mutant: one row is enough to know.
FirstLineItem(l) ==
    LET rows == CHOOSE S \in FindManyByResourceLink(l, 1) : TRUE
    IN  IF Cardinality(rows) = 1 THEN CHOOSE i \in rows : TRUE ELSE None

TryGetLineItem(l) ==
    LET rows == CHOOSE S \in FindManyByResourceLink(l, 2) : TRUE
    IN  IF Cardinality(rows) = 1 THEN CHOOSE i \in rows : TRUE ELSE None

\* the platform configures neither policy: the scopes are all the tool's own
ResolveScopes(t) == Scopes[t] \cap AgsScopes

ToolHasAccessToAgs(t, authorized) == EnsureHasAnyScope(t, AgsScopes) /\ authorized # {}

\* Mutant: the container is shown to whoever has a scope of the services.
AlwaysShown(scopes) == scopes # {}

CanSeeContainerEndpoint(scopes) == scopes \cap {"lineitem", "lineitem.readonly"} # {}

\* at most one claim: there is none without a context or without access
CreateClaim(l) ==
    LET t == ToolOf(l)
        scopes == ResolveScopes(t)
    IN  IF links[l].context # None /\ ToolHasAccessToAgs(t, scopes)
        THEN {[tool |-> t, link |-> l, context |-> links[l].context, scopes |-> scopes,
               lineitem |-> TryGetLineItem(l), lineitems |-> CanSeeContainerEndpoint(scopes)]}
        ELSE {}

Launch(l) ==
    /\ claims' = claims \cup CreateClaim(l)
    /\ UNCHANGED tables

-----------------------------------------------------------------------------
Next ==
    \/ /\ \/ \E c \in Contexts : CreateContext(c)
          \/ \E d \in Deployments, t \in Tools : SaveDeployment(d, t)
       /\ UNCHANGED <<links, assigned, items, claims>>
    \/ \E l \in Links :
        \/ \E d \in Deployments : CreateLink(l, d)
        \/ \E t \in Tools, c \in Contexts : CreateExternalAssignment(l, t, c)
        \/ \E i \in Items : CreateLineItem(i, l)
    \/ \E l \in DOMAIN links : DeleteLink(l) \/ Launch(l)
    \/ \E d \in DOMAIN deployments : RemoveDeployment(d)

Spec == Init /\ [][Next]_claimVars

TypeOK ==
    /\ TreeTypeOK
    /\ DOMAIN links \subseteq Links /\ assigned \subseteq DOMAIN links
    /\ \A l \in DOMAIN links :
          links[l].deployment \in DOMAIN deployments /\ links[l].context \in DOMAIN parent \cup {None}
    /\ DOMAIN items \subseteq Items /\ \A i \in DOMAIN items : items[i] \in assigned
    /\ claims \subseteq Claim

-----------------------------------------------------------------------------
(***************************************************************************)
(* Properties.                                                             *)
(***************************************************************************)
\* A claim names a line item if and only if it is the one line item of the launched
\* link ("one-to-one relationship with a resource link", create-ags-claim.service.spec).
ClaimsNameTheOnlyItem ==
    [][\A claim \in claims' \ claims, i \in Items :
          claim.lineitem = i <=> {j \in DOMAIN items : items[j] = claim.link} = {i}]_claimVars

\* The container a claim shows to a tool is served to it, whenever the tool comes for
\* it: its scopes suffice, and the deployment it was launched from is not removed, nor
\* hidden by what is deployed or created later.
ClaimedContainersAreServed ==
    \A claim \in claims : claim.lineitems => Admitted(claim.tool, claim.context, "list")

\* A claim is carried to every tool that would be admitted to the container of the
\* launched link: no tool has to guess where its line items are.
AdmittedToolsAreTold ==
    \A l \in assigned :
        Admitted(ToolOf(l), links[l].context, "list") =>
            \E claim \in CreateClaim(l) : claim.lineitems

=============================================================================
