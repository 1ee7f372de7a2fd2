----------------------------- MODULE LaunchLinks -----------------------------
(***************************************************************************)
(* Discovery: the home page shows a user the resource links, each unless   *)
(* the message of its tool asks for roles the user has none of.            *)
(*                                                                         *)
(* The page reads the links, then the tools that own them; tools,          *)
(* deployments and links come and go in between (LtiRegistry).             *)
(***************************************************************************)
EXTENDS LtiRegistry

CONSTANT Visits  \* concurrent requests of the home page

VARIABLE page   \* page[p]: what request p has read, and what it shows

SystemRoles == {"admin", "user"}
LtiRoles == {"Administrator", "SysAdmin", "User"}

\* the ids of tools begin with lti_, and those of links are plain uuids
ASSUME LaunchLinksAssumption == Roles \subseteq LtiRoles /\ Tools \cap Links = {}

discoveryVars == <<registryVars, page>>

Request == [pc : {"idle", "links", "shown"}, roles : SUBSET LtiRoles,
            read : SUBSET [id : Links, tool : Tools], shown : SUBSET [id : Links, tool : Tools]]

Fresh == [pc |-> "idle", roles |-> {}, read |-> {}, shown |-> {}]

DiscoveryTypeOK == RegistryTypeOK /\ page \in [Visits -> Request]

DiscoveryInit == RegistryInit /\ page = [p \in Visits |-> Fresh]

-----------------------------------------------------------------------------
MapRolesToLtiSystemRoles(role) ==
    CASE role = "admin" -> {"Administrator", "SysAdmin"}
      [] role = "user"  -> {"User"}

\* a link is joined with its deployment, which has the tool
FindManyLinks == {[id |-> l, tool |-> deploymentTool[linkRow[l].deployment]] : l \in liveLinks}

\* the ids of the tools are compared with those of the links
FindToolsOwningResourceLinks(ids) == {t \in liveTools : t \in ids}

\* Mutant: a link without a message is not shown.
AskedForRoles(roles, tools) ==
    {t \in Tools : t \in tools /\ toolRow[t].roles \cap roles # {}}

\* the tools whose links the user sees: a tool that is not found has no message,
\* and a message without roles is for everybody
Unrestricted(roles, tools) ==
    {t \in Tools : t \in tools => toolRow[t].roles = {} \/ toolRow[t].roles \cap roles # {}}

Open(p) ==
    /\ page[p].pc = "idle"
    /\ \E role \in SystemRoles :
        page' = [page EXCEPT ![p] = [Fresh EXCEPT
                    !.pc = "links", !.roles = MapRolesToLtiSystemRoles(role),
                    !.read = FindManyLinks]]
    /\ UNCHANGED registryVars

Present(p) ==
    /\ page[p].pc = "links"
    /\ LET tools == FindToolsOwningResourceLinks({link.id : link \in page[p].read})
       IN  page' = [page EXCEPT ![p].pc = "shown",
              ![p].shown = {link \in page[p].read :
                               link.tool \in Unrestricted(page[p].roles, tools)}]
    /\ UNCHANGED registryVars

Leave(p) ==
    /\ page[p].pc = "shown"
    /\ page' = [page EXCEPT ![p] = Fresh]
    /\ UNCHANGED registryVars

DiscoveryNext ==
    \/ RegistryNext /\ UNCHANGED page
    \/ \E p \in Visits : Open(p) \/ Present(p) \/ Leave(p)

DiscoverySpec == DiscoveryInit /\ [][DiscoveryNext]_discoveryVars

-----------------------------------------------------------------------------
(***************************************************************************)
(* Properties.                                                             *)
(***************************************************************************)
RequiredRoles(t) == toolRow[t].roles

\* A link the user may see is on the page if it was there when the page was asked for:
\* removing its tool, its deployment or the link meanwhile does not hide the others
\* (the filter of GetLaunchLinksService.execute).
OpenLinksAreShown ==
    \A p \in Visits : page[p].pc = "shown" =>
        \A link \in page[p].read :
            RequiredRoles(link.tool) = {} \/ RequiredRoles(link.tool) \cap page[p].roles # {} =>
                link \in page[p].shown

=============================================================================
