---------------------------- MODULE LtiRegistry ----------------------------
(***************************************************************************)
(* The PostgreSQL side of the LTI platform: registered tools, their        *)
(* deployments and the resource links of a deployment, with the handlers   *)
(* that write them.                                                        *)
(*                                                                         *)
(* A deployment or a resource link is never updated, only inserted under   *)
(* a fresh UUID and deleted.  A table is therefore the set of its live     *)
(* ids, and a write-once function gives the content of each id ever used.  *)
(* Every SQL statement is one step.  A handler that reads before it writes *)
(* takes two steps, and other requests run in between.                     *)
(*                                                                         *)
(* A statement that fails leaves the database as it was and its handler    *)
(* answers with an error, so only the failures of the second step of a     *)
(* handler are visible here.                                               *)
(***************************************************************************)

CONSTANTS
    Tools,        \* client ids of LTI tools (uuid with the tool prefix)
    Deployments,  \* deployment ids (uuid)
    Links,        \* resource link ids (uuid)
    Admins,       \* concurrent requests of the people who manage the registry
    Configs,      \* the registrations a tool may send
    Urls,         \* target link URLs
    RedirectUris, \* redirect URIs
    Roles,        \* LTI roles a message may require
    None,         \* the absent value: SQL null, `undefined`, no row
    RegistrationManagement
                  \* whether oidc-provider updates and deletes clients too: its
                  \* adapter implements both, today's configuration enables neither

Config == [redirects : SUBSET RedirectUris, messageTarget : Urls \cup {None},
           target : Urls, roles : SUBSET Roles]
LinkRow == [deployment : Deployments, url : Urls \cup {None}]
AdminState == [op : {"idle", "deploy", "link"}, tool : Tools \cup {None},
               deployment : Deployments \cup {None}, url : Urls \cup {None}]

ASSUME RegistryAssumption ==
    /\ Configs \subseteq Config
    /\ None \notin Tools \cup Deployments \cup Links \cup Urls
    /\ None \notin Config /\ None \notin LinkRow
    /\ RegistrationManagement \in BOOLEAN

VARIABLES
    toolRow,         \* toolRow[t]: the registration stored for t, None before it has one
    liveTools,       \* ids with a row in oauth_client and lti_tools
    deploymentTool,  \* deploymentTool[d]: the tool d was created for, None before
    liveDeployments, \* ids with a row in lti_deployments
    linkRow,         \* linkRow[l]: the row l was inserted with, None before
    liveLinks,       \* ids with a row in lti_resource_link
    admin            \* admin[a]: what request a has read and is about to insert

tables == <<toolRow, liveTools, deploymentTool, liveDeployments, linkRow, liveLinks>>
registryVars == <<tables, admin>>

IdleAdmin == [op |-> "idle", tool |-> None, deployment |-> None, url |-> None]

RegistryInit ==
    /\ toolRow = [t \in Tools |-> None]
    /\ liveTools = {}
    /\ deploymentTool = [d \in Deployments |-> None]
    /\ liveDeployments = {}
    /\ linkRow = [l \in Links |-> None]
    /\ liveLinks = {}
    /\ admin = [a \in Admins |-> IdleAdmin]

-----------------------------------------------------------------------------
(***************************************************************************)
(* Rows that refer to other rows.                                          *)
(***************************************************************************)
\* Mutant: a schema that does not constrain the tool of a deployment.
AnyTool(t) == TRUE

\* The foreign keys of lti_deployments and lti_resource_link: an insert succeeds only
\* while the row it refers to exists.
ToolKeyHolds(t) == t \in liveTools
DeploymentKeyHolds(d) == d \in liveDeployments

DeploymentsOf(t) == {d \in liveDeployments : deploymentTool[d] = t}

\* Mutant: links that outlive their deployment.
NoLinks(ds) == {}

LinksOf(ds) == {l \in liveLinks : linkRow[l].deployment \in ds}

-----------------------------------------------------------------------------
(***************************************************************************)
(* Tools                                                                   *)
(***************************************************************************)

\* Dynamic registration: oidc-provider hands the adapter a client id nobody had.
RegisterTool(t, config) ==
    /\ toolRow[t] = None
    /\ toolRow' = [toolRow EXCEPT ![t] = config]
    /\ liveTools' = liveTools \cup {t}
    /\ UNCHANGED <<deploymentTool, liveDeployments, linkRow, liveLinks, admin>>

\* The upsert of a tool that exists.  The transaction rewrites the client, its URIs
\* and its messages, but only adds rows to the table of message roles, whose primary
\* key makes the whole transaction fail when one of the roles is already there.
UpdateTool(t, config) ==
    /\ RegistrationManagement
    /\ t \in liveTools
    /\ toolRow[t].roles \cap config.roles = {}
    /\ toolRow' = [toolRow EXCEPT ![t] =
                     [config EXCEPT !.roles = @ \cup toolRow[t].roles]]
    /\ UNCHANGED <<liveTools, deploymentTool, liveDeployments, linkRow, liveLinks, admin>>

\* Deleting the client cascades to the tool, to its deployments and to their links.
DeleteTool(t) ==
    /\ RegistrationManagement
    /\ t \in liveTools
    /\ liveTools' = liveTools \ {t}
    /\ liveDeployments' = liveDeployments \ DeploymentsOf(t)
    /\ liveLinks' = liveLinks \ LinksOf(DeploymentsOf(t))
    /\ UNCHANGED <<toolRow, deploymentTool, linkRow, admin>>

-----------------------------------------------------------------------------
(***************************************************************************)
(* Deployments                                                             *)
(***************************************************************************)

\* deployTool reads the tool, then saves a deployment for it.
FindToolToDeploy(a, t) ==
    /\ admin[a] = IdleAdmin
    /\ t \in liveTools
    /\ admin' = [admin EXCEPT ![a] = [IdleAdmin EXCEPT !.op = "deploy", !.tool = t]]
    /\ UNCHANGED tables

SaveDeployment(a, d) ==
    /\ admin[a].op = "deploy"
    /\ deploymentTool[d] = None
    /\ admin' = [admin EXCEPT ![a] = IdleAdmin]
    /\ IF ToolKeyHolds(admin[a].tool)
         THEN /\ deploymentTool' = [deploymentTool EXCEPT ![d] = admin[a].tool]
              /\ liveDeployments' = liveDeployments \cup {d}
         ELSE UNCHANGED <<deploymentTool, liveDeployments>>
    /\ UNCHANGED <<toolRow, liveTools, linkRow, liveLinks>>

\* removeDeployment cascades to the links of the deployment.
RemoveDeployment(d) ==
    /\ d \in liveDeployments
    /\ liveDeployments' = liveDeployments \ {d}
    /\ liveLinks' = liveLinks \ LinksOf({d})
    /\ UNCHANGED <<toolRow, liveTools, deploymentTool, linkRow, admin>>

-----------------------------------------------------------------------------
(***************************************************************************)
(* Resource links                                                          *)
(***************************************************************************)

\* create reads the deployment, then inserts a link in it.
FindDeploymentToLink(a, d, url) ==
    /\ admin[a] = IdleAdmin
    /\ d \in liveDeployments
    /\ admin' = [admin EXCEPT ![a] =
                   [IdleAdmin EXCEPT !.op = "link", !.deployment = d, !.url = url]]
    /\ UNCHANGED tables

CreateLink(a, l) ==
    /\ admin[a].op = "link"
    /\ linkRow[l] = None
    /\ admin' = [admin EXCEPT ![a] = IdleAdmin]
    /\ IF DeploymentKeyHolds(admin[a].deployment)
         THEN /\ linkRow' = [linkRow EXCEPT ![l] = [deployment |-> admin[a].deployment,
                                                   url |-> admin[a].url]]
              /\ liveLinks' = liveLinks \cup {l}
         ELSE UNCHANGED <<linkRow, liveLinks>>
    /\ UNCHANGED <<toolRow, liveTools, deploymentTool, liveDeployments>>

DeleteLink(l) ==
    /\ l \in liveLinks
    /\ liveLinks' = liveLinks \ {l}
    /\ UNCHANGED <<toolRow, liveTools, deploymentTool, liveDeployments, linkRow, admin>>

-----------------------------------------------------------------------------
RegistryNext ==
    \/ \E t \in Tools, config \in Configs : RegisterTool(t, config) \/ UpdateTool(t, config)
    \/ \E t \in Tools : DeleteTool(t)
    \/ \E a \in Admins, t \in Tools : FindToolToDeploy(a, t)
    \/ \E a \in Admins, d \in Deployments : SaveDeployment(a, d)
    \/ \E d \in Deployments : RemoveDeployment(d)
    \/ \E a \in Admins, d \in Deployments, url \in Urls \cup {None} :
          FindDeploymentToLink(a, d, url)
    \/ \E a \in Admins, l \in Links : CreateLink(a, l)
    \/ \E l \in Links : DeleteLink(l)

RegistrySpec == RegistryInit /\ [][RegistryNext]_registryVars

RegistryTypeOK ==
    /\ toolRow \in [Tools -> Config \cup {None}]
    /\ liveTools \subseteq Tools
    /\ deploymentTool \in [Deployments -> Tools \cup {None}]
    /\ liveDeployments \subseteq Deployments
    /\ linkRow \in [Links -> LinkRow \cup {None}]
    /\ liveLinks \subseteq Links
    /\ admin \in [Admins -> AdminState]

\* A stored link is always in a stored deployment, and a stored deployment always of a
\* stored tool, whatever is deleted between the read and the insert of deployTool and
\* of create: the cascades and the foreign keys leave no orphan behind.
NoOrphans ==
    /\ \A t \in liveTools : toolRow[t] # None
    /\ \A d \in liveDeployments : deploymentTool[d] \in liveTools
    /\ \A l \in liveLinks : linkRow[l] # None /\ linkRow[l].deployment \in liveDeployments

=============================================================================
