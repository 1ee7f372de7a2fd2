-------------------------- MODULE LtiLaunchProofs --------------------------
(***************************************************************************)
(* What reaches a tool is what was offered to it, for any number of tools, *)
(* links, launches and concurrent handlers.                                *)
(*                                                                         *)
(* The handlers work on what they read some time ago.  The argument is     *)
(* that what they read of a link and of a deployment's tool never becomes  *)
(* wrong, only dead: rows are written once.  So the invariant relates each *)
(* handler's variables to the rows themselves, live or not.                *)
(*                                                                         *)
(* The last section is about discovery, the other reader of the registry.  *)
(***************************************************************************)
EXTENDS LtiLaunch, LaunchLinks, TLAPS

-----------------------------------------------------------------------------
(***************************************************************************)
(* The registry: nothing in it is ever orphaned.  The types and NoOrphans  *)
(* are inductive together: an update keeps the roles of the stored row,    *)
(* which is a registration only because a live tool has one.               *)
(***************************************************************************)
RegistryInv == RegistryTypeOK /\ NoOrphans

LEMMA RegistryInitInv == RegistryInit => RegistryInv
  BY RegistryAssumption
  DEF RegistryInit, RegistryInv, RegistryTypeOK, NoOrphans, IdleAdmin, AdminState

\* Each statement of the registry's handlers keeps the invariant.
LEMMA RegistryStep == RegistryInv /\ RegistryNext => RegistryInv'
<1> SUFFICES ASSUME RegistryInv, RegistryNext PROVE RegistryInv'
  OBVIOUS
<1> USE RegistryAssumption DEF RegistryInv, RegistryTypeOK, NoOrphans
<1>1. CASE \E t \in Tools, config \in Configs : RegisterTool(t, config)
  <2> PICK t \in Tools, config \in Configs : RegisterTool(t, config)
    BY <1>1
  <2> QED  BY DEF RegisterTool
<1>2. CASE \E t \in Tools, config \in Configs : UpdateTool(t, config)
  <2> PICK t \in Tools, config \in Configs : UpdateTool(t, config)
    BY <1>2
  <2>1. toolRow[t] \in Config /\ config \in Config
    BY DEF UpdateTool
  <2>2. [config EXCEPT !.roles = @ \cup toolRow[t].roles] \in Config
    BY <2>1 DEF Config
  <2>3. toolRow' \in [Tools -> Config \cup {None}]
    BY <2>2 DEF UpdateTool
  <2>4. \A s \in liveTools : toolRow'[s] # None
    BY <2>2 DEF UpdateTool
  <2> QED  BY <2>3, <2>4 DEF UpdateTool
<1>3. CASE \E t \in Tools : DeleteTool(t)
  BY <1>3 DEF DeleteTool, DeploymentsOf, LinksOf
<1>4. CASE \E a \in Admins, t \in Tools : FindToolToDeploy(a, t)
  <2> PICK a \in Admins, t \in Tools : FindToolToDeploy(a, t)
    BY <1>4
  <2>1. [IdleAdmin EXCEPT !.op = "deploy", !.tool = t] \in AdminState
    BY DEF IdleAdmin, AdminState
  <2>2. admin' \in [Admins -> AdminState]
    BY <2>1 DEF FindToolToDeploy
  <2> QED  BY <2>2 DEF FindToolToDeploy, tables
<1>5. CASE \E a \in Admins, d \in Deployments : SaveDeployment(a, d)
  <2> PICK a \in Admins, d \in Deployments : SaveDeployment(a, d)
    BY <1>5
  <2>1. admin' \in [Admins -> AdminState]
    BY DEF SaveDeployment, IdleAdmin, AdminState
  <2>2. d \notin liveDeployments
    BY DEF SaveDeployment
  <2>3. CASE admin[a].tool \in liveTools
    BY <2>1, <2>2, <2>3 DEF SaveDeployment, ToolKeyHolds
  <2>4. CASE admin[a].tool \notin liveTools
    BY <2>1, <2>4 DEF SaveDeployment, ToolKeyHolds
  <2> QED  BY <2>3, <2>4
<1>6. CASE \E d \in Deployments : RemoveDeployment(d)
  BY <1>6 DEF RemoveDeployment, LinksOf
<1>7. CASE \E a \in Admins, d \in Deployments, url \in Urls \cup {None} :
              FindDeploymentToLink(a, d, url)
  <2> PICK a \in Admins, d \in Deployments, url \in Urls \cup {None} :
              FindDeploymentToLink(a, d, url)
    BY <1>7
  <2>1. [IdleAdmin EXCEPT !.op = "link", !.deployment = d, !.url = url] \in AdminState
    BY DEF IdleAdmin, AdminState
  <2>2. admin' \in [Admins -> AdminState]
    BY <2>1 DEF FindDeploymentToLink
  <2> QED  BY <2>2 DEF FindDeploymentToLink, tables
<1>8. CASE \E a \in Admins, l \in Links : CreateLink(a, l)
  <2> PICK a \in Admins, l \in Links : CreateLink(a, l)
    BY <1>8
  <2>1. admin' \in [Admins -> AdminState]
    BY DEF CreateLink, IdleAdmin, AdminState
  <2>2. l \notin liveLinks
    BY DEF CreateLink
  <2>3. CASE admin[a].deployment \in liveDeployments
    <3> DEFINE row == [deployment |-> admin[a].deployment, url |-> admin[a].url]
    <3>1. admin[a].url \in Urls \cup {None}
      BY DEF AdminState
    <3>2. row \in LinkRow /\ row # None /\ row.deployment = admin[a].deployment
      BY <2>3, <3>1 DEF LinkRow
    <3>3. linkRow' = [linkRow EXCEPT ![l] = row] /\ liveLinks' = liveLinks \cup {l}
      BY <2>3 DEF CreateLink, DeploymentKeyHolds
    <3> HIDE DEF row
    <3> QED  BY <2>1, <2>2, <2>3, <3>2, <3>3 DEF CreateLink
  <2>4. CASE admin[a].deployment \notin liveDeployments
    BY <2>1, <2>4 DEF CreateLink, DeploymentKeyHolds
  <2> QED  BY <2>3, <2>4
<1>9. CASE \E l \in Links : DeleteLink(l)
  BY <1>9 DEF DeleteLink
<1> QED
  BY <1>1, <1>2, <1>3, <1>4, <1>5, <1>6, <1>7, <1>8, <1>9 DEF RegistryNext

LEMMA RegistryStutter == RegistryInv /\ UNCHANGED registryVars => RegistryInv'
  BY DEF RegistryInv, RegistryTypeOK, NoOrphans, registryVars, tables

\* The foreign keys and cascades of the schema leave no deployment without its tool and no
\* link without its deployment, for any number of tools and of concurrent requests.
THEOREM RegistryHasNoOrphans == RegistrySpec => []NoOrphans
<1>1. RegistryInv /\ [RegistryNext]_registryVars => RegistryInv'
  BY RegistryStep, RegistryStutter
<1>2. RegistryInv => NoOrphans
  BY DEF RegistryInv
<1> QED
  BY <1>1, <1>2, RegistryInitInv, PTL DEF RegistrySpec

\* Every table and every request in progress holds values of its type.
THEOREM RegistryIsTyped == RegistrySpec => []RegistryTypeOK
<1>1. RegistryInv /\ [RegistryNext]_registryVars => RegistryInv'
  BY RegistryStep, RegistryStutter
<1>2. RegistryInv => RegistryTypeOK
  BY DEF RegistryInv
<1> QED
  BY <1>1, <1>2, RegistryInitInv, PTL DEF RegistrySpec

-----------------------------------------------------------------------------
\* A link that was ever stored was stored in a deployment that was ever stored.
LinkHistory ==
    \A l \in Links : linkRow[l] # None => deploymentTool[linkRow[l].deployment] \in Tools

\* The offer that goes with a stored launch.
OfferOf(data) ==
    LET row == ReadLink(data.link)
    IN  [tool |-> row.tool, deployment |-> row.deployment, link |-> data.link,
         target |-> data.target, user |-> data.user]

StoredLaunchesInv ==
    \A h \in Launches : launches[h] # None => linkRow[launches[h].link] # None

OffersInv ==
    \A h \in Launches : offers[h] # None =>
        launches[h] # None /\ offers[h] = OfferOf(launches[h])

\* What an initiation has read and stored so far.
InitiationOK(i) ==
    LET st == initiation[i]
    IN  /\ st.pc # "idle" => st.user \in Users /\ st.link \in Links
        /\ st.pc \in {"tool", "save", "respond"} =>
             linkRow[st.link] # None /\ st.row = ReadLink(st.link)
        /\ st.pc \in {"save", "respond"} => st.target \in Urls
        /\ st.pc = "respond" =>
             /\ st.launch \in Launches
             /\ launches[st.launch] # None
             /\ launches[st.launch].user = st.user
             /\ launches[st.launch].link = st.link
             /\ launches[st.launch].target = st.target

InitiationInv == \A i \in Initiations : InitiationOK(i)

\* What a request that still waits, or that got a message, has read so far.
RequestOK(q) ==
    LET st == login[q]
    IN  /\ st.pc # "idle" =>
             /\ st.tool \in Tools /\ st.uri \in RedirectUris
             /\ st.hint \in Offered \cup {UnknownHint}
             /\ closedFor[q] => Closed(st.hint)
        /\ st.pc \in {"launch", "link", "message"} =>
             /\ st.snapshot \in ToolSnapshot
             /\ st.uri \in st.snapshot.redirects
             /\ \A d \in st.snapshot.deployments : deploymentTool[d] = st.tool
        /\ st.pc \in {"link", "message"} =>
             st.hint \in Offered /\ st.launch = launches[st.hint]
        /\ st.pc = "link" /\ closedFor[q] => st.launch.link \notin liveLinks
        /\ st.pc = "message" => st.link = ReadLink(st.launch.link) /\ ~closedFor[q]

AnswerOK(q) ==
    LET st == login[q]
    IN  /\ st.answer # None => st.pc = "answered"
        /\ Got(q, "message") =>
             /\ st.hint \in Offered
             /\ st.answer.message = offers[st.hint]
             /\ st.tool = offers[st.hint].tool
             /\ ~closedFor[q]
        /\ Got(q, "redirect") \/ Got(q, "message") =>
             st.snapshot # None /\ st.uri \in st.snapshot.redirects

LoginInv == \A q \in Logins : RequestOK(q) /\ AnswerOK(q)

LaunchInv ==
    /\ TypeOK /\ NoOrphans /\ LinkHistory
    /\ StoredLaunchesInv /\ OffersInv /\ InitiationInv /\ LoginInv

-----------------------------------------------------------------------------
(***************************************************************************)
(* How the world a handler has read from may change                        *)
(***************************************************************************)

\* Rows keep their content, and a dead link stays dead.
RowsKept ==
    /\ \A d \in Deployments : deploymentTool[d] # None => deploymentTool'[d] = deploymentTool[d]
    /\ \A l \in Links : linkRow[l] # None =>
          linkRow'[l] = linkRow[l] /\ (l \notin liveLinks => l \notin liveLinks')

Evolves ==
    /\ RowsKept
    /\ \A h \in Launches : launches[h] # None => launches'[h] = launches[h]
    /\ \A h \in Launches : offers[h] # None => offers'[h] = offers[h]
    /\ now' \in Nat /\ now <= now'

LEMMA RegistryKeepsRows == RegistryInv /\ RegistryNext => RowsKept
<1> SUFFICES ASSUME RegistryInv, RegistryNext PROVE RowsKept
  OBVIOUS
<1> USE DEF RegistryInv, RegistryTypeOK, RowsKept
<1>1. CASE \E t \in Tools, config \in Configs : RegisterTool(t, config) \/ UpdateTool(t, config)
  BY <1>1 DEF RegisterTool, UpdateTool
<1>2. CASE \E t \in Tools : DeleteTool(t)
  BY <1>2 DEF DeleteTool
<1>3. CASE \E a \in Admins, t \in Tools : FindToolToDeploy(a, t)
  BY <1>3 DEF FindToolToDeploy, tables
<1>4. CASE \E a \in Admins, d \in Deployments : SaveDeployment(a, d)
  BY <1>4 DEF SaveDeployment
<1>5. CASE \E d \in Deployments : RemoveDeployment(d)
  BY <1>5 DEF RemoveDeployment
<1>6. CASE \E a \in Admins, d \in Deployments, url \in Urls \cup {None} :
              FindDeploymentToLink(a, d, url)
  BY <1>6 DEF FindDeploymentToLink, tables
<1>7. CASE \E a \in Admins, l \in Links : CreateLink(a, l)
  BY <1>7 DEF CreateLink
<1>8. CASE \E l \in Links : DeleteLink(l)
  BY <1>8 DEF DeleteLink
<1> QED
  BY <1>1, <1>2, <1>3, <1>4, <1>5, <1>6, <1>7, <1>8 DEF RegistryNext

LEMMA RegistryKeepsLinkHistory == RegistryInv /\ LinkHistory /\ RegistryNext => LinkHistory'
<1> SUFFICES ASSUME RegistryInv, LinkHistory, RegistryNext PROVE LinkHistory'
  OBVIOUS
<1>0. RegistryTypeOK' /\ RowsKept /\ None \notin Tools
  BY RegistryStep, RegistryKeepsRows, RegistryAssumption DEF RegistryInv
<1> USE DEF RegistryInv, RegistryTypeOK, LinkHistory, RowsKept
<1>1. CASE \E a \in Admins, l \in Links : CreateLink(a, l)
  <2> PICK a \in Admins, l \in Links : CreateLink(a, l)
    BY <1>1
  <2>1. deploymentTool' = deploymentTool
    BY DEF CreateLink
  <2>2. \A k \in Links \ {l} : linkRow'[k] = linkRow[k]
    BY DEF CreateLink
  <2>3. ASSUME linkRow'[l] # None PROVE deploymentTool[linkRow'[l].deployment] \in Tools
    <3>1. DeploymentKeyHolds(admin[a].deployment) /\ linkRow'[l].deployment = admin[a].deployment
      BY <2>3 DEF CreateLink
    <3> QED  BY <3>1 DEF DeploymentKeyHolds, NoOrphans
  <2> QED  BY <2>1, <2>2, <2>3
<1>2. CASE ~ \E a \in Admins, l \in Links : CreateLink(a, l)
  <2>1. linkRow' = linkRow
    BY <1>2 DEF RegistryNext, RegisterTool, UpdateTool, DeleteTool, FindToolToDeploy,
      SaveDeployment, RemoveDeployment, FindDeploymentToLink, DeleteLink, tables
  <2>2. \A l \in Links : linkRow[l] # None => linkRow[l].deployment \in Deployments
    BY DEF LinkRow
  <2> QED  BY <1>0, <2>1, <2>2, SMTT(40)
<1> QED  BY <1>1, <1>2

-----------------------------------------------------------------------------
(***************************************************************************)
(* A handler that does not move keeps its invariant                        *)
(***************************************************************************)
LEMMA ReadLinkKept ==
  ASSUME RegistryTypeOK, LinkHistory, RowsKept, NEW l \in Links, linkRow[l] # None
  PROVE  /\ linkRow'[l] = linkRow[l]
         /\ deploymentTool'[linkRow[l].deployment] = deploymentTool[linkRow[l].deployment]
         /\ ReadLink(l) \in LinkSnapshot
<1>1. linkRow[l].deployment \in Deployments /\ linkRow[l].url \in Urls \cup {None}
  BY DEF RegistryTypeOK, LinkRow
<1>2. deploymentTool[linkRow[l].deployment] \in Tools
  BY DEF LinkHistory
<1> QED
  BY <1>1, <1>2, RegistryAssumption DEF RowsKept, ReadLink, LinkSnapshot

LEMMA LinkReadTyped ==
  ASSUME LaunchInv, NEW l \in Links, linkRow[l] # None
  PROVE  ReadLink(l) \in LinkSnapshot
<1>1. linkRow[l].deployment \in Deployments /\ linkRow[l].url \in Urls \cup {None}
  BY DEF LaunchInv, TypeOK, RegistryTypeOK, LinkRow
<1>2. deploymentTool[linkRow[l].deployment] \in Tools
  BY DEF LaunchInv, LinkHistory
<1> QED  BY <1>1, <1>2 DEF ReadLink, LinkSnapshot

LEMMA ClosedForGood ==
  ASSUME LaunchInv, Evolves, NEW h \in Offered \cup {UnknownHint}, Closed(h)
  PROVE  Closed(h)'
<1>1. CASE h \notin Launches
  BY <1>1 DEF Closed, InRedis
<1>2. CASE h \in Launches
  <2>1. h \in Offered /\ offers[h] # None
    BY <1>2, LaunchAssumption DEF Offered
  <2>2. launches[h] # None /\ launches'[h] = launches[h] /\ launches[h] \in LaunchData
    BY <1>2, <2>1 DEF LaunchInv, OffersInv, Evolves, TypeOK
  <2>3. launches[h].link \in Links /\ launches[h].expiresAt \in Nat
    BY <2>2 DEF LaunchData
  <2>4. linkRow[launches[h].link] # None
    BY <1>2, <2>2 DEF LaunchInv, StoredLaunchesInv
  <2>5. now \in Nat /\ now' \in Nat /\ now <= now'
    BY DEF LaunchInv, TypeOK, Evolves
  <2>6. CASE launches[h].link \notin liveLinks
    BY <2>2, <2>3, <2>4, <2>6 DEF Evolves, RowsKept, Closed
  <2>7. CASE ~InRedis(h)
    <3>1. ~(now < launches[h].expiresAt)
      BY <1>2, <2>2, <2>7 DEF InRedis
    <3> QED  BY <2>2, <2>3, <2>5, <3>1 DEF Closed, InRedis
  <2> QED  BY <2>6, <2>7 DEF Closed
<1> QED  BY <1>1, <1>2

LEMMA InitiationKept ==
  ASSUME LaunchInv, Evolves, NEW i \in Initiations, initiation'[i] = initiation[i]
  PROVE  InitiationOK(i)'
<1> USE DEF LaunchInv
<1>1. InitiationOK(i)
  BY DEF InitiationInv
<1> DEFINE st == initiation[i]
<1>2. ASSUME st.pc \in {"tool", "save", "respond"}
      PROVE  linkRow'[st.link] # None /\ st.row = ReadLink(st.link)'
  <2>1. st.link \in Links /\ linkRow[st.link] # None /\ st.row = ReadLink(st.link)
    BY <1>1, <1>2 DEF InitiationOK
  <2>2. RegistryTypeOK /\ RowsKept
    BY DEF TypeOK, Evolves
  <2> QED  BY <2>1, <2>2, ReadLinkKept DEF ReadLink
<1>3. ASSUME st.pc = "respond" PROVE launches'[st.launch] = launches[st.launch]
  BY <1>1, <1>3 DEF Evolves, InitiationOK
<1> QED
  BY <1>1, <1>2, <1>3 DEF InitiationOK, ReadLink

LEMMA RequestKept ==
  ASSUME LaunchInv, Evolves, NEW q \in Logins,
         login'[q] = login[q], closedFor'[q] = closedFor[q]
  PROVE  RequestOK(q)'
<1> DEFINE st == login[q]
<1>0. RequestOK(q) /\ login[q] \in LoginState /\ RegistryTypeOK
  BY DEF LaunchInv, LoginInv, TypeOK
<1>1. Offered \subseteq Offered'
  BY DEF Evolves, Offered
<1>2. ASSUME NEW h, h = st.hint, st.pc # "idle", closedFor[q] PROVE Closed(h)'
  <2>1. h \in Offered \cup {UnknownHint} /\ Closed(h)
    BY <1>0, <1>2 DEF RequestOK
  <2> QED  BY <2>1, ClosedForGood
<1>3. ASSUME st.pc \in {"launch", "link", "message"}, NEW d \in st.snapshot.deployments
      PROVE  deploymentTool'[d] = st.tool
  <2>1. d \in Deployments /\ deploymentTool[d] = st.tool /\ st.tool \in Tools
    BY <1>0, <1>3 DEF RequestOK, ToolSnapshot
  <2> QED  BY <2>1, RegistryAssumption DEF Evolves, RowsKept
<1>4. ASSUME st.pc \in {"link", "message"}
      PROVE  /\ st.hint \in Launches /\ st.launch = launches[st.hint]
             /\ launches'[st.hint] = launches[st.hint] /\ launches[st.hint] \in LaunchData
             /\ st.launch.link \in Links /\ linkRow[st.launch.link] # None
  <2>1. st.hint \in Offered /\ st.launch = launches[st.hint]
    BY <1>0, <1>4 DEF RequestOK
  <2>2. st.hint \in Launches /\ launches[st.hint] # None
    BY <2>1 DEF Offered, LaunchInv, OffersInv
  <2> QED
    BY <2>1, <2>2 DEF LaunchInv, TypeOK, Evolves, StoredLaunchesInv, LaunchData
<1>5. ASSUME st.pc = "link", closedFor[q] PROVE st.launch.link \notin liveLinks'
  BY <1>0, <1>4, <1>5 DEF RequestOK, Evolves, RowsKept
<1>6. ASSUME st.pc = "message" PROVE st.link = ReadLink(st.launch.link)'
  <2>1. st.link = ReadLink(st.launch.link)
    BY <1>0, <1>6 DEF RequestOK
  <2>2. st.launch.link \in Links /\ linkRow[st.launch.link] # None
    BY <1>4, <1>6
  <2>3. LinkHistory /\ RowsKept
    BY DEF LaunchInv, Evolves
  <2>4. /\ linkRow'[st.launch.link] = linkRow[st.launch.link]
        /\ deploymentTool'[linkRow[st.launch.link].deployment]
                = deploymentTool[linkRow[st.launch.link].deployment]
    BY <1>0, <2>2, <2>3, ReadLinkKept
  <2>5. ReadLink(st.launch.link)' = ReadLink(st.launch.link)
    BY <2>4 DEF ReadLink
  <2> QED  BY <2>1, <2>5
<1>7. ASSUME st.pc # "idle" PROVE st.hint \in Offered' \cup {UnknownHint}
  BY <1>0, <1>1, <1>7 DEF RequestOK
<1>8. ASSUME st.pc \in {"link", "message"} PROVE st.hint \in Offered'
  BY <1>0, <1>1, <1>8 DEF RequestOK
<1> QED
  BY <1>0, <1>2, <1>3, <1>4, <1>5, <1>6, <1>7, <1>8 DEF RequestOK, Closed, InRedis, ReadLink

LEMMA AnswerKept ==
  ASSUME LaunchInv, Evolves, NEW q \in Logins,
         login'[q] = login[q], closedFor'[q] = closedFor[q]
  PROVE  AnswerOK(q)'
<1>1. AnswerOK(q)
  BY DEF LaunchInv, LoginInv
<1>2. ASSUME login[q].hint \in Offered
      PROVE  login[q].hint \in Offered' /\ offers'[login[q].hint] = offers[login[q].hint]
  BY <1>2 DEF Offered, Evolves
<1> QED  BY <1>1, <1>2 DEF AnswerOK, Got

-----------------------------------------------------------------------------
(***************************************************************************)
(* What the steps of the launch flow leave behind                          *)
(***************************************************************************)

LEMMA StoreKept ==
  ASSUME LaunchInv, UNCHANGED <<launches, offers>>, RowsKept
  PROVE  StoredLaunchesInv' /\ OffersInv'
<1> USE DEF LaunchInv
<1>1. ASSUME NEW h \in Launches, launches[h] # None
      PROVE  /\ launches[h].link \in Links /\ linkRow[launches[h].link] # None
             /\ linkRow'[launches[h].link] = linkRow[launches[h].link]
             /\ OfferOf(launches[h])' = OfferOf(launches[h])
  <2>1. launches[h].link \in Links /\ linkRow[launches[h].link] # None
    BY <1>1 DEF TypeOK, LaunchData, StoredLaunchesInv
  <2> QED  BY <2>1, ReadLinkKept DEF TypeOK, OfferOf, ReadLink
<1> QED
  BY <1>1 DEF StoredLaunchesInv, OffersInv

LEMMA RowsFrame ==
  ASSUME LaunchInv, UNCHANGED registryVars
  PROVE  RowsKept /\ RegistryTypeOK' /\ NoOrphans' /\ LinkHistory'
<1>1. RegistryInv
  BY DEF LaunchInv, TypeOK, RegistryInv
<1>2. RegistryInv'
  BY <1>1, RegistryStutter
<1> QED
  BY <1>2 DEF RegistryInv, LaunchInv, RowsKept, LinkHistory, registryVars, tables

\* A registry request runs in between.
LEMMA RegistryRuns ==
  ASSUME LaunchInv, RegistryNext, UNCHANGED launchVars
  PROVE  LaunchInv'
<1> USE DEF LaunchInv, launchVars
<1>1. RegistryInv
  BY DEF TypeOK, RegistryInv
<1>2. RegistryInv' /\ RowsKept /\ LinkHistory'
  BY <1>1, RegistryStep, RegistryKeepsRows, RegistryKeepsLinkHistory
<1>3. Evolves
  BY <1>2 DEF Evolves, TypeOK
<1>4. TypeOK' /\ NoOrphans'
  BY <1>2 DEF TypeOK, RegistryInv
<1>5. StoredLaunchesInv' /\ OffersInv'
  BY <1>2, StoreKept
<1>6. InitiationInv'
  BY <1>3, InitiationKept DEF InitiationInv
<1>7. LoginInv'
  BY <1>3, RequestKept, AnswerKept DEF LoginInv
<1> QED  BY <1>2, <1>4, <1>5, <1>6, <1>7

\* An authentication request takes a step of its own.
LEMMA LoginMoves ==
  ASSUME LaunchInv, NEW q \in Logins, NEW st \in LoginState,
         UNCHANGED <<registryVars, now, launches, offers, initiation>>,
         login' = [login EXCEPT ![q] = st],
         closedFor' \in [Logins -> BOOLEAN],
         \A r \in Logins \ {q} : closedFor'[r] = closedFor[r],
         RequestOK(q)', AnswerOK(q)'
  PROVE  LaunchInv'
<1> USE DEF LaunchInv
<1>1. RowsKept /\ RegistryTypeOK' /\ NoOrphans' /\ LinkHistory'
  BY RowsFrame
<1>2. Evolves
  BY <1>1 DEF Evolves, TypeOK
<1>3. TypeOK'
  BY <1>1 DEF TypeOK
<1>4. StoredLaunchesInv' /\ OffersInv'
  BY <1>1, StoreKept
<1>5. InitiationInv'
  BY <1>2, InitiationKept DEF InitiationInv
<1>6. \A r \in Logins \ {q} : login'[r] = login[r]
  BY DEF TypeOK
<1>7. LoginInv'
  BY <1>2, <1>6, RequestKept, AnswerKept DEF LoginInv
<1> QED  BY <1>1, <1>3, <1>4, <1>5, <1>7

\* An initiation takes a step of its own.
LEMMA InitiationMoves ==
  ASSUME LaunchInv, NEW i \in Initiations, NEW st \in InitiationState,
         UNCHANGED <<registryVars, now, login, closedFor>>,
         initiation' = [initiation EXCEPT ![i] = st],
         launches' \in [Launches -> LaunchData \cup {None}],
         offers' \in [Launches -> Offer \cup {None}],
         Evolves, StoredLaunchesInv', OffersInv', InitiationOK(i)'
  PROVE  LaunchInv'
<1> USE DEF LaunchInv
<1>1. RowsKept /\ RegistryTypeOK' /\ NoOrphans' /\ LinkHistory'
  BY RowsFrame
<1>2. TypeOK'
  BY <1>1 DEF TypeOK
<1>3. \A k \in Initiations \ {i} : initiation'[k] = initiation[k]
  BY DEF TypeOK
<1>4. InitiationInv'
  BY <1>3, InitiationKept DEF InitiationInv
<1>5. LoginInv'
  BY RequestKept, AnswerKept DEF LoginInv
<1> QED  BY <1>1, <1>2, <1>4, <1>5

-----------------------------------------------------------------------------
(***************************************************************************)
(* The steps of an authentication request                                  *)
(***************************************************************************)
LEMMA StartLoginStep ==
  ASSUME LaunchInv, NEW q \in Logins, NEW t \in Tools, NEW uri \in RedirectUris,
         NEW h \in Hints, NEW agree \in BOOLEAN, StartLogin(q, t, uri, h, agree)
  PROVE  LaunchInv'
<1> USE DEF LaunchInv
<1> DEFINE st == [IdleLogin EXCEPT !.pc = "tool", !.tool = t, !.uri = uri,
                                   !.hint = h, !.hintsAgree = agree]
<1>1. st \in LoginState
  BY DEF IdleLogin, LoginState, Steps
<1>2. login'[q] = st /\ closedFor'[q] = Closed(h)
  BY DEF StartLogin, TypeOK
<1>3. Closed(h) \in BOOLEAN
  BY DEF Closed, InRedis
<1>4. h \in Offered' \cup {UnknownHint} /\ Closed(h)' = Closed(h)
  BY DEF StartLogin, Offered, Closed, InRedis, registryVars, tables
<1>a. /\ st.pc = "tool" /\ st.tool = t /\ st.uri = uri /\ st.hint = h /\ st.answer = None
  BY DEF IdleLogin
<1>b. /\ login'[q].pc = "tool" /\ login'[q].tool = t /\ login'[q].uri = uri
      /\ login'[q].hint = h /\ login'[q].answer = None
  BY <1>2, <1>a
<1>5. RequestOK(q)'
  <2>1. ASSUME NEW x, x = h, closedFor'[q] PROVE Closed(x)'
    BY <1>2, <1>4, <2>1
  <2> HIDE DEF st
  <2> QED  BY <1>b, <1>4, <2>1 DEF RequestOK
<1>6. AnswerOK(q)'
  BY <1>b DEF AnswerOK, Got
<1>7. /\ closedFor' \in [Logins -> BOOLEAN]
      /\ \A r \in Logins \ {q} : closedFor'[r] = closedFor[r]
  BY <1>3 DEF StartLogin, TypeOK
<1> QED
  BY <1>1, <1>5, <1>6, <1>7, LoginMoves DEF StartLogin

LEMMA AnswerTyped ==
  /\ \A error \in Pages : [kind |-> "page", error |-> error] \in Answer
  /\ \A error \in Redirections, uri \in RedirectUris :
        [kind |-> "redirect", error |-> error, uri |-> uri] \in Answer
  /\ \A m \in Offer : [kind |-> "message", message |-> m] \in Answer
BY DEF Answer

LEMMA AnsweredTyped ==
  ASSUME NEW q, login[q] \in LoginState, NEW a \in Answer
  PROVE  Answered(q, a) \in LoginState
BY DEF Answered, LoginState

\* What is left to show of a handler's last step.
LEMMA LoginEnds ==
  ASSUME LaunchInv, LoginFrame, NEW q \in Logins, NEW a \in Answer,
         login[q].pc # "idle",
         login' = [login EXCEPT ![q] = Answered(q, a)],
         AnswerOK(q)'
  PROVE  LaunchInv'
<1> USE DEF LaunchInv, LoginFrame
<1>1. Answered(q, a) \in LoginState
  BY AnsweredTyped DEF TypeOK
<1>2. login'[q] = Answered(q, a)
  BY DEF TypeOK
<1>3. RequestOK(q)
  BY DEF LoginInv
<1>4. RequestOK(q)'
  BY <1>2, <1>3, login[q] \in LoginState
  DEF RequestOK, Answered, TypeOK, LoginState, Offered, Closed, InRedis, registryVars, tables
<1> QED
  BY <1>1, <1>4, LoginMoves DEF TypeOK

LEMMA LoginIsRefused ==
  ASSUME LaunchInv, LoginFrame, NEW q \in Logins, login[q].pc \in Steps,
         \/ \E error \in Pages : Page(q, error)
         \/ /\ login[q].pc \in {"launch", "link", "message"}
            /\ \E error \in Redirections : Redirect(q, error)
  PROVE  LaunchInv'
<1>1. /\ login[q] \in LoginState /\ login[q].pc # "idle" /\ RequestOK(q)
      /\ login[q].uri \in RedirectUris /\ login \in [Logins -> LoginState]
  BY DEF LaunchInv, LoginInv, TypeOK, Steps, RequestOK
<1>2. CASE \E error \in Pages : Page(q, error)
  <2> PICK error \in Pages : Page(q, error)
    BY <1>2
  <2> DEFINE a == [kind |-> "page", error |-> error]
  <2>1. a \in Answer
    BY AnswerTyped
  <2>2. login' = [login EXCEPT ![q] = Answered(q, a)]
    BY DEF Page, Reply
  <2>3. AnswerOK(q)'
    BY <1>1, <2>2 DEF AnswerOK, Got, Answered, LoginState
  <2> QED  BY <1>1, <2>1, <2>2, <2>3, LoginEnds
<1>3. CASE /\ login[q].pc \in {"launch", "link", "message"}
           /\ \E error \in Redirections : Redirect(q, error)
  <2> PICK error \in Redirections : Redirect(q, error)
    BY <1>3
  <2> DEFINE a == [kind |-> "redirect", error |-> error, uri |-> login[q].uri]
  <2>1. a \in Answer
    BY <1>1, AnswerTyped
  <2>2. login' = [login EXCEPT ![q] = Answered(q, a)]
    BY DEF Redirect, Redirection, Reply
  <2>3. login[q].snapshot # None /\ login[q].uri \in login[q].snapshot.redirects
    BY <1>1, <1>3, LaunchAssumption DEF RequestOK
  <2>4. AnswerOK(q)'
    BY <1>1, <2>2, <2>3 DEF AnswerOK, Got, Answered, LoginState
  <2> QED  BY <1>1, <2>1, <2>2, <2>4, LoginEnds
<1> QED  BY <1>2, <1>3

\* A handler that goes on.
LEMMA LoginGoesOn ==
  ASSUME LaunchInv, LoginFrame, NEW q \in Logins, NEW st \in LoginState,
         login' = [login EXCEPT ![q] = st], st.answer = None, RequestOK(q)'
  PROVE  LaunchInv'
<1>1. login'[q] = st
  BY DEF LaunchInv, TypeOK
<1>2. AnswerOK(q)'
  BY <1>1 DEF AnswerOK, Got
<1> QED
  BY <1>2, LoginMoves DEF LaunchInv, TypeOK, LoginFrame

\* The rows that a request's invariant speaks of do not change.
LEMMA LoginFrameKeeps ==
  ASSUME LoginFrame
  PROVE  /\ Offered' = Offered
         /\ \A h : Closed(h)' = Closed(h)
         /\ \A l : ReadLink(l)' = ReadLink(l)
         /\ deploymentTool' = deploymentTool /\ liveLinks' = liveLinks
         /\ launches' = launches /\ offers' = offers /\ closedFor' = closedFor
BY DEF LoginFrame, Offered, Closed, InRedis, ReadLink, registryVars, tables

LEMMA LoginFindsToolStep ==
  ASSUME LaunchInv, NEW q \in Logins, LoginFindsTool(q)
  PROVE  LaunchInv'
<1> DEFINE t == login[q].tool
<1>0. LoginFrame /\ login[q].pc = "tool"
  BY DEF LoginFindsTool
<1>1. /\ RequestOK(q) /\ AnswerOK(q) /\ login[q] \in LoginState /\ login \in [Logins -> LoginState]
      /\ login[q].answer = None
      /\ t \in Tools /\ login[q].uri \in RedirectUris /\ RegistryTypeOK /\ NoOrphans
      /\ closedFor[q] => Closed(login[q].hint)
      /\ login[q].hint \in Offered \cup {UnknownHint}
  BY <1>0 DEF LaunchInv, LoginInv, TypeOK, RequestOK, AnswerOK
<1>2. CASE \E error \in Pages : Page(q, error)
  BY <1>0, <1>2, LoginIsRefused DEF Steps
<1>3. ASSUME t \in liveTools
      PROVE  /\ ReadTool(t) \in ToolSnapshot
             /\ ReadTool(t).redirects = toolRow[t].redirects
             /\ \A d \in ReadTool(t).deployments : deploymentTool[d] = t
  <2>1. toolRow[t] \in Config
    BY <1>1, <1>3 DEF RegistryTypeOK, NoOrphans
  <2>2. DeploymentsOf(t) \subseteq Deployments /\ \A d \in DeploymentsOf(t) : deploymentTool[d] = t
    BY <1>1 DEF RegistryTypeOK, DeploymentsOf
  <2> QED  BY <2>1, <2>2 DEF ReadTool, ToolSnapshot, Config
<1>4. CASE /\ t \in liveTools /\ login[q].uri \in ReadTool(t).redirects
           /\ login' = [login EXCEPT ![q] = [Answered(q, Redirection(q, "malformed_launch"))
                                               EXCEPT !.snapshot = ReadTool(t)]]
  <2> DEFINE a == Redirection(q, "malformed_launch")
             st == [Answered(q, a) EXCEPT !.snapshot = ReadTool(t)]
  <2>1. a \in Answer /\ a.kind = "redirect"
    BY <1>1, AnswerTyped DEF Redirection, Redirections
  <2>2. Answered(q, a) \in LoginState
    BY <1>1, <2>1, AnsweredTyped
  <2>3. st \in LoginState
    BY <1>3, <1>4, <2>2 DEF LoginState
  <2>4. /\ st.pc = "answered" /\ st.tool = t /\ st.uri = login[q].uri /\ st.hint = login[q].hint
        /\ st.answer = a /\ st.snapshot = ReadTool(t)
    BY <1>1, <2>2 DEF Answered, LoginState
  <2>5. login'[q] = st
    BY <1>1, <1>4
  <2> HIDE DEF st, a
  <2>6. RequestOK(q)'
    BY <1>0, <1>1, <2>4, <2>5, LoginFrameKeeps DEF RequestOK
  <2>7. ReadTool(t) # None
    BY <1>3, <1>4, LaunchAssumption
  <2>8. AnswerOK(q)'
    BY <1>4, <2>1, <2>4, <2>5, <2>7 DEF AnswerOK, Got
  <2>9. login' = [login EXCEPT ![q] = st]
    BY <1>4 DEF st, a
  <2> QED  BY <1>0, <2>3, <2>6, <2>8, <2>9, LoginMoves DEF LaunchInv, TypeOK, LoginFrame
<1>5. CASE /\ t \in liveTools /\ login[q].uri \in ReadTool(t).redirects
           /\ login' = [login EXCEPT ![q].pc = "launch", ![q].snapshot = ReadTool(t)]
  <2> DEFINE st == [login[q] EXCEPT !.pc = "launch", !.snapshot = ReadTool(t)]
  <2>1. st \in LoginState
    BY <1>1, <1>3, <1>5, ZenonT(40) DEF LoginState, Steps
  <2>2. /\ st.pc = "launch" /\ st.tool = t /\ st.uri = login[q].uri /\ st.hint = login[q].hint
        /\ st.answer = None /\ st.snapshot = ReadTool(t)
    BY <1>1 DEF LoginState
  <2>3. login' = [login EXCEPT ![q] = st] /\ login'[q] = st
    BY <1>1, <1>5
  <2> HIDE DEF st
  <2>4. RequestOK(q)'
    BY <1>0, <1>1, <1>3, <1>5, <2>2, <2>3, LoginFrameKeeps DEF RequestOK
  <2> QED  BY <1>0, <2>1, <2>2, <2>3, <2>4, LoginGoesOn
<1> QED
  BY <1>2, <1>4, <1>5 DEF LoginFindsTool, Pages

LEMMA NextReadTyped ==
  ASSUME NEW st \in LoginState, NEW pc \in Steps
  PROVE  /\ \A data \in LaunchData : [st EXCEPT !.pc = pc, !.launch = data] \in LoginState
         /\ \A row \in LinkSnapshot : [st EXCEPT !.pc = pc, !.link = row] \in LoginState
BY ZenonT(40) DEF LoginState

LEMMA LoginFindsLaunchStep ==
  ASSUME LaunchInv, NEW q \in Logins, LoginFindsLaunch(q)
  PROVE  LaunchInv'
<1> DEFINE h == login[q].hint
<1>0. LoginFrame /\ login[q].pc = "launch"
  BY DEF LoginFindsLaunch
<1>1. /\ RequestOK(q) /\ AnswerOK(q) /\ login[q] \in LoginState /\ login \in [Logins -> LoginState]
      /\ login[q].answer = None /\ launches \in [Launches -> LaunchData \cup {None}]
  BY <1>0 DEF LaunchInv, LoginInv, TypeOK, AnswerOK
<1>2. CASE \E error \in Redirections : Redirect(q, error)
  BY <1>0, <1>2, LoginIsRefused DEF Steps
<1>3. CASE InRedis(h) /\ login' = [login EXCEPT ![q].pc = "link", ![q].launch = launches[h]]
  <2> DEFINE st == [login[q] EXCEPT !.pc = "link", !.launch = launches[h]]
  <2>1. h \in Launches /\ launches[h] \in LaunchData
    BY <1>1, <1>3 DEF InRedis
  <2>2. st \in LoginState
    BY <1>1, <2>1, NextReadTyped DEF Steps
  <2>3. /\ st.pc = "link" /\ st.tool = login[q].tool /\ st.uri = login[q].uri /\ st.hint = h
        /\ st.answer = None /\ st.snapshot = login[q].snapshot /\ st.launch = launches[h]
    BY <1>1 DEF LoginState
  <2>4. login' = [login EXCEPT ![q] = st] /\ login'[q] = st
    BY <1>1, <1>3
  <2>5. h \in Offered
    BY <1>0, <1>1, <2>1, LaunchAssumption DEF RequestOK
  <2>6. closedFor[q] => launches[h].link \notin liveLinks
    BY <1>0, <1>1, <1>3 DEF RequestOK, Closed
  <2> HIDE DEF st
  <2>7. RequestOK(q)'
    BY <1>0, <1>1, <2>3, <2>4, <2>5, <2>6, LoginFrameKeeps DEF RequestOK
  <2> QED  BY <1>0, <2>2, <2>3, <2>4, <2>7, LoginGoesOn
<1> QED
  BY <1>2, <1>3 DEF LoginFindsLaunch, Redirections

LEMMA LoginFindsLinkStep ==
  ASSUME LaunchInv, NEW q \in Logins, LoginFindsLink(q)
  PROVE  LaunchInv'
<1> DEFINE l == login[q].launch.link
<1>0. LoginFrame /\ login[q].pc = "link"
  BY DEF LoginFindsLink
<1>1. /\ RequestOK(q) /\ AnswerOK(q) /\ login[q] \in LoginState /\ login \in [Logins -> LoginState]
      /\ login[q].answer = None /\ RegistryTypeOK /\ LinkHistory
      /\ launches \in [Launches -> LaunchData \cup {None}]
  BY <1>0 DEF LaunchInv, LoginInv, TypeOK, AnswerOK
<1>2. CASE \E error \in Redirections : Redirect(q, error)
  BY <1>0, <1>2, LoginIsRefused DEF Steps
<1>3. CASE l \in liveLinks /\ login' = [login EXCEPT ![q].pc = "message", ![q].link = ReadLink(l)]
  <2> DEFINE st == [login[q] EXCEPT !.pc = "message", !.link = ReadLink(l)]
  <2>1. l \in Links /\ linkRow[l] # None
    BY <1>1, <1>3 DEF RegistryTypeOK, LaunchInv, NoOrphans
  <2>2. ReadLink(l) \in LinkSnapshot
    BY <2>1, LinkReadTyped
  <2>3. st \in LoginState
    BY <1>1, <2>2, NextReadTyped DEF Steps
  <2>4. /\ st.pc = "message" /\ st.tool = login[q].tool /\ st.uri = login[q].uri
        /\ st.hint = login[q].hint /\ st.answer = None /\ st.snapshot = login[q].snapshot
        /\ st.launch = login[q].launch /\ st.link = ReadLink(l)
    BY <1>1 DEF LoginState
  <2>5. login' = [login EXCEPT ![q] = st] /\ login'[q] = st
    BY <1>1, <1>3
  <2>6. ~closedFor[q]
    BY <1>0, <1>1, <1>3 DEF RequestOK
  <2> HIDE DEF st
  <2>7. RequestOK(q)'
    BY <1>0, <1>1, <2>4, <2>5, <2>6, LoginFrameKeeps DEF RequestOK
  <2> QED  BY <1>0, <2>3, <2>4, <2>5, <2>7, LoginGoesOn
<1> QED
  BY <1>2, <1>3 DEF LoginFindsLink, Redirections

\* The message agrees with the offer: the deployment of the link is one of the tool that
\* asks, so that tool is the one the link's deployment was made for.
LEMMA LoginSendsMessageStep ==
  ASSUME LaunchInv, NEW q \in Logins, LoginSendsMessage(q)
  PROVE  LaunchInv'
<1> DEFINE h == login[q].hint
           data == launches[h]
<1>0. LoginFrame /\ login[q].pc = "message"
  BY DEF LoginSendsMessage
<1>1. /\ RequestOK(q) /\ login[q] \in LoginState /\ login \in [Logins -> LoginState]
      /\ h \in Launches /\ h \in Offered /\ offers[h] # None
  BY <1>0 DEF LaunchInv, LoginInv, TypeOK, RequestOK, Offered
<1>2. CASE \E error \in Pages : Page(q, error)
  BY <1>0, <1>2, LoginIsRefused DEF Steps
<1>3. CASE \E error \in Redirections : Redirect(q, error)
  BY <1>0, <1>3, LoginIsRefused DEF Steps
<1>4. CASE /\ DeploymentOfTool(q)
           /\ Reply(q, [kind |-> "message", message |-> LaunchMessage(q)])
  <2> DEFINE a == [kind |-> "message", message |-> LaunchMessage(q)]
  <2>1. data # None /\ offers[h] = OfferOf(data) /\ offers[h] \in Offer
    BY <1>1 DEF LaunchInv, TypeOK, OffersInv
  <2>2. login[q].launch = data /\ login[q].link = ReadLink(data.link) /\ ~closedFor[q]
    BY <1>0, <1>1 DEF RequestOK
  <2>3. ReadLink(data.link).tool = login[q].tool
    <3>1. login[q].link.deployment = linkRow[data.link].deployment
      BY <2>2 DEF ReadLink
    <3>2. deploymentTool[login[q].link.deployment] = login[q].tool
      BY <1>0, <1>1, <1>4 DEF RequestOK, DeploymentOfTool
    <3> QED  BY <3>1, <3>2 DEF ReadLink
  <2>4. LaunchMessage(q) = offers[h] /\ login[q].tool = offers[h].tool
    BY <2>1, <2>2, <2>3 DEF LaunchMessage, OfferOf
  <2>5. a \in Answer /\ a.kind = "message" /\ a.message = offers[h]
    BY <2>1, <2>4, AnswerTyped
  <2>6. login' = [login EXCEPT ![q] = Answered(q, a)] /\ login'[q] = Answered(q, a)
    BY <1>1, <1>4 DEF Reply
  <2>7. /\ Answered(q, a).hint = h /\ Answered(q, a).tool = login[q].tool
        /\ Answered(q, a).answer = a /\ Answered(q, a).pc = "answered"
        /\ Answered(q, a).snapshot = login[q].snapshot /\ Answered(q, a).uri = login[q].uri
    BY <1>1 DEF Answered, LoginState
  <2>8. login[q].snapshot # None /\ login[q].uri \in login[q].snapshot.redirects
    BY <1>0, <1>1, LaunchAssumption DEF RequestOK
  <2> HIDE DEF a
  <2>9. AnswerOK(q)'
    BY <1>0, <1>1, <2>2, <2>4, <2>5, <2>6, <2>7, <2>8, LoginFrameKeeps DEF AnswerOK, Got
  <2> QED  BY <1>0, <2>5, <2>6, <2>9, LoginEnds
<1> QED
  BY <1>2, <1>3, <1>4 DEF LoginSendsMessage, Pages, Redirections

-----------------------------------------------------------------------------
(***************************************************************************)
(* The steps of an initiation                                              *)
(***************************************************************************)

\* What a step of an initiation that stores nothing leaves alone.
InitiationFrame == UNCHANGED <<registryVars, now, launches, offers, login, closedFor>>

LEMMA InitiationReads ==
  ASSUME LaunchInv, InitiationFrame, NEW i \in Initiations, NEW st \in InitiationState,
         initiation' = [initiation EXCEPT ![i] = st],
         st.pc # "idle" => st.user \in Users /\ st.link \in Links,
         st.pc \in {"tool", "save", "respond"} =>
           linkRow[st.link] # None /\ st.row = ReadLink(st.link),
         st.pc \in {"save", "respond"} => st.target \in Urls,
         st.pc # "respond"
  PROVE  LaunchInv'
<1> USE DEF LaunchInv, InitiationFrame
<1>1. RowsKept
  BY RowsFrame
<1>2. Evolves
  BY <1>1 DEF Evolves, TypeOK
<1>3. StoredLaunchesInv' /\ OffersInv'
  BY <1>1, StoreKept
<1>4. initiation'[i] = st
  BY DEF TypeOK
<1>5. \A l : linkRow' = linkRow /\ ReadLink(l)' = ReadLink(l)
  BY DEF ReadLink, registryVars, tables
<1>6. InitiationOK(i)'
  BY <1>4, <1>5 DEF InitiationOK
<1>7. launches' \in [Launches -> LaunchData \cup {None}] /\ offers' \in [Launches -> Offer \cup {None}]
  BY DEF TypeOK
<1> QED
  BY <1>2, <1>3, <1>6, <1>7, InitiationMoves

LEMMA IdleInitiationTyped == IdleInitiation \in InitiationState /\ IdleInitiation.pc = "idle"
BY DEF IdleInitiation, InitiationState

LEMMA InitiationGivesUp ==
  ASSUME LaunchInv, InitiationFrame, NEW i \in Initiations, GiveUp(i)
  PROVE  LaunchInv'
BY IdleInitiationTyped, InitiationReads DEF GiveUp

LEMMA StartInitiationStep ==
  ASSUME LaunchInv, NEW i \in Initiations, NEW u \in Users, NEW l \in Links,
         StartInitiation(i, u, l)
  PROVE  LaunchInv'
<1> DEFINE st == [IdleInitiation EXCEPT !.pc = "link", !.user = u, !.link = l]
<1>1. st \in InitiationState /\ st.pc = "link" /\ st.user = u /\ st.link = l
  BY DEF IdleInitiation, InitiationState
<1>2. InitiationFrame /\ initiation' = [initiation EXCEPT ![i] = st]
  BY DEF StartInitiation, InitiationFrame
<1> HIDE DEF st
<1> QED  BY <1>1, <1>2, InitiationReads

LEMMA InitiationFindsLinkStep ==
  ASSUME LaunchInv, NEW i \in Initiations, InitiationFindsLink(i)
  PROVE  LaunchInv'
<1> DEFINE l == initiation[i].link
           st == [initiation[i] EXCEPT !.pc = "tool", !.row = ReadLink(l)]
<1>0. InitiationFrame /\ initiation[i].pc = "link"
  BY DEF InitiationFindsLink, InitiationFrame
<1>1. CASE GiveUp(i)
  BY <1>0, <1>1, InitiationGivesUp
<1>2. CASE l \in liveLinks /\ initiation' = [initiation EXCEPT ![i].pc = "tool", ![i].row = ReadLink(l)]
  <2>1. /\ initiation[i] \in InitiationState /\ initiation \in [Initiations -> InitiationState]
        /\ initiation[i].user \in Users /\ l \in Links
    BY <1>0 DEF LaunchInv, TypeOK, InitiationInv, InitiationOK
  <2>2. linkRow[l] # None
    BY <1>2 DEF LaunchInv, NoOrphans
  <2>3. ReadLink(l) \in LinkSnapshot
    BY <2>1, <2>2, LinkReadTyped
  <2>4. /\ st \in InitiationState /\ st.pc = "tool" /\ st.user = initiation[i].user
        /\ st.link = l /\ st.row = ReadLink(l)
    BY <2>1, <2>3 DEF InitiationState
  <2>5. initiation' = [initiation EXCEPT ![i] = st]
    BY <1>2, <2>1
  <2> HIDE DEF st
  <2> QED  BY <1>0, <2>1, <2>2, <2>4, <2>5, InitiationReads
<1> QED  BY <1>1, <1>2 DEF InitiationFindsLink

LEMMA InitiationFindsToolStep ==
  ASSUME LaunchInv, NEW i \in Initiations, InitiationFindsTool(i)
  PROVE  LaunchInv'
<1> DEFINE row == initiation[i].row
           target == ResolveTarget(row, toolRow[row.tool])
           st == [initiation[i] EXCEPT !.pc = "save", !.target = target]
<1>0. InitiationFrame /\ initiation[i].pc = "tool"
  BY DEF InitiationFindsTool, InitiationFrame
<1>1. CASE GiveUp(i)
  BY <1>0, <1>1, InitiationGivesUp
<1>2. CASE row.tool \in liveTools /\ initiation' = [initiation EXCEPT ![i].pc = "save", ![i].target = target]
  <2>1. /\ initiation[i] \in InitiationState /\ initiation \in [Initiations -> InitiationState]
        /\ initiation[i].user \in Users /\ initiation[i].link \in Links
        /\ linkRow[initiation[i].link] # None /\ row = ReadLink(initiation[i].link)
    BY <1>0 DEF LaunchInv, TypeOK, InitiationInv, InitiationOK
  <2>2. row \in LinkSnapshot
    BY <2>1, LinkReadTyped
  <2>3. row.url \in Urls \cup {None}
    BY <2>2 DEF LinkSnapshot
  <2>4. row.tool \in Tools /\ toolRow[row.tool] \in Config
    BY <1>2 DEF LaunchInv, NoOrphans, TypeOK, RegistryTypeOK
  <2>5. toolRow[row.tool].messageTarget \in Urls \cup {None} /\ toolRow[row.tool].target \in Urls
    BY <2>4 DEF Config
  <2>6. target \in Urls
    BY <2>3, <2>5 DEF ResolveTarget
  <2>7. initiation' = [initiation EXCEPT ![i] = st]
    BY <1>2, <2>1
  <2> HIDE DEF row, target
  <2>8. /\ st \in InitiationState /\ st.pc = "save" /\ st.user = initiation[i].user
        /\ st.link = initiation[i].link /\ st.row = initiation[i].row /\ st.target = target
    BY <2>1, <2>6 DEF InitiationState
  <2> HIDE DEF st
  <2> QED  BY <1>0, <2>1, <2>6, <2>7, <2>8, InitiationReads DEF row
<1> QED  BY <1>1, <1>2 DEF InitiationFindsTool

LEMMA SaveLaunchStep ==
  ASSUME LaunchInv, NEW i \in Initiations, NEW h \in Launches, SaveLaunch(i, h)
  PROVE  LaunchInv'
<1> DEFINE data == [user |-> initiation[i].user, link |-> initiation[i].link,
                    target |-> initiation[i].target, expiresAt |-> now + LaunchTtl]
<1>0. /\ initiation[i] \in InitiationState /\ initiation \in [Initiations -> InitiationState]
      /\ InitiationOK(i) /\ initiation[i].pc = "save" /\ now \in Nat
      /\ launches \in [Launches -> LaunchData \cup {None}] /\ launches[h] = None
      /\ UNCHANGED <<registryVars, now, offers, login, closedFor>>
      /\ launches' = [launches EXCEPT ![h] = data]
  BY DEF SaveLaunch, LaunchInv, TypeOK, InitiationInv
<1>1. /\ initiation[i].user \in Users /\ initiation[i].link \in Links
      /\ initiation[i].target \in Urls /\ linkRow[initiation[i].link] # None
      /\ initiation[i].row = ReadLink(initiation[i].link)
  BY <1>0 DEF InitiationOK
<1>2. /\ data \in LaunchData /\ data.user = initiation[i].user /\ data.link = initiation[i].link
      /\ data.target = initiation[i].target
  BY <1>0, <1>1, LaunchAssumption DEF LaunchData
<1>3. data # None
  BY <1>2, LaunchAssumption
<1> HIDE DEF data
<1>4. /\ launches'[h] = data /\ launches' \in [Launches -> LaunchData \cup {None}]
      /\ \A k \in Launches \ {h} : launches'[k] = launches[k]
  BY <1>0, <1>2
<1>5. RowsKept /\ \A l : ReadLink(l)' = ReadLink(l) /\ linkRow' = linkRow
  BY <1>0, RowsFrame DEF ReadLink, registryVars, tables
<1>6. Evolves
  BY <1>0, <1>4, <1>5 DEF Evolves
<1>7. StoredLaunchesInv'
  BY <1>1, <1>2, <1>4, <1>5 DEF LaunchInv, StoredLaunchesInv
<1>8. offers[h] = None
  BY <1>0 DEF LaunchInv, OffersInv
<1>9. OffersInv'
  <2> SUFFICES ASSUME NEW k \in Launches, offers'[k] # None
               PROVE  launches'[k] # None /\ offers'[k] = OfferOf(launches[k])'
    BY DEF OffersInv
  <2>1. k # h /\ offers[k] # None /\ offers'[k] = offers[k]
    BY <1>0, <1>8
  <2>2. launches[k] # None /\ offers[k] = OfferOf(launches[k]) /\ launches'[k] = launches[k]
    BY <1>4, <2>1 DEF LaunchInv, OffersInv
  <2> QED  BY <1>5, <2>1, <2>2 DEF OfferOf, ReadLink
<1>10. offers' \in [Launches -> Offer \cup {None}]
  BY <1>0 DEF LaunchInv, TypeOK
<1>11. CASE GiveUp(i)
  <2>1. initiation' = [initiation EXCEPT ![i] = IdleInitiation] /\ initiation'[i] = IdleInitiation
    BY <1>0, <1>11 DEF GiveUp
  <2>2. InitiationOK(i)'
    BY <2>1, IdleInitiationTyped DEF InitiationOK
  <2> QED
    BY <1>0, <1>4, <1>6, <1>7, <1>9, <1>10, <2>1, <2>2, IdleInitiationTyped, InitiationMoves
<1>12. CASE initiation' = [initiation EXCEPT ![i].pc = "respond", ![i].launch = h]
  <2> DEFINE st == [initiation[i] EXCEPT !.pc = "respond", !.launch = h]
  <2>1. initiation' = [initiation EXCEPT ![i] = st] /\ initiation'[i] = st
    BY <1>0, <1>12
  <2>2. /\ st \in InitiationState /\ st.pc = "respond" /\ st.user = initiation[i].user
        /\ st.link = initiation[i].link /\ st.row = initiation[i].row
        /\ st.target = initiation[i].target /\ st.launch = h
    BY <1>0 DEF InitiationState
  <2> HIDE DEF st
  <2>3. InitiationOK(i)'
    BY <1>1, <1>2, <1>3, <1>4, <1>5, <2>1, <2>2 DEF InitiationOK, ReadLink
  <2> QED
    BY <1>0, <1>4, <1>6, <1>7, <1>9, <1>10, <2>1, <2>2, <2>3, InitiationMoves
<1> QED  BY <1>11, <1>12 DEF SaveLaunch

LEMMA RespondInitiationStep ==
  ASSUME LaunchInv, NEW i \in Initiations, RespondInitiation(i)
  PROVE  LaunchInv'
<1> DEFINE st == initiation[i]
           h == st.launch
           offer == [tool |-> st.row.tool, deployment |-> st.row.deployment,
                     link |-> st.link, target |-> st.target, user |-> st.user]
<1>0. /\ st \in InitiationState /\ initiation \in [Initiations -> InitiationState]
      /\ InitiationOK(i) /\ st.pc = "respond"
      /\ offers \in [Launches -> Offer \cup {None}]
      /\ launches \in [Launches -> LaunchData \cup {None}]
      /\ UNCHANGED <<registryVars, now, launches, login, closedFor>>
      /\ offers' = [offers EXCEPT ![h] = offer] /\ GiveUp(i)
  BY DEF RespondInitiation, LaunchInv, TypeOK, InitiationInv
<1>1. /\ h \in Launches /\ launches[h] # None
      /\ launches[h].user = st.user /\ launches[h].link = st.link
      /\ launches[h].target = st.target
      /\ st.user \in Users /\ st.link \in Links /\ st.target \in Urls
      /\ linkRow[st.link] # None /\ st.row = ReadLink(st.link)
  BY <1>0 DEF InitiationOK
<1>2. st.row \in LinkSnapshot
  BY <1>1, LinkReadTyped
<1>3. offer \in Offer /\ offer = OfferOf(launches[h])
  BY <1>1, <1>2 DEF Offer, LinkSnapshot, OfferOf
<1> HIDE DEF offer
<1>4. /\ offers'[h] = offer /\ offers' \in [Launches -> Offer \cup {None}]
      /\ \A k \in Launches \ {h} : offers'[k] = offers[k]
  BY <1>0, <1>1, <1>3
<1>5. RowsKept /\ \A l : ReadLink(l)' = ReadLink(l)
  BY <1>0, RowsFrame DEF ReadLink, registryVars, tables
<1>6. \A k \in Launches : OfferOf(launches[k])' = OfferOf(launches[k])
  BY <1>0, <1>5 DEF OfferOf, ReadLink
<1>7. offers[h] # None => offers[h] = offer
  BY <1>1, <1>3 DEF LaunchInv, OffersInv
<1>8. OffersInv'
  BY <1>0, <1>1, <1>3, <1>4, <1>6 DEF LaunchInv, OffersInv
<1>9. StoredLaunchesInv'
  BY <1>0 DEF LaunchInv, StoredLaunchesInv, registryVars, tables
<1>10. Evolves
  BY <1>0, <1>4, <1>5, <1>7 DEF Evolves, LaunchInv, TypeOK
<1>11. initiation' = [initiation EXCEPT ![i] = IdleInitiation] /\ initiation'[i] = IdleInitiation
  BY <1>0 DEF GiveUp
<1>12. InitiationOK(i)'
  BY <1>11, IdleInitiationTyped DEF InitiationOK
<1> QED
  BY <1>0, <1>4, <1>8, <1>9, <1>10, <1>11, <1>12, IdleInitiationTyped, InitiationMoves

-----------------------------------------------------------------------------
(***************************************************************************)
(* The invariant                                                           *)
(***************************************************************************)
LEMMA TickStep ==
  ASSUME LaunchInv, Tick
  PROVE  LaunchInv'
<1> USE DEF LaunchInv, Tick
<1>1. RowsKept /\ RegistryTypeOK' /\ NoOrphans' /\ LinkHistory'
  BY RowsFrame
<1>2. Evolves
  BY <1>1 DEF Evolves, TypeOK
<1>3. TypeOK'
  BY <1>1 DEF TypeOK
<1>4. StoredLaunchesInv' /\ OffersInv'
  BY <1>1, StoreKept
<1>5. InitiationInv'
  BY <1>2, InitiationKept DEF InitiationInv
<1>6. LoginInv'
  BY <1>2, RequestKept, AnswerKept DEF LoginInv
<1> QED  BY <1>1, <1>3, <1>4, <1>5, <1>6

LEMMA LaunchInitInv == Init => LaunchInv
<1> SUFFICES ASSUME Init PROVE LaunchInv
  OBVIOUS
<1>1. RegistryTypeOK /\ NoOrphans
  BY RegistryInitInv DEF Init, RegistryInv
<1>2. IdleLogin \in LoginState
  BY DEF IdleLogin, LoginState
<1>3. TypeOK
  BY <1>1, <1>2, IdleInitiationTyped DEF Init, TypeOK
<1>4. LinkHistory /\ StoredLaunchesInv /\ OffersInv
  BY DEF Init, RegistryInit, LinkHistory, StoredLaunchesInv, OffersInv
<1>5. InitiationInv
  BY IdleInitiationTyped DEF Init, InitiationInv, InitiationOK
<1>6. LoginInv
  BY DEF Init, LoginInv, RequestOK, AnswerOK, Got, IdleLogin
<1> QED  BY <1>1, <1>3, <1>4, <1>5, <1>6 DEF LaunchInv

LEMMA LaunchStutter == LaunchInv /\ UNCHANGED vars => LaunchInv'
<1> SUFFICES ASSUME LaunchInv, UNCHANGED vars PROVE LaunchInv'
  OBVIOUS
<1> USE DEF LaunchInv, vars, launchVars
<1>1. RowsKept /\ RegistryTypeOK' /\ NoOrphans' /\ LinkHistory'
  BY RowsFrame
<1>2. Evolves
  BY <1>1 DEF Evolves, TypeOK
<1>3. TypeOK'
  BY <1>1 DEF TypeOK
<1>4. StoredLaunchesInv' /\ OffersInv'
  BY <1>1, StoreKept
<1>5. InitiationInv'
  BY <1>2, InitiationKept DEF InitiationInv
<1>6. LoginInv'
  BY <1>2, RequestKept, AnswerKept DEF LoginInv
<1> QED  BY <1>1, <1>3, <1>4, <1>5, <1>6

LEMMA LaunchStep == LaunchInv /\ [Next]_vars => LaunchInv'
<1> SUFFICES ASSUME LaunchInv, [Next]_vars PROVE LaunchInv'
  OBVIOUS
<1>1. CASE RegistryNext /\ UNCHANGED launchVars
  BY <1>1, RegistryRuns
<1>2. CASE \E i \in Initiations, u \in Users, l \in Links : StartInitiation(i, u, l)
  BY <1>2, StartInitiationStep
<1>3. CASE \E i \in Initiations : InitiationStep(i)
  <2> PICK i \in Initiations : InitiationStep(i)
    BY <1>3
  <2>1. CASE SaveLaunchFails(i)
    BY <2>1, InitiationGivesUp DEF SaveLaunchFails, InitiationFrame
  <2> QED
    BY <2>1, InitiationFindsLinkStep, InitiationFindsToolStep, SaveLaunchStep,
       RespondInitiationStep DEF InitiationStep
<1>4. CASE \E q \in Logins, t \in Tools, uri \in RedirectUris, h \in Hints, agree \in BOOLEAN :
              StartLogin(q, t, uri, h, agree)
  BY <1>4, StartLoginStep
<1>5. CASE \E q \in Logins : LoginStep(q)
  BY <1>5, LoginFindsToolStep, LoginFindsLaunchStep, LoginFindsLinkStep, LoginSendsMessageStep
  DEF LoginStep
<1>6. CASE Tick
  BY <1>6, TickStep
<1>7. CASE UNCHANGED vars
  BY <1>7, LaunchStutter
<1> QED
  BY <1>1, <1>2, <1>3, <1>4, <1>5, <1>6, <1>7 DEF Next

LEMMA LaunchInvariant == Spec => []LaunchInv
BY LaunchInitInv, LaunchStep, PTL DEF Spec

\* Every variable keeps its type, for any constants.
THEOREM LaunchIsTyped == Spec => []TypeOK
<1>1. LaunchInv => TypeOK
  BY DEF LaunchInv
<1> QED  BY <1>1, LaunchInvariant, PTL

\* The handlers of the launch flow, which only read the registry, leave it without orphans.
THEOREM LaunchHasNoOrphans == Spec => []NoOrphans
<1>1. LaunchInv => NoOrphans
  BY DEF LaunchInv
<1> QED  BY <1>1, LaunchInvariant, PTL

\* A launch message is the offer that the platform made when the launch was initiated, and
\* only the tool of the offer gets it, however many handlers, tools and links there are.
THEOREM MessagesAreOffers == Spec => []DeliveredAsOffered
<1>1. LaunchInv => DeliveredAsOffered
  BY DEF LaunchInv, LoginInv, AnswerOK, DeliveredAsOffered
<1> QED  BY <1>1, LaunchInvariant, PTL

\* A launch that has expired, or whose link is deleted, when the request arrives is never
\* delivered: nothing that runs between the handler's awaits brings it back.
THEOREM ClosedLaunchesStayClosed == Spec => []NeverDeliveredWhenClosed
<1>1. LaunchInv => NeverDeliveredWhenClosed
  BY DEF LaunchInv, LoginInv, AnswerOK, NeverDeliveredWhenClosed
<1> QED  BY <1>1, LaunchInvariant, PTL

\* The browser is only sent to a redirect URI that the tool had registered when the handler
\* read it.
THEOREM RedirectsAreVerified == Spec => []RedirectsOnlyToVerifiedUri
<1>1. LaunchInv => RedirectsOnlyToVerifiedUri
  BY DEF LaunchInv, LoginInv, AnswerOK, RedirectsOnlyToVerifiedUri
<1> QED  BY <1>1, LaunchInvariant, PTL

-----------------------------------------------------------------------------
(***************************************************************************)
(* The launch flow implements LaunchContract: each step of a handler, of   *)
(* the registry and of the clock is a step of the contract or none.        *)
(***************************************************************************)
\* The four variables of the contract.
ContractVars == <<offers, ClosedOffers, Asked, Outcomes>>

LEMMA Evolution == LaunchInv /\ [Next]_vars => Evolves
<1> SUFFICES ASSUME LaunchInv, [Next]_vars PROVE Evolves
  OBVIOUS
<1>0. /\ now \in Nat /\ launches \in [Launches -> LaunchData \cup {None}]
      /\ offers \in [Launches -> Offer \cup {None}]
  BY DEF LaunchInv, TypeOK
<1>1. CASE RegistryNext /\ UNCHANGED launchVars
  <2>1. RowsKept
    BY <1>1, RegistryKeepsRows DEF LaunchInv, TypeOK, RegistryInv
  <2> QED  BY <1>0, <1>1, <2>1 DEF Evolves, launchVars
<1>2. CASE UNCHANGED registryVars
  <2>0. RowsKept
    BY <1>2, RowsFrame
  <2>1. CASE UNCHANGED <<launches, offers>> /\ now' \in {now, now + 1}
    BY <1>0, <2>0, <2>1 DEF Evolves
  <2>2. CASE \E i \in Initiations, h \in Launches : SaveLaunch(i, h)
    BY <1>0, <2>0, <2>2 DEF Evolves, SaveLaunch
  <2>3. CASE \E i \in Initiations : RespondInitiation(i)
    <3>1. PICK i \in Initiations : RespondInitiation(i)
      BY <2>3
    <3>2. UNCHANGED <<now, launches>> /\ UNCHANGED registryVars
      BY <3>1 DEF RespondInitiation
    <3>3. OffersInv /\ OffersInv'
      BY LaunchStep DEF LaunchInv
    <3>4. \A h \in Launches : OfferOf(launches[h])' = OfferOf(launches[h])
      BY <3>2 DEF OfferOf, ReadLink, registryVars, tables
    <3>5. ASSUME NEW h \in Launches, offers[h] # None PROVE offers'[h] # None
      <4> DEFINE o == [tool |-> initiation[i].row.tool,
                       deployment |-> initiation[i].row.deployment,
                       link |-> initiation[i].link, target |-> initiation[i].target,
                       user |-> initiation[i].user]
      <4>1. offers' = [offers EXCEPT ![initiation[i].launch] = o] /\ initiation[i].pc = "respond"
        BY <3>1 DEF RespondInitiation
      <4>2. initiation[i].launch \in Launches
        BY <4>1 DEF LaunchInv, InitiationInv, InitiationOK
      <4>3. initiation[i].user \in Users /\ initiation[i].link \in Links
            /\ initiation[i].target \in Urls /\ initiation[i].row \in LinkSnapshot
        BY <4>1, LinkReadTyped DEF LaunchInv, InitiationInv, InitiationOK
      <4>4. o \in Offer /\ o # None
        BY <4>3, LaunchAssumption, SMTT(40) DEF Offer, LinkSnapshot
      <4> HIDE DEF o
      <4> QED  BY <1>0, <3>5, <4>1, <4>2, <4>4
    <3> QED  BY <1>0, <2>0, <3>2, <3>3, <3>4, <3>5 DEF Evolves, OffersInv
  <2>4. \/ UNCHANGED <<launches, offers>> /\ now' \in {now, now + 1}
        \/ \E i \in Initiations, h \in Launches : SaveLaunch(i, h)
        \/ \E i \in Initiations : RespondInitiation(i)
        \/ RegistryNext /\ UNCHANGED launchVars
    BY ZenonT(40) DEF Next, vars, launchVars, StartInitiation, InitiationStep, InitiationFindsLink,
           InitiationFindsTool, SaveLaunchFails, StartLogin, LoginStep, LoginFindsTool,
           LoginFindsLaunch, LoginFindsLink, LoginSendsMessage, LoginFrame, Tick
  <2> QED  BY <1>1, <2>1, <2>2, <2>3, <2>4
<1>3. UNCHANGED registryVars \/ (RegistryNext /\ UNCHANGED launchVars)
  BY DEF Next, vars, StartInitiation, InitiationStep, InitiationFindsLink,
         InitiationFindsTool, SaveLaunch, SaveLaunchFails, RespondInitiation, StartLogin,
         LoginStep, LoginFindsTool, LoginFindsLaunch, LoginFindsLink, LoginSendsMessage,
         LoginFrame, Tick
<1> QED  BY <1>1, <1>2, <1>3

-----------------------------------------------------------------------------
(***************************************************************************)
(* Steps that only close launches                                          *)
(***************************************************************************)
LEMMA LaunchesClose ==
  ASSUME LaunchInv, Evolves, UNCHANGED <<offers, login, closedFor>>
  PROVE  Contract!Close
<1>1. Offered' = Offered /\ Asked' = Asked /\ Outcomes' = Outcomes
  BY DEF Offered, Asked, Question, Outcomes, Outcome, Got
<1>2. ClosedOffers \subseteq ClosedOffers'
  <2> SUFFICES ASSUME NEW h \in Offered, Closed(h) PROVE h \in ClosedOffers'
    BY DEF ClosedOffers
  <2>1. Closed(h)'
    BY ClosedForGood
  <2> QED  BY <1>1, <2>1 DEF ClosedOffers
<1>3. ClosedOffers' \in SUBSET Offered
  BY <1>1 DEF ClosedOffers
<1>4. Contract!Offered = Offered
  BY DEF Contract!Offered, Offered
<1> QED  BY <1>1, <1>2, <1>3, <1>4 DEF Contract!Close

-----------------------------------------------------------------------------
(***************************************************************************)
(* Steps that make an offer                                                *)
(***************************************************************************)

\* A launch that was offered already would be offered the same again.
LEMMA OfferIsMade ==
  ASSUME LaunchInv, LaunchInv', Evolves, NEW i \in Initiations, RespondInitiation(i)
  PROVE  Contract!Close \/ \E h \in Launches, o \in Offer : Contract!MakeOffer(h, o)
<1> DEFINE h == initiation[i].launch
           o == [tool |-> initiation[i].row.tool, deployment |-> initiation[i].row.deployment,
                 link |-> initiation[i].link, target |-> initiation[i].target,
                 user |-> initiation[i].user]
<1>1. /\ initiation[i].pc = "respond" /\ offers' = [offers EXCEPT ![h] = o]
      /\ UNCHANGED <<registryVars, now, launches, login, closedFor>>
  BY DEF RespondInitiation
<1>2. h \in Launches /\ offers \in [Launches -> Offer \cup {None}]
      /\ offers' \in [Launches -> Offer \cup {None}]
  BY <1>1 DEF LaunchInv, InitiationInv, InitiationOK, TypeOK
<1> HIDE DEF o
<1>3. CASE offers[h] # None
  <2>1. offers' = offers
    BY <1>1, <1>2, <1>3 DEF Evolves
  <2> QED  BY <1>1, <2>1, LaunchesClose
<1>4. CASE offers[h] = None
  <2>1. o \in Offer /\ o # None
    <3>1. initiation[i].user \in Users /\ initiation[i].link \in Links
          /\ initiation[i].target \in Urls /\ initiation[i].row \in LinkSnapshot
      BY <1>1, LinkReadTyped DEF LaunchInv, InitiationInv, InitiationOK
    <3> QED  BY <3>1, LaunchAssumption DEF Offer, LinkSnapshot, o
  <2>2. Offered' = Offered \cup {h}
    BY <1>1, <1>2, <2>1 DEF Offered
  <2>3. \A k : Closed(k)' = Closed(k)
    BY <1>1 DEF Closed, InRedis, registryVars, tables
  <2>4. ClosedOffers' \in {ClosedOffers, ClosedOffers \cup {h}}
    <3>1. CASE Closed(h)
      BY <2>2, <2>3, <3>1 DEF ClosedOffers
    <3>2. CASE ~Closed(h)
      <4>1. ClosedOffers' = ClosedOffers
        BY <2>2, <2>3, <3>2 DEF ClosedOffers
      <4> QED  BY <4>1
    <3> QED  BY <3>1, <3>2
  <2>5. Asked' = Asked /\ Outcomes' = Outcomes
    BY <1>1 DEF Asked, Question, Outcomes, Outcome, Got
  <2>6. Contract!MakeOffer(h, o)
    BY <1>1, <1>4, <2>4, <2>5 DEF Contract!MakeOffer
  <2> QED  BY <1>2, <2>1, <2>6
<1> QED  BY <1>3, <1>4

-----------------------------------------------------------------------------
(***************************************************************************)
(* Steps of an authentication request                                      *)
(***************************************************************************)
LEMMA WorldUnchanged ==
  ASSUME UNCHANGED <<registryVars, now, launches, offers>>
  PROVE  Offered' = Offered /\ ClosedOffers' = ClosedOffers
<1>1. Offered' = Offered /\ \A h : Closed(h)' = Closed(h)
  BY DEF Offered, Closed, InRedis, registryVars, tables
<1> QED  BY <1>1 DEF ClosedOffers

LEMMA RequestIsAsked ==
  ASSUME LaunchInv, NEW q \in Logins, NEW t \in Tools, NEW uri \in RedirectUris,
         NEW h \in Hints, NEW agree \in BOOLEAN, StartLogin(q, t, uri, h, agree)
  PROVE  Contract!Ask(q, t, h)
<1> DEFINE st == [IdleLogin EXCEPT !.pc = "tool", !.tool = t, !.uri = uri, !.hint = h,
                                   !.hintsAgree = agree]
<1>1. /\ login[q].pc \in {"idle", "answered"} /\ h \in Offered \cup {UnknownHint}
      /\ login' = [login EXCEPT ![q] = st]
      /\ closedFor' = [closedFor EXCEPT ![q] = Closed(h)]
      /\ UNCHANGED <<registryVars, now, launches, offers>>
  BY DEF StartLogin
<1>2. st.pc = "tool" /\ st.tool = t /\ st.hint = h
  BY DEF IdleLogin
<1> HIDE DEF st
<1>3. /\ login'[q] = st /\ closedFor'[q] = Closed(h)
      /\ \A r \in Logins \ {q} : login'[r] = login[r] /\ closedFor'[r] = closedFor[r]
  BY <1>1 DEF LaunchInv, TypeOK
<1>4. Offered' = Offered /\ ClosedOffers' = ClosedOffers
  BY <1>1, WorldUnchanged
<1>5. (h \in Offered \ ClosedOffers) = ~Closed(h)
  BY <1>1, LaunchAssumption DEF ClosedOffers, Offered, Closed, InRedis
<1>6. Asked' = [Asked EXCEPT ![q] = [tool |-> t, hint |-> h, open |-> h \in Offered \ ClosedOffers]]
  <2>1. Asked'[q] = [tool |-> t, hint |-> h, open |-> h \in Offered \ ClosedOffers]
    BY <1>2, <1>3, <1>5 DEF Asked, Question
  <2>2. \A r \in Logins \ {q} : Asked'[r] = Asked[r]
    BY <1>3 DEF Asked, Question
  <2> QED  BY <2>1, <2>2 DEF Asked
<1>7. Outcomes' = [Outcomes EXCEPT ![q] = None]
  <2>1. Outcomes'[q] = None /\ \A r \in Logins \ {q} : Outcomes'[r] = Outcomes[r]
    BY <1>2, <1>3 DEF Outcomes, Outcome, Got
  <2> QED  BY <2>1 DEF Outcomes
<1>8. Asked[q] = None \/ Outcomes[q] # None
  <2>1. CASE login[q].pc = "idle"
    BY <2>1 DEF Asked
  <2>2. CASE login[q].pc = "answered"
    <3>1. Outcome(q) = {} \/ \E o \in Offer : Outcome(q) = {o}
      <4>1. Got(q, "message") =>
              login[q].answer.message = offers[login[q].hint] /\ login[q].hint \in Offered
        BY DEF LaunchInv, LoginInv, AnswerOK
      <4>2. \A k \in Offered : offers[k] \in Offer
        BY DEF LaunchInv, TypeOK, Offered
      <4> QED  BY <4>1, <4>2 DEF Outcome
    <3> QED  BY <2>2, <3>1, ContractAssumption DEF Outcomes
  <2> QED  BY <1>1, <2>1, <2>2
<1>9. h \in Contract!Offered \cup {UnknownHint} /\ Contract!Offered = Offered
  BY <1>1 DEF Contract!Offered, Offered
<1> QED  BY <1>1, <1>4, <1>6, <1>7, <1>8, <1>9 DEF Contract!Ask

\* A step of the handler changes nothing the contract sees of the request but its answer.
LEMMA HandlerMoves ==
  ASSUME LaunchInv, NEW q \in Logins, LoginStep(q)
  PROVE  /\ LoginFrame /\ login[q].pc \in Steps
         /\ login'[q].pc \in Steps \cup {"answered"}
         /\ login'[q].tool = login[q].tool /\ login'[q].hint = login[q].hint
         /\ login'[q].answer # None => login'[q].pc = "answered"
         /\ \A r \in Logins \ {q} : login'[r] = login[r]
<1>0. login \in [Logins -> LoginState] /\ login[q] \in LoginState
  BY DEF LaunchInv, TypeOK
<1>1. LoginFrame /\ login[q].pc \in Steps
  BY DEF LoginStep, LoginFindsTool, LoginFindsLaunch, LoginFindsLink, LoginSendsMessage, Steps
<1>2. AnswerOK(q)'
  BY LaunchStep DEF Next, LaunchInv, LoginInv
<1>3. ASSUME NEW a, Reply(q, a)
      PROVE  /\ login'[q].pc = "answered" /\ login'[q].tool = login[q].tool
             /\ login'[q].hint = login[q].hint
             /\ \A r \in Logins \ {q} : login'[r] = login[r]
  BY <1>0, <1>3 DEF Reply, Answered, LoginState
<1>4. CASE \E a : Reply(q, a)
  BY <1>1, <1>2, <1>3, <1>4 DEF AnswerOK
<1>5. CASE \E snapshot, a :
             login' = [login EXCEPT ![q] = [Answered(q, a) EXCEPT !.snapshot = snapshot]]
  BY <1>0, <1>1, <1>5 DEF Answered, LoginState
<1>6. CASE \E snapshot :
             login' = [login EXCEPT ![q].pc = "launch", ![q].snapshot = snapshot]
  BY <1>0, <1>1, <1>2, <1>6 DEF AnswerOK, LoginState, Steps
<1>7. CASE \E data : login' = [login EXCEPT ![q].pc = "link", ![q].launch = data]
  BY <1>0, <1>1, <1>2, <1>7 DEF AnswerOK, LoginState, Steps
<1>8. CASE \E row : login' = [login EXCEPT ![q].pc = "message", ![q].link = row]
  BY <1>0, <1>1, <1>2, <1>8 DEF AnswerOK, LoginState, Steps
<1> QED
  BY <1>4, <1>5, <1>6, <1>7, <1>8
  DEF LoginStep, LoginFindsTool, LoginFindsLaunch, LoginFindsLink, LoginSendsMessage, Page,
      Redirect

\* A step that answers with a message delivers the offer; one that answers otherwise refuses.
LEMMA RequestIsAnswered ==
  ASSUME LaunchInv, LaunchInv', NEW q \in Logins, LoginStep(q)
  PROVE  Contract!Deliver(q) \/ Contract!Refuse(q) \/ UNCHANGED ContractVars
<1>1. /\ LoginFrame /\ login[q].pc \in Steps
      /\ login'[q].pc \in Steps \cup {"answered"}
      /\ login'[q].tool = login[q].tool /\ login'[q].hint = login[q].hint
      /\ login'[q].answer # None => login'[q].pc = "answered"
      /\ \A r \in Logins \ {q} : login'[r] = login[r]
  BY HandlerMoves
<1>2. ClosedOffers' = ClosedOffers /\ offers' = offers /\ closedFor' = closedFor
  BY <1>1, WorldUnchanged DEF LoginFrame
<1>3. Asked' = Asked
  <2>1. \A r \in Logins : Asked'[r] = Asked[r]
    BY <1>1, <1>2 DEF Asked, Question, Steps
  <2> QED  BY <2>1 DEF Asked
<1>4. Outcomes' = [Outcomes EXCEPT ![q] = Outcomes'[q]]
  <2>1. \A r \in Logins \ {q} : Outcomes'[r] = Outcomes[r]
    BY <1>1 DEF Outcomes, Outcome, Got
  <2> QED  BY <2>1 DEF Outcomes
<1>5. Contract!Waiting(q)
  <2>1. Asked[q] = Question(q) /\ Outcomes[q] = None
    BY <1>1 DEF Asked, Outcomes, Steps
  <2>2. login[q].tool \in Tools /\ login[q].hint \in Hints /\ (~closedFor[q]) \in BOOLEAN
    BY <1>1 DEF LaunchInv, LoginInv, RequestOK, Steps, Offered, Hints
  <2>3. \A open \in BOOLEAN :
          [tool |-> login[q].tool, hint |-> login[q].hint, open |-> open] # None
    BY <2>2, ContractAssumption
  <2>4. Question(q) # None
    BY <2>2, <2>3 DEF Question
  <2> QED  BY <2>1, <2>4 DEF Contract!Waiting
<1>6. CASE login'[q].pc # "answered"
  <2>1. Outcomes'[q] = Outcomes[q]
    BY <1>1, <1>6 DEF Outcomes, Steps
  <2>2. Outcomes' = Outcomes
    BY <1>4, <2>1 DEF Outcomes
  <2> QED  BY <1>2, <1>3, <2>2 DEF ContractVars
<1>7. CASE login'[q].pc = "answered" /\ ~Got(q, "message")'
  <2>1. Outcomes'[q] = {}
    BY <1>7 DEF Outcomes, Outcome
  <2> QED  BY <1>2, <1>3, <1>4, <1>5, <2>1 DEF Contract!Refuse
<1>8. CASE login'[q].pc = "answered" /\ Got(q, "message")'
  <2> DEFINE h == login[q].hint
  <2>1. /\ login'[q].answer.message = offers[h] /\ login[q].tool = offers[h].tool
        /\ ~closedFor[q]
    BY <1>1, <1>2, <1>8 DEF LaunchInv, LoginInv, AnswerOK
  <2>2. Outcomes'[q] = {offers[h]}
    BY <1>8, <2>1 DEF Outcomes, Outcome
  <2>3. Asked[q].hint = h /\ Asked[q].tool = login[q].tool /\ Asked[q].open
    BY <1>1, <2>1 DEF Asked, Question, Steps
  <2> QED  BY <1>2, <1>3, <1>4, <1>5, <2>1, <2>2, <2>3 DEF Contract!Deliver
<1> QED  BY <1>6, <1>7, <1>8

-----------------------------------------------------------------------------
(***************************************************************************)
(* The refinement                                                          *)
(***************************************************************************)
LEMMA ContractInit == Init => Contract!Init
<1> SUFFICES ASSUME Init PROVE Contract!Init
  OBVIOUS
<1>1. Offered = {} /\ ClosedOffers = {}
  BY DEF Init, Offered, ClosedOffers
<1>2. Asked = [q \in Logins |-> None] /\ Outcomes = [q \in Logins |-> None]
  BY DEF Init, Asked, Outcomes, IdleLogin
<1> QED  BY <1>1, <1>2 DEF Init, Contract!Init

LEMMA ContractStep == LaunchInv /\ [Next]_vars => [Contract!Next]_ContractVars
<1> SUFFICES ASSUME LaunchInv, [Next]_vars PROVE Contract!Next \/ UNCHANGED ContractVars
  BY DEF Contract!Next
<1>1. LaunchInv' /\ Evolves
  BY LaunchStep, Evolution
<1>2. CASE UNCHANGED <<offers, login, closedFor>>
  BY <1>1, <1>2, LaunchesClose DEF Contract!Next
<1>3. CASE \E i \in Initiations : RespondInitiation(i)
  BY <1>1, <1>3, OfferIsMade DEF Contract!Next
<1>4. CASE \E q \in Logins, t \in Tools, uri \in RedirectUris, h \in Hints, agree \in BOOLEAN :
              StartLogin(q, t, uri, h, agree)
  <2>1. PICK q \in Logins, t \in Tools, h \in Hints : Contract!Ask(q, t, h)
    BY <1>4, RequestIsAsked
  <2> QED  BY <2>1 DEF Contract!Next, Hints
<1>5. CASE \E q \in Logins : LoginStep(q)
  BY <1>1, <1>5, RequestIsAnswered, SMTT(40) DEF Contract!Next
<1>6. \/ UNCHANGED <<offers, login, closedFor>>
      \/ \E i \in Initiations : RespondInitiation(i)
      \/ \E q \in Logins, t \in Tools, uri \in RedirectUris, h \in Hints, agree \in BOOLEAN :
              StartLogin(q, t, uri, h, agree)
      \/ \E q \in Logins : LoginStep(q)
  BY DEF Next, vars, launchVars, StartInitiation, InitiationStep, InitiationFindsLink,
         InitiationFindsTool, SaveLaunch, SaveLaunchFails, Tick
<1> QED  BY <1>2, <1>3, <1>4, <1>5, <1>6

\* Whatever the registry, the store, the clock and the handlers' awaits do, an observer of the
\* launch flow sees its contract: offers that never change, launches that never reopen, and
\* answers that are the offer, to its tool and while it is open, or a refusal.
THEOREM LaunchRefinesContract == Spec => ImplementsContract
<1>1. LaunchInv /\ [Next]_vars => [Contract!Next]_(Contract!vars)
  BY ContractStep DEF Contract!vars, ContractVars
<1> QED
  BY <1>1, ContractInit, LaunchInvariant, PTL DEF Spec, ImplementsContract, Contract!Spec

-----------------------------------------------------------------------------
(***************************************************************************)
(* A refusal that blames the launch, its link or its deployment is right.  *)
(*                                                                         *)
(* For the deployment this rests on the order of the reads: the tool is    *)
(* read before the link.  A link that is live when it is read was live     *)
(* when the tool was, for links never come back, and so was its            *)
(* deployment, which is then among those read with the tool.               *)
(***************************************************************************)
Justified(q) ==
    LET st == login[q]
        h == st.hint
    IN  /\ st.pc \in {"launch", "link"} /\ h \in Launches =>
             (st.tool = offers[h].tool /\ offers[h].link \in liveLinks =>
                offers[h].deployment \in st.snapshot.deployments)
        /\ st.pc = "message" =>
             (st.tool = offers[h].tool => offers[h].deployment \in st.snapshot.deployments)
        /\ RefusedWith(q, "invalid_deployment") =>
             h \in Offered /\ st.tool # offers[h].tool
        /\ RefusedWith(q, "launch_not_found") /\ h # UnknownHint =>
             h \in Offered /\ ~InRedis(h)
        /\ RefusedWith(q, "link_not_found") =>
             h \in Offered /\ launches[h].link \notin liveLinks

RefusalInv == LaunchInv /\ \A q \in Logins : Justified(q)

\* What is known of an offered launch.
LEMMA OfferedLaunch ==
  ASSUME LaunchInv, NEW h \in Offered
  PROVE  /\ h \in Launches /\ launches[h] \in LaunchData /\ launches[h] # None
         /\ offers[h] = OfferOf(launches[h]) /\ offers[h].link = launches[h].link
         /\ launches[h].link \in Links /\ linkRow[launches[h].link] # None
         /\ launches[h].expiresAt \in Nat
         /\ offers[h].deployment = linkRow[launches[h].link].deployment
         /\ offers[h].tool = deploymentTool[offers[h].deployment]
<1>1. h \in Launches /\ offers[h] # None /\ launches[h] # None /\ offers[h] = OfferOf(launches[h])
  BY DEF Offered, LaunchInv, OffersInv
<1>2. launches[h] \in LaunchData
  BY <1>1 DEF LaunchInv, TypeOK
<1>3. linkRow[launches[h].link] # None
  BY <1>1 DEF LaunchInv, StoredLaunchesInv
<1> QED  BY <1>1, <1>2, <1>3 DEF LaunchData, OfferOf, ReadLink

\* An offered launch evolves with the world.
LEMMA OfferedLaunchKept ==
  ASSUME LaunchInv, Evolves, NEW h \in Offered
  PROVE  /\ h \in Offered' /\ offers'[h] = offers[h] /\ launches'[h] = launches[h]
         /\ launches[h].link \notin liveLinks => launches[h].link \notin liveLinks'
         /\ ~InRedis(h) => ~InRedis(h)'
<1>1. /\ h \in Launches /\ launches[h] # None /\ launches[h].link \in Links
      /\ linkRow[launches[h].link] # None /\ launches[h].expiresAt \in Nat
  BY OfferedLaunch
<1>2. offers[h] # None /\ offers'[h] = offers[h] /\ launches'[h] = launches[h]
  BY <1>1 DEF Offered, Evolves
<1>3. now \in Nat /\ now' \in Nat /\ now <= now'
  BY DEF LaunchInv, TypeOK, Evolves
<1> QED  BY <1>1, <1>2, <1>3 DEF Offered, Evolves, RowsKept, InRedis

LEMMA JustifiedKept ==
  ASSUME LaunchInv, Evolves, NEW q \in Logins, login'[q] = login[q], Justified(q)
  PROVE  Justified(q)'
<1> DEFINE h == login[q].hint
<1>1. login[q].pc \in {"launch", "link"} /\ h \in Launches => h \in Offered
  BY LaunchAssumption DEF LaunchInv, LoginInv, RequestOK
<1>2. login[q].pc = "message" => h \in Offered
  BY DEF LaunchInv, LoginInv, RequestOK
<1>3. ASSUME h \in Offered
      PROVE  /\ h \in Offered' /\ offers'[h] = offers[h] /\ launches'[h] = launches[h]
             /\ launches[h].link \notin liveLinks => launches[h].link \notin liveLinks'
             /\ offers[h].link = launches[h].link
             /\ ~InRedis(h) => ~InRedis(h)'
  BY <1>3, OfferedLaunchKept, OfferedLaunch
<1> QED  BY <1>1, <1>2, <1>3 DEF Justified, RefusedWith, Got, InRedis

-----------------------------------------------------------------------------
(***************************************************************************)
(* The steps of an authentication request                                  *)
(***************************************************************************)

\* What a refusal with this answer must rest on.
Grounds(q, a) ==
    LET h == login[q].hint
    IN  a.kind \in {"page", "redirect"} =>
          /\ a.error = "invalid_deployment" => h \in Offered /\ login[q].tool # offers[h].tool
          /\ a.error = "launch_not_found" /\ h # UnknownHint => h \in Offered /\ ~InRedis(h)
          /\ a.error = "link_not_found" => h \in Offered /\ launches[h].link \notin liveLinks

LEMMA EndIsJustified ==
  ASSUME NEW q \in Logins, NEW a, LoginFrame, Grounds(q, a),
         login'[q].pc = "answered", login'[q].answer = a,
         login'[q].tool = login[q].tool, login'[q].hint = login[q].hint
  PROVE  Justified(q)'
<1>1. /\ Offered' = Offered /\ offers' = offers /\ launches' = launches /\ liveLinks' = liveLinks
      /\ \A h : InRedis(h)' = InRedis(h)
  BY LoginFrameKeeps DEF LoginFrame, InRedis
<1>2. ASSUME NEW e, RefusedWith(q, e)'
      PROVE  a.kind \in {"page", "redirect"} /\ a.error = e
  BY <1>2 DEF RefusedWith, Got
<1> QED  BY <1>1, <1>2 DEF Justified, Grounds

LEMMA ReplyIsJustified ==
  ASSUME LaunchInv, NEW q \in Logins, NEW a, LoginFrame, Reply(q, a), Grounds(q, a)
  PROVE  Justified(q)'
<1>1. login \in [Logins -> LoginState] /\ login[q] \in LoginState
  BY DEF LaunchInv, TypeOK
<1>2. /\ login'[q].pc = "answered" /\ login'[q].answer = a
      /\ login'[q].tool = login[q].tool /\ login'[q].hint = login[q].hint
  BY <1>1 DEF Reply, Answered, LoginState
<1> QED  BY <1>2, EndIsJustified

\* The errors that blame nothing.
LEMMA OtherErrors ==
  ASSUME NEW q \in Logins
  PROVE  /\ \A e \in Pages \ {"invalid_deployment"} : Grounds(q, [kind |-> "page", error |-> e])
         /\ \A e \in Redirections \ {"launch_not_found", "link_not_found"} :
               Grounds(q, Redirection(q, e))
BY DEF Grounds, Redirection, Pages, Redirections

LEMMA ToolReadIsJustified ==
  ASSUME LaunchInv, NEW q \in Logins, LoginFindsTool(q)
  PROVE  Justified(q)'
<1> DEFINE t == login[q].tool
           h == login[q].hint
<1>0. /\ LoginFrame /\ login[q].pc = "tool" /\ login[q].answer = None
      /\ login \in [Logins -> LoginState] /\ login[q] \in LoginState
  BY DEF LoginFindsTool, LaunchInv, TypeOK, LoginInv, AnswerOK
<1>1. CASE \E e \in Pages \ {"invalid_deployment"} : Page(q, e)
  BY <1>0, <1>1, OtherErrors, ReplyIsJustified DEF Page
<1>2. CASE login' = [login EXCEPT ![q] = [Answered(q, Redirection(q, "malformed_launch"))
                                            EXCEPT !.snapshot = ReadTool(t)]]
  <2> DEFINE a == Redirection(q, "malformed_launch")
  <2>1. Grounds(q, a)
    BY OtherErrors DEF Redirections
  <2> HIDE DEF a
  <2>2. /\ login'[q].pc = "answered" /\ login'[q].answer = a
        /\ login'[q].tool = t /\ login'[q].hint = h
    BY <1>0, <1>2 DEF Answered, LoginState, a
  <2> QED  BY <1>0, <2>1, <2>2, EndIsJustified
<1>3. CASE login' = [login EXCEPT ![q].pc = "launch", ![q].snapshot = ReadTool(t)]
  <2>1. /\ login'[q].pc = "launch" /\ login'[q].tool = t /\ login'[q].hint = h
        /\ login'[q].answer = None /\ login'[q].snapshot = ReadTool(t)
    BY <1>0, <1>3 DEF LoginState
  <2>2. ASSUME h \in Offered, t = offers[h].tool, offers[h].link \in liveLinks
        PROVE  offers[h].deployment \in ReadTool(t).deployments
    <3>1. /\ offers[h].deployment = linkRow[offers[h].link].deployment
          /\ deploymentTool[offers[h].deployment] = t
      BY <2>2, OfferedLaunch
    <3>2. offers[h].deployment \in liveDeployments
      BY <2>2, <3>1 DEF LaunchInv, NoOrphans
    <3> QED  BY <3>1, <3>2 DEF ReadTool, DeploymentsOf
  <2>3. h \in Launches => h \in Offered
    BY <1>0, LaunchAssumption DEF LaunchInv, LoginInv, RequestOK
  <2>4. offers' = offers /\ liveLinks' = liveLinks
    BY <1>0, LoginFrameKeeps
  <2> QED  BY <2>1, <2>2, <2>3, <2>4 DEF Justified, RefusedWith, Got
<1> QED  BY <1>1, <1>2, <1>3 DEF LoginFindsTool, Pages

LEMMA LaunchReadIsJustified ==
  ASSUME LaunchInv, NEW q \in Logins, Justified(q), LoginFindsLaunch(q)
  PROVE  Justified(q)'
<1> DEFINE h == login[q].hint
<1>0. /\ LoginFrame /\ login[q].pc = "launch" /\ login[q].answer = None
      /\ login \in [Logins -> LoginState] /\ login[q] \in LoginState
      /\ h \in Offered \cup {UnknownHint}
  BY DEF LoginFindsLaunch, LaunchInv, TypeOK, LoginInv, AnswerOK, RequestOK
<1>1. CASE Redirect(q, "server_error")
  BY <1>0, <1>1, OtherErrors, ReplyIsJustified DEF Redirect, Redirections
<1>2. CASE ~InRedis(h) /\ Redirect(q, "launch_not_found")
  <2>1. Grounds(q, Redirection(q, "launch_not_found"))
    BY <1>0, <1>2 DEF Grounds, Redirection
  <2> QED  BY <1>0, <1>2, <2>1, ReplyIsJustified DEF Redirect
<1>3. CASE login' = [login EXCEPT ![q].pc = "link", ![q].launch = launches[h]]
  <2>1. /\ login'[q].pc = "link" /\ login'[q].tool = login[q].tool /\ login'[q].hint = h
        /\ login'[q].answer = None /\ login'[q].snapshot = login[q].snapshot
    BY <1>0, <1>3 DEF LoginState
  <2>2. offers' = offers /\ liveLinks' = liveLinks
    BY <1>0, LoginFrameKeeps
  <2> QED  BY <1>0, <2>1, <2>2 DEF Justified, RefusedWith, Got
<1> QED  BY <1>1, <1>2, <1>3 DEF LoginFindsLaunch

LEMMA LinkReadIsJustified ==
  ASSUME LaunchInv, NEW q \in Logins, Justified(q), LoginFindsLink(q)
  PROVE  Justified(q)'
<1> DEFINE h == login[q].hint
<1>0. /\ LoginFrame /\ login[q].pc = "link" /\ login[q].answer = None
      /\ login \in [Logins -> LoginState] /\ login[q] \in LoginState
      /\ h \in Offered /\ login[q].launch = launches[h]
  BY DEF LoginFindsLink, LaunchInv, TypeOK, LoginInv, AnswerOK, RequestOK
<1>1. CASE Redirect(q, "server_error")
  BY <1>0, <1>1, OtherErrors, ReplyIsJustified DEF Redirect, Redirections
<1>2. CASE launches[h].link \notin liveLinks /\ Redirect(q, "link_not_found")
  <2>1. Grounds(q, Redirection(q, "link_not_found"))
    BY <1>0, <1>2 DEF Grounds, Redirection
  <2> QED  BY <1>0, <1>2, <2>1, ReplyIsJustified DEF Redirect
<1>3. CASE /\ launches[h].link \in liveLinks
           /\ login' = [login EXCEPT ![q].pc = "message", ![q].link = ReadLink(launches[h].link)]
  <2>1. /\ login'[q].pc = "message" /\ login'[q].tool = login[q].tool /\ login'[q].hint = h
        /\ login'[q].answer = None /\ login'[q].snapshot = login[q].snapshot
    BY <1>0, <1>3 DEF LoginState
  <2>2. offers' = offers
    BY <1>0, LoginFrameKeeps
  <2>3. h \in Launches /\ offers[h].link = launches[h].link
    BY <1>0, OfferedLaunch
  <2> QED  BY <1>0, <1>3, <2>1, <2>2, <2>3 DEF Justified, RefusedWith, Got
<1> QED  BY <1>0, <1>1, <1>2, <1>3 DEF LoginFindsLink

LEMMA MessageIsJustified ==
  ASSUME LaunchInv, NEW q \in Logins, Justified(q), LoginSendsMessage(q)
  PROVE  Justified(q)'
<1> DEFINE h == login[q].hint
<1>0. /\ LoginFrame /\ login[q].pc = "message" /\ h \in Offered
      /\ login[q].launch = launches[h] /\ login[q].link = ReadLink(launches[h].link)
  BY DEF LoginSendsMessage, LaunchInv, LoginInv, RequestOK
<1>1. CASE \E e \in Pages \ {"invalid_deployment"} : Page(q, e)
  BY <1>0, <1>1, OtherErrors, ReplyIsJustified DEF Page
<1>2. CASE Redirect(q, "server_error") \/ Redirect(q, "login_required")
  BY <1>0, <1>2, OtherErrors, ReplyIsJustified DEF Redirect, Redirections
<1>3. CASE ~DeploymentOfTool(q) /\ Page(q, "invalid_deployment")
  <2>1. login[q].link.deployment = offers[h].deployment
    BY <1>0, OfferedLaunch DEF ReadLink
  <2>2. login[q].tool # offers[h].tool
    BY <1>0, <1>3, <2>1 DEF DeploymentOfTool, Justified
  <2>3. Grounds(q, [kind |-> "page", error |-> "invalid_deployment"])
    BY <1>0, <2>2 DEF Grounds
  <2> QED  BY <1>0, <1>3, <2>3, ReplyIsJustified, SMTT(40) DEF Page
<1>4. CASE Reply(q, [kind |-> "message", message |-> LaunchMessage(q)])
  <2>1. Grounds(q, [kind |-> "message", message |-> LaunchMessage(q)])
    BY DEF Grounds
  <2> QED  BY <1>0, <1>4, <2>1, ReplyIsJustified
<1> QED
  BY <1>1, <1>2, <1>3, <1>4 DEF LoginSendsMessage, Pages

LEMMA ArrivalIsJustified ==
  ASSUME LaunchInv, NEW q \in Logins, NEW t, NEW uri, NEW h, NEW agree,
         StartLogin(q, t, uri, h, agree)
  PROVE  Justified(q)' /\ \A r \in Logins \ {q} : login'[r] = login[r]
<1>1. /\ login'[q].pc = "tool" /\ login'[q].answer = None
      /\ \A r \in Logins \ {q} : login'[r] = login[r]
  BY DEF StartLogin, IdleLogin, LaunchInv, TypeOK
<1> QED  BY <1>1 DEF Justified, RefusedWith, Got

-----------------------------------------------------------------------------
(***************************************************************************)
(* Every step                                                              *)
(***************************************************************************)
LEMMA RefusalInit == Init => RefusalInv
<1> SUFFICES ASSUME Init PROVE RefusalInv
  OBVIOUS
<1>1. LaunchInv
  BY LaunchInitInv
<1>2. ASSUME NEW q \in Logins PROVE Justified(q)
  BY DEF Init, IdleLogin, Justified, RefusedWith, Got
<1> QED  BY <1>1, <1>2 DEF RefusalInv

LEMMA RefusalStep == RefusalInv /\ [Next]_vars => RefusalInv'
<1> SUFFICES ASSUME RefusalInv, [Next]_vars PROVE RefusalInv'
  OBVIOUS
<1>1. LaunchInv /\ LaunchInv' /\ Evolves
  BY LaunchStep, Evolution DEF RefusalInv
<1>2. ASSUME NEW r \in Logins, login'[r] = login[r] PROVE Justified(r)'
  BY <1>1, <1>2, JustifiedKept DEF RefusalInv
<1>3. CASE UNCHANGED login
  BY <1>1, <1>2, <1>3 DEF RefusalInv
<1>4. ASSUME NEW q \in Logins, LoginStep(q) PROVE RefusalInv'
  <2>1. Justified(q)'
    BY <1>1, <1>4, ToolReadIsJustified, LaunchReadIsJustified, LinkReadIsJustified,
       MessageIsJustified DEF LoginStep, RefusalInv
  <2>2. \A r \in Logins \ {q} : login'[r] = login[r]
    BY <1>1, <1>4, HandlerMoves
  <2> QED  BY <1>1, <1>2, <2>1, <2>2 DEF RefusalInv
<1>5. CASE \E q \in Logins, t \in Tools, uri \in RedirectUris, h \in Hints, agree \in BOOLEAN :
              StartLogin(q, t, uri, h, agree)
  <2>1. PICK q \in Logins, t \in Tools, uri \in RedirectUris, h \in Hints, agree \in BOOLEAN :
               StartLogin(q, t, uri, h, agree)
    BY <1>5
  <2>2. Justified(q)' /\ \A r \in Logins \ {q} : login'[r] = login[r]
    BY <1>1, <2>1, ArrivalIsJustified, SMTT(40)
  <2> QED  BY <1>1, <1>2, <2>2 DEF RefusalInv
<1>6. \/ UNCHANGED login
      \/ \E q \in Logins : LoginStep(q)
      \/ \E q \in Logins, t \in Tools, uri \in RedirectUris, h \in Hints, agree \in BOOLEAN :
              StartLogin(q, t, uri, h, agree)
  BY DEF Next, vars, launchVars, StartInitiation, InitiationStep, InitiationFindsLink,
         InitiationFindsTool, SaveLaunch, SaveLaunchFails, RespondInitiation, Tick
<1> QED  BY <1>3, <1>4, <1>5, <1>6

\* The tool that was offered a launch never hears that its deployment is wrong; a launch is
\* not found only when it expired or was never offered, a link only when it was deleted.
THEOREM RefusalsAreRight == Spec => []RefusalsAreJustified
<1>1. RefusalInv => RefusalsAreJustified
  BY DEF RefusalInv, Justified, RefusalsAreJustified
<1> QED  BY <1>1, RefusalInit, RefusalStep, PTL DEF Spec

-----------------------------------------------------------------------------
(***************************************************************************)
(* Discovery.                                                              *)
(***************************************************************************)
DiscoveryInv ==
    /\ RegistryInv /\ page \in [Visits -> Request]
    /\ \A p \in Visits : page[p].pc = "shown" => page[p].read \subseteq page[p].shown

\* Every link is in a deployment of a tool, whatever the managers are doing.
LEMMA LinksHaveTools ==
  ASSUME RegistryInv
  PROVE  FindManyLinks \subseteq [id : Links, tool : Tools]
<1>1. ASSUME NEW l \in liveLinks
      PROVE  l \in Links /\ deploymentTool[linkRow[l].deployment] \in Tools
  BY DEF RegistryInv, RegistryTypeOK, NoOrphans
<1> QED  BY <1>1 DEF FindManyLinks

\* A page that is opened, answered or left becomes another request of the home page.
LEMMA PageMoves ==
  ASSUME DiscoveryInv, UNCHANGED registryVars, NEW p \in Visits,
         NEW next \in Request, next.pc = "shown" => next.read \subseteq next.shown,
         page' = [page EXCEPT ![p] = next]
  PROVE  DiscoveryInv'
<1>1. RegistryInv'
  BY RegistryStutter DEF DiscoveryInv
<1>2. page' \in [Visits -> Request] /\ page'[p] = next
      /\ \A q \in Visits \ {p} : page'[q] = page[q]
  BY DEF DiscoveryInv
<1> QED  BY <1>1, <1>2 DEF DiscoveryInv

LEMMA DiscoveryInitInv == DiscoveryInit => DiscoveryInv
<1> SUFFICES ASSUME DiscoveryInit PROVE DiscoveryInv
  OBVIOUS
<1>1. Fresh \in Request /\ Fresh.pc # "shown"
  BY DEF Fresh, Request
<1> QED  BY <1>1, RegistryInitInv DEF DiscoveryInit, DiscoveryInv

LEMMA DiscoveryStep == DiscoveryInv /\ [DiscoveryNext]_discoveryVars => DiscoveryInv'
<1> SUFFICES ASSUME DiscoveryInv, [DiscoveryNext]_discoveryVars PROVE DiscoveryInv'
  OBVIOUS
<1>1. CASE RegistryNext /\ UNCHANGED page
  BY <1>1, RegistryStep DEF DiscoveryInv
<1>2. ASSUME NEW p \in Visits, Open(p) PROVE DiscoveryInv'
  <2>1. PICK role \in SystemRoles :
          page' = [page EXCEPT ![p] = [Fresh EXCEPT
                      !.pc = "links", !.roles = MapRolesToLtiSystemRoles(role),
                      !.read = FindManyLinks]]
    BY <1>2 DEF Open
  <2>2. PICK next : next = [Fresh EXCEPT !.pc = "links", !.roles = MapRolesToLtiSystemRoles(role),
                                         !.read = FindManyLinks]
    OBVIOUS
  <2>3. MapRolesToLtiSystemRoles(role) \subseteq LtiRoles
    <3>1. CASE role = "admin"
      BY <3>1 DEF MapRolesToLtiSystemRoles, LtiRoles
    <3>2. CASE role = "user"
      BY <3>2 DEF MapRolesToLtiSystemRoles, LtiRoles
    <3> QED  BY <3>1, <3>2 DEF SystemRoles
  <2>4. next \in Request /\ next.pc # "shown"
    <3>1. FindManyLinks \subseteq [id : Links, tool : Tools]
      BY LinksHaveTools DEF DiscoveryInv
    <3> QED  BY <2>2, <2>3, <3>1 DEF Request, Fresh
  <2>5. UNCHANGED registryVars
    BY <1>2 DEF Open
  <2> QED  BY <2>1, <2>2, <2>4, <2>5, PageMoves
<1>3. ASSUME NEW p \in Visits, Present(p) PROVE DiscoveryInv'
  <2> DEFINE old == page[p]
             found == FindToolsOwningResourceLinks({link.id : link \in old.read})
             visible == {link \in old.read : link.tool \in Unrestricted(old.roles, found)}
  <2>1. old \in Request
    BY DEF DiscoveryInv
  <2>2. found = {}
    BY <2>1, LaunchLinksAssumption
    DEF FindToolsOwningResourceLinks, Request, DiscoveryInv, RegistryInv, RegistryTypeOK
  <2>3. Unrestricted(old.roles, found) = Tools
    BY <2>2 DEF Unrestricted
  <2>4. visible = old.read
    BY <2>1, <2>3 DEF Request
  <2>5. page' = [page EXCEPT ![p].pc = "shown", ![p].shown = visible]
    BY <1>3 DEF Present
  <2>6. PICK next : next = [old EXCEPT !.pc = "shown", !.shown = visible]
    OBVIOUS
  <2>7. next \in Request /\ next.read \subseteq next.shown
    <3> HIDE DEF visible
    <3> QED  BY <2>1, <2>4, <2>6 DEF Request
  <2>8. page' = [page EXCEPT ![p] = next]
    <3> HIDE DEF visible
    <3> QED  BY <2>5, <2>6 DEF DiscoveryInv
  <2>9. UNCHANGED registryVars
    BY <1>3 DEF Present
  <2> QED  BY <2>7, <2>8, <2>9, PageMoves
<1>4. ASSUME NEW p \in Visits, Leave(p) PROVE DiscoveryInv'
  <2>1. Fresh \in Request /\ Fresh.pc # "shown"
    BY DEF Fresh, Request
  <2>2. page' = [page EXCEPT ![p] = Fresh] /\ UNCHANGED registryVars
    BY <1>4 DEF Leave
  <2> QED  BY <2>1, <2>2, PageMoves
<1>5. CASE UNCHANGED discoveryVars
  <2>1. UNCHANGED registryVars /\ page' = page
    BY <1>5 DEF discoveryVars
  <2> QED  BY <2>1, RegistryStutter DEF DiscoveryInv
<1> QED  BY <1>1, <1>2, <1>3, <1>4, <1>5 DEF DiscoveryNext

LEMMA DiscoveryIsInv == DiscoverySpec => []DiscoveryInv
  BY DiscoveryInitInv, DiscoveryStep, PTL DEF DiscoverySpec

\* The home page shows links of tools, whatever the managers do meanwhile.
THEOREM DiscoveryIsTyped == DiscoverySpec => []DiscoveryTypeOK
<1>1. DiscoveryInv => DiscoveryTypeOK
  BY DEF DiscoveryInv, RegistryInv, DiscoveryTypeOK
<1> QED  BY <1>1, DiscoveryIsInv, PTL

\* No link that its user may see is left out.  The filter looks for the tools among the
\* ids of the links, and as these are told apart it finds none, so that what it would
\* restrict is shown as well.
THEOREM OpenLinksStayOpen == DiscoverySpec => []OpenLinksAreShown
<1>1. DiscoveryInv => OpenLinksAreShown
  BY DEF DiscoveryInv, OpenLinksAreShown
<1> QED  BY <1>1, DiscoveryIsInv, PTL
=============================================================================
