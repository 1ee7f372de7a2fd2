----------------------------- MODULE LtiLaunch -----------------------------
(***************************************************************************)
(* The LTI 1.3 resource link launch: a user of the platform initiates the  *)
(* launch of a link, the tool answers with an authentication request that  *)
(* carries the launch id back, and the platform answers that request with  *)
(* a signed launch message, an error redirection or an error page.         *)
(*                                                                         *)
(* Both handlers read the registry, Redis and the people one await at a    *)
(* time, keep what they read, and decide on it later, while registry       *)
(* requests, other handlers and the clock go on.  Every await is a step.   *)
(*                                                                         *)
(* The steps between two awaits that touch nothing shared belong to the    *)
(* step before them.  A repository failure is a possible outcome of every  *)
(* await.                                                                  *)
(***************************************************************************)
EXTENDS LtiRegistry, Naturals

CONSTANTS
    Users,       \* users with a session
    People,      \* the users with a complete person record
    RolesOf,     \* RolesOf[u]: the LTI roles of user u
    Launches,    \* launch ids (uuid)
    UnknownHint, \* a launch id the platform never made
    Initiations, \* concurrent requests that initiate a launch
    Logins,      \* concurrent authentication requests
    LaunchTtl,   \* how long Redis keeps a launch
    MaxTime      \* bound of the clock

ToolSnapshot == [redirects : SUBSET RedirectUris, roles : SUBSET Roles,
                 deployments : SUBSET Deployments]
LinkSnapshot == [deployment : Deployments, url : Urls \cup {None}, tool : Tools]
LaunchData == [user : Users, link : Links, target : Urls, expiresAt : Nat]
Offer == [tool : Tools, deployment : Deployments, link : Links, target : Urls, user : Users]
Hints == Launches \cup {UnknownHint}

Pages == {"malformed_request", "tool_not_found", "invalid_redirect_uri", "external_error",
          "invalid_deployment", "insufficient_roles", "not_signed"}
Redirections == {"malformed_launch", "server_error", "launch_not_found",
                 "link_not_found", "login_required"}
Answer == [kind : {"page"}, error : Pages]
            \cup [kind : {"redirect"}, error : Redirections, uri : RedirectUris]
            \cup [kind : {"message"}, message : Offer]

InitiationState == [pc : {"idle", "link", "tool", "save", "respond"},
                    user : Users \cup {None}, link : Links \cup {None},
                    row : LinkSnapshot \cup {None}, target : Urls \cup {None},
                    launch : Launches \cup {None}]
Steps == {"tool", "launch", "link", "message"}
LoginState == [pc : {"idle", "answered"} \cup Steps,
               tool : Tools \cup {None}, uri : RedirectUris \cup {None},
               hint : Hints \cup {None}, hintsAgree : BOOLEAN,
               snapshot : ToolSnapshot \cup {None}, launch : LaunchData \cup {None},
               link : LinkSnapshot \cup {None}, answer : Answer \cup {None}]

ASSUME LaunchAssumption ==
    /\ People \subseteq Users
    /\ RolesOf \in [Users -> SUBSET Roles]
    /\ UnknownHint \notin Launches
    /\ LaunchTtl \in Nat \ {0} /\ MaxTime \in Nat
    /\ None \notin Users \cup Launches \cup RedirectUris \cup Hints
    /\ None \notin ToolSnapshot /\ None \notin LinkSnapshot
    /\ None \notin LaunchData /\ None \notin Offer /\ None \notin Answer

VARIABLES
    now,        \* the clock of Redis
    launches,   \* launches[h]: what Redis was told to keep under h, None before
    offers,     \* offers[h]: the initiation request the browser took to the tool
    initiation, \* initiation[i]: the progress of an initiation handler
    login,      \* login[q]: the progress of an authentication request
    closedFor   \* history: closedFor[q] says whether, when q arrived, its launch had
                \* expired or its link was deleted

launchVars == <<now, launches, offers, initiation, login, closedFor>>
vars == <<registryVars, launchVars>>

IdleInitiation == [pc |-> "idle", user |-> None, link |-> None, row |-> None,
                   target |-> None, launch |-> None]
IdleLogin == [pc |-> "idle", tool |-> None, uri |-> None, hint |-> None,
              hintsAgree |-> TRUE, snapshot |-> None, launch |-> None, link |-> None,
              answer |-> None]

Init ==
    /\ RegistryInit
    /\ now = 0
    /\ launches = [h \in Launches |-> None]
    /\ offers = [h \in Launches |-> None]
    /\ initiation = [i \in Initiations |-> IdleInitiation]
    /\ login = [q \in Logins |-> IdleLogin]
    /\ closedFor = [q \in Logins |-> FALSE]

-----------------------------------------------------------------------------
(***************************************************************************)
(* What a read returns                                                     *)
(***************************************************************************)

ReadTool(t) == [redirects |-> toolRow[t].redirects, roles |-> toolRow[t].roles,
                deployments |-> DeploymentsOf(t)]

ReadLink(l) == [deployment |-> linkRow[l].deployment, url |-> linkRow[l].url,
                tool |-> deploymentTool[linkRow[l].deployment]]

\* Redis drops a key when its time to live has passed.
InRedis(h) == h \in Launches /\ launches[h] # None /\ now < launches[h].expiresAt

-----------------------------------------------------------------------------
(***************************************************************************)
(* Initiating a launch                                                     *)
(***************************************************************************)

GiveUp(i) == initiation' = [initiation EXCEPT ![i] = IdleInitiation]

StartInitiation(i, u, l) ==
    /\ initiation[i].pc = "idle"
    /\ initiation' = [initiation EXCEPT ![i] =
                        [IdleInitiation EXCEPT !.pc = "link", !.user = u, !.link = l]]
    /\ UNCHANGED <<registryVars, now, launches, offers, login, closedFor>>

InitiationFindsLink(i) ==
    /\ initiation[i].pc = "link"
    /\ \/ GiveUp(i)
       \/ /\ initiation[i].link \in liveLinks
          /\ initiation' = [initiation EXCEPT ![i].pc = "tool",
                                              ![i].row = ReadLink(initiation[i].link)]
    /\ UNCHANGED <<registryVars, now, launches, offers, login, closedFor>>

\* A launch opens the URL of the link, else that of the tool's message, else the tool's.
ResolveTarget(link, tool) ==
    IF link.url # None THEN link.url
    ELSE IF tool.messageTarget # None THEN tool.messageTarget
    ELSE tool.target

\* The tool's deployments are the ones of this read: the link's may be gone by now.
InitiationFindsTool(i) ==
    /\ initiation[i].pc = "tool"
    /\ \/ GiveUp(i)
       \/ LET row == initiation[i].row
          IN  /\ row.tool \in liveTools
              /\ row.deployment \in ReadTool(row.tool).deployments
              /\ initiation' = [initiation EXCEPT ![i].pc = "save",
                                     ![i].target = ResolveTarget(row, toolRow[row.tool])]
    /\ UNCHANGED <<registryVars, now, launches, offers, login, closedFor>>

\* JSON.SET and EXPIRE go in one MULTI.  When the reply is lost the handler gives up on a
\* launch that Redis stores all the same.
SaveLaunch(i, h) ==
    LET data == [user |-> initiation[i].user, link |-> initiation[i].link,
                 target |-> initiation[i].target, expiresAt |-> now + LaunchTtl]
    IN  /\ initiation[i].pc = "save"
        /\ launches[h] = None
        /\ launches' = [launches EXCEPT ![h] = data]
        /\ \/ initiation' = [initiation EXCEPT ![i].pc = "respond", ![i].launch = h]
           \/ GiveUp(i)
        /\ UNCHANGED <<registryVars, now, offers, login, closedFor>>

\* Mutant: saving is retried for ever.
SaveLaunchRetries(i) ==
    /\ initiation[i].pc = "save"
    /\ UNCHANGED vars

SaveLaunchFails(i) ==
    /\ initiation[i].pc = "save"
    /\ GiveUp(i)
    /\ UNCHANGED <<registryVars, now, launches, offers, login, closedFor>>

\* The browser is redirected to the tool with the initiation request.
RespondInitiation(i) ==
    LET st == initiation[i]
    IN  /\ st.pc = "respond"
        /\ offers' = [offers EXCEPT ![st.launch] =
                        [tool |-> st.row.tool, deployment |-> st.row.deployment,
                         link |-> st.link, target |-> st.target, user |-> st.user]]
        /\ GiveUp(i)
        /\ UNCHANGED <<registryVars, now, launches, login, closedFor>>

-----------------------------------------------------------------------------
(***************************************************************************)
(* Answering an authentication request                                     *)
(***************************************************************************)

\* The request ends with answer a; the handler's other variables are gone.
Answered(q, a) == [login[q] EXCEPT !.pc = "answered", !.hintsAgree = TRUE,
                                   !.launch = None, !.link = None, !.answer = a]
Redirection(q, error) == [kind |-> "redirect", error |-> error, uri |-> login[q].uri]

Reply(q, a) == login' = [login EXCEPT ![q] = Answered(q, a)]
Page(q, error) == Reply(q, [kind |-> "page", error |-> error])
Redirect(q, error) == Reply(q, Redirection(q, error))

LoginFrame == UNCHANGED <<registryVars, now, launches, offers, initiation, closedFor>>

Offered == {h \in Launches : offers[h] # None}
Closed(h) == ~InRedis(h) \/ launches[h].link \notin liveLinks

\* Any tool may send any hint it got from the platform, or one the platform never made,
\* with any redirect URI.
StartLogin(q, t, uri, h, agree) ==
    /\ login[q].pc \in {"idle", "answered"}
    /\ h \in Offered \cup {UnknownHint}
    /\ closedFor' = [closedFor EXCEPT ![q] = Closed(h)]
    /\ login' = [login EXCEPT ![q] =
                   [IdleLogin EXCEPT !.pc = "tool", !.tool = t, !.uri = uri,
                                     !.hint = h, !.hintsAgree = agree]]
    /\ UNCHANGED <<registryVars, now, launches, offers, initiation>>

\* Mutant: the hints are compared before the redirect URI is checked.
LoginComparesHintsFirst(q) ==
    LET t == login[q].tool
    IN  /\ login[q].pc = "tool"
        /\ \/ t \notin liveTools /\ Page(q, "tool_not_found")
           \/ /\ t \in liveTools
              /\ IF ~login[q].hintsAgree
                   THEN login' = [login EXCEPT ![q] = [Answered(q, Redirection(q, "malformed_launch"))
                                                         EXCEPT !.snapshot = ReadTool(t)]]
                 ELSE IF login[q].uri \notin ReadTool(t).redirects
                   THEN Page(q, "invalid_redirect_uri")
                 ELSE login' = [login EXCEPT ![q].pc = "launch",
                                             ![q].snapshot = ReadTool(t)]
        /\ LoginFrame

\* The tool named by client_id is read, its redirect URI checked, and only then the two
\* hints compared: a redirection goes to a URI the tool registered.
LoginFindsTool(q) ==
    LET t == login[q].tool
    IN  /\ login[q].pc = "tool"
        /\ \/ Page(q, "malformed_request")
           \/ Page(q, "external_error")
           \/ t \notin liveTools /\ Page(q, "tool_not_found")
           \/ /\ t \in liveTools
              /\ IF login[q].uri \notin ReadTool(t).redirects
                   THEN Page(q, "invalid_redirect_uri")
                 ELSE IF ~login[q].hintsAgree
                   THEN login' = [login EXCEPT ![q] = [Answered(q, Redirection(q, "malformed_launch"))
                                                         EXCEPT !.snapshot = ReadTool(t)]]
                 ELSE login' = [login EXCEPT ![q].pc = "launch",
                                             ![q].snapshot = ReadTool(t)]
        /\ LoginFrame

\* Mutant: a launch is found even though its time to live has passed.
LoginFindsExpiredLaunch(q) ==
    /\ login[q].pc = "launch"
    /\ login[q].hint \in Offered
    /\ login' = [login EXCEPT ![q].pc = "link", ![q].launch = launches[login[q].hint]]
    /\ LoginFrame

LoginFindsLaunch(q) ==
    LET h == login[q].hint
    IN  /\ login[q].pc = "launch"
        /\ \/ Redirect(q, "server_error")
           \/ ~InRedis(h) /\ Redirect(q, "launch_not_found")
           \/ /\ InRedis(h)
              /\ login' = [login EXCEPT ![q].pc = "link", ![q].launch = launches[h]]
        /\ LoginFrame

\* Mutant: a link is found even though it was deleted.
LoginFindsDeletedLink(q) ==
    /\ login[q].pc = "link"
    /\ login' = [login EXCEPT ![q].pc = "message",
                              ![q].link = ReadLink(login[q].launch.link)]
    /\ LoginFrame

\* Mutant: a link that is not found is looked up again, from the launch on.
LoginRetriesLink(q) ==
    LET l == login[q].launch.link
    IN  /\ login[q].pc = "link"
        /\ \/ l \notin liveLinks /\ login' = [login EXCEPT ![q].pc = "launch"]
           \/ /\ l \in liveLinks
              /\ login' = [login EXCEPT ![q].pc = "message", ![q].link = ReadLink(l)]
        /\ LoginFrame

LoginFindsLink(q) ==
    LET l == login[q].launch.link
    IN  /\ login[q].pc = "link"
        /\ \/ Redirect(q, "server_error")
           \/ l \notin liveLinks /\ Redirect(q, "link_not_found")
           \/ /\ l \in liveLinks
              /\ login' = [login EXCEPT ![q].pc = "message", ![q].link = ReadLink(l)]
        /\ LoginFrame

\* The message is built from what the earlier steps read.
LaunchMessage(q) == [tool |-> login[q].tool, deployment |-> login[q].link.deployment,
                     link |-> login[q].launch.link, target |-> login[q].launch.target,
                     user |-> login[q].launch.user]

\* Mutant: the link's deployment is not compared with the tool's.
AnyDeployment(q) == TRUE

DeploymentOfTool(q) == login[q].link.deployment \in login[q].snapshot.deployments

MayLaunch(q) ==
    LET allowed == login[q].snapshot.roles
    IN  allowed = {} \/ allowed \cap RolesOf[login[q].launch.user] # {}

\* The context, the user's record and the AGS claim are fetched one after the other.  None
\* of these reads can see a change of the variables above, so they form one step with the
\* message.  No identity comes with the request: it is that of the user who initiated.  A
\* context that is not set or not found is left out.
LoginSendsMessage(q) ==
    LET u == login[q].launch.user
    IN  /\ login[q].pc = "message"
        /\ \/ Page(q, "external_error")
           \/ Redirect(q, "server_error")
           \/ u \notin People /\ Redirect(q, "login_required")
           \/ /\ u \in People
              /\ IF ~DeploymentOfTool(q) THEN Page(q, "invalid_deployment")
                 ELSE IF ~MayLaunch(q) THEN Page(q, "insufficient_roles")
                 ELSE \/ Page(q, "not_signed")
                      \/ Reply(q, [kind |-> "message", message |-> LaunchMessage(q)])
        /\ LoginFrame

-----------------------------------------------------------------------------
Tick ==
    /\ now < MaxTime
    /\ now' = now + 1
    /\ UNCHANGED <<registryVars, launches, offers, initiation, login, closedFor>>

InitiationStep(i) ==
    \/ InitiationFindsLink(i)
    \/ InitiationFindsTool(i)
    \/ \E h \in Launches : SaveLaunch(i, h)
    \/ SaveLaunchFails(i)
    \/ RespondInitiation(i)

LoginStep(q) ==
    \/ LoginFindsTool(q)
    \/ LoginFindsLaunch(q)
    \/ LoginFindsLink(q)
    \/ LoginSendsMessage(q)

Next ==
    \/ RegistryNext /\ UNCHANGED launchVars
    \/ \E i \in Initiations, u \in Users, l \in Links : StartInitiation(i, u, l)
    \/ \E i \in Initiations : InitiationStep(i)
    \/ \E q \in Logins, t \in Tools, uri \in RedirectUris, h \in Hints, agree \in BOOLEAN :
         StartLogin(q, t, uri, h, agree)
    \/ \E q \in Logins : LoginStep(q)
    \/ Tick

Spec == Init /\ [][Next]_vars

\* The event loop runs a handler that has something to run, and PostgreSQL and Redis
\* answer or fail.  Nobody has to start a request.
FairSpec ==
    /\ Spec
    /\ \A i \in Initiations : WF_vars(InitiationStep(i))
    /\ \A q \in Logins : WF_vars(LoginStep(q))

-----------------------------------------------------------------------------
(***************************************************************************)
(* Correctness                                                             *)
(***************************************************************************)
\* Every variable of the launch flow holds a value of its type.
TypeOK ==
    /\ RegistryTypeOK
    /\ now \in Nat
    /\ launches \in [Launches -> LaunchData \cup {None}]
    /\ offers \in [Launches -> Offer \cup {None}]
    /\ initiation \in [Initiations -> InitiationState]
    /\ login \in [Logins -> LoginState]
    /\ closedFor \in [Logins -> BOOLEAN]

Got(q, kind) == login[q].answer # None /\ login[q].answer.kind = kind
RefusedWith(q, error) == (Got(q, "page") \/ Got(q, "redirect")) /\ login[q].answer.error = error

\* A launch message says what the platform offered when the launch was initiated: the same
\* tool, deployment, link, target URL and user, and it only reaches the tool of the offer,
\* although the handler takes each from a read of its own (execute of
\* PrepareLaunchRequestService) and the registry may have changed since the initiation.
DeliveredAsOffered ==
    \A q \in Logins : Got(q, "message") =>
        /\ login[q].answer.message = offers[login[q].hint]
        /\ login[q].tool = offers[login[q].hint].tool

\* A request that arrived after its launch expired or its link was deleted gets no message,
\* whatever happens while the handler runs (the lookups of findLaunchData and
\* findResourceLink come long after the request).
NeverDeliveredWhenClosed ==
    \A q \in Logins : Got(q, "message") => ~closedFor[q]

\* A refusal that blames the launch is right.  The tool that was offered the launch is told
\* "invalid deployment" never; "launch not found" only about a launch that has
\* expired or was never offered; "link not found" only about a link that is gone for good.
\* An offer in the browser is thus never ahead of what Redis and PostgreSQL hold.
RefusalsAreJustified ==
    \A q \in Logins :
        LET h == login[q].hint
        IN  /\ RefusedWith(q, "invalid_deployment") => login[q].tool # offers[h].tool
            /\ RefusedWith(q, "launch_not_found") /\ h # UnknownHint => ~InRedis(h)
            /\ RefusedWith(q, "link_not_found") => launches[h].link \notin liveLinks

\* The browser is redirected, and a message sent, only on behalf of a request whose
\* redirect URI was among the URIs of the tool the handler read: verifyRedirectUri is to
\* come before every check that redirects.
RedirectsOnlyToVerifiedUri ==
    \A q \in Logins : Got(q, "redirect") \/ Got(q, "message") =>
        /\ login[q].snapshot # None
        /\ login[q].uri \in login[q].snapshot.redirects

\* Every authentication request is answered and every initiation ends: no chain of awaits
\* leaves a handler waiting.
LoginsAreAnswered == \A q \in Logins : login[q].pc \in Steps ~> login[q].pc = "answered"
InitiationsEnd == \A i \in Initiations : initiation[i].pc # "idle" ~> initiation[i].pc = "idle"

-----------------------------------------------------------------------------
(***************************************************************************)
(* The flow implements its contract                                        *)
(***************************************************************************)
ClosedOffers == {h \in Offered : Closed(h)}
Question(q) == [tool |-> login[q].tool, hint |-> login[q].hint, open |-> ~closedFor[q]]
Asked == [q \in Logins |-> IF login[q].pc = "idle" THEN None ELSE Question(q)]
Outcome(q) == IF Got(q, "message") THEN {login[q].answer.message} ELSE {}
Outcomes == [q \in Logins |-> IF login[q].pc = "answered" THEN Outcome(q) ELSE None]

Contract == INSTANCE LaunchContract WITH
    Requests <- Logins, closed <- ClosedOffers, asked <- Asked, answer <- Outcomes

ASSUME ContractAssumption ==
    /\ None \notin [tool : Tools, hint : Hints, open : BOOLEAN]
    /\ None # {} /\ \A o \in Offer : None # {o}

\* Whatever happens to the registry, to Redis and in the awaits of the two handlers, an
\* observer sees the contract: offers that never change, launches that never reopen, and
\* one answer per request, which is the offer or a refusal.
ImplementsContract == Contract!Spec

=============================================================================
