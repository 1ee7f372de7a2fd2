# A formal model of lti-consumer-poc

The repository is an LTI 1.3 platform: it keeps courses, assignments and people, lets external
learning tools register themselves, deploys them, and launches their resources in the browser of a
user. It is a NestJS application (`src/src`) around a framework-free library of the LTI protocol
(`src/ltilib`), with PostgreSQL (through Drizzle), Redis and the `oidc-provider` package behind it.

This directory holds TLA+ modules that follow the code, TLC configurations that check them on small
instances, and proofs of their main properties for every instance. Paths below are relative to the
repository (`src/` is its root in `PROJECT.json`).

## The system

| Component | State | Operations | Where |
|---|---|---|---|
| **LTI registry** | rows of `oauth_client`, `lti_tools`, `lti_deployments`, `lti_resource_link` | register, update and delete a tool; deploy, undeploy; create and delete a link | `src/external/data-store/drizzle`, `src/modules/lti/{deployments,resource-links}` |
| **Launch flow** | the launches in Redis (with a time to live); the local variables of two handlers | initiate a launch; answer the authentication request of the tool | `ltilib/src/core/services/launch`, `ltilib/src/core/messages`, `src/modules/lti/launches` |
| **OIDC model store** | Redis documents, one list per grant, indexes by uid and user code, each with a time to live | `upsert`, `find*`, `consume`, `destroy`, `revokeByGrantId` | `src/external/data-store/redis/oidc-adapter.ts` |
| **OIDC provider** | clients; sessions, interactions, grants (in the model store) | dynamic registration, login and consent interactions | `src/modules/oidc` |
| **Launch links** | none (the local variables of the home page) | list the links a user may launch, filtered by role | `ltilib/src/core/services/launch/get-launch-links.service.ts` |
| **AGS line items** | `lti_line_items`, `external_lti_resources` | create (or find), find, container pages | `ltilib/src/assignment-and-grade`, `src/modules/lti/ags` |
| **AGS claim** | none; the claim travels in the launch message | build the claim; the guards it is used against | `ltilib/src/assignment-and-grade/services/ags-claim`, `ltilib/src/advantage` |
| **External assignments** | `assignments`, `lti_assignments`, a link | create all three in one transaction; show | `src/modules/lti/ags/services` |
| **Context tree** | `lti_context`, the contexts of `lti_deployments` | the deployment nearest to a context | `lti-tools-deployments.repository.ts` |
| **Assignments, grades, courses, enrollments** | their tables | create a course with its context, create an assignment, grade | `src/modules/assignments-and-grades`, `src/modules/courses-and-enrollments` |
| **Dynamic registration** | the rows of `oauth_client` and of `lti_tools`, its messages, roles and URIs | publish the platform's configuration; check and store a tool's; put it together again | `ltilib/src/core/{platform,tool}`, `src/modules/oidc`, `src/modules/lti` |
| **Tool JWT validation** | the platform's memory of nonces | a chain of checks on a token | `ltilib/src/security/tool-token` |
| **Sessions** | one Redis document per browser session | login, logout, guards, flash messages, error pages and redirections | `src/modules/auth`, `src/lib` |
| **Identity** | `users`, with the fields of a person | register | `src/modules/identity`, `src/modules/auth` |
| Configuration, presenters, message strings, views, keys | | conversions and wiring | the rest of `src/` |

How they interact. Every handler runs on one event loop and shares nothing with another but the databases
and, through the browser, the session; it gives up control at every `await`. What makes the code hard is
therefore always the same: *a handler decides on what it read some awaits ago*. The registry changes between
the reads of a launch; launches expire in Redis while a request for them is under way; the adapter of
oidc-provider decides about the life of a list on an answer that is already old. There are few transactions
and no locks of the code's own: keys and cascades are all that holds rows together, and a transaction covers
only the repositories that ask for it. Every await can fail, and each failure has a path of its own to a
page or to a redirection.

What makes each component correct, in a sentence: the registry keeps no row without its owner; a
launch message says what was offered, only to the tool it was offered to, only while the launch is
open, and everything else is refused for the right reason; a revoked grant's tokens are gone, a
session is found under its uid, a consumed model is seen as consumed; one line item per resource and
tag, and none for another tool's eyes; a link only for those who may launch it; an assignment is
external exactly when it has its row and its link; a grade is due; a claim names what is there, and its
container is served; the nearest deployment is found; what the platform offers it accepts, and a tool hears
only of people it asked for; a token is accepted once; a handler knows the
user who logged in, and a message is shown once; whoever was told of an account has one.

## Modules

| Module | Models | Kind |
|---|---|---|
| `LtiRegistry` | the registry's tables and the handlers that write them | component |
| `LtiLaunch` | both launch handlers, Redis' launches and clock, running beside `LtiRegistry` | component, extends `LtiRegistry` |
| `LaunchContract` | what the launch flow promises, without registry, store and clock | abstract specification |
| `OidcAdapter` | the Redis adapter of oidc-provider, Redis' expiry | component |
| `LineItems` | the line item services over their repository, await by await | component |
| `Coursework` | courses, assignments, external assignments, grades; transactions and the pool | component |
| `CourseBook` | what courses and assignments promise, without requests, rows and transactions | abstract specification |
| `Sessions` | the session of a browser, its guards, middlewares and filters | component |
| `Registration` | registration: validation, CPF, insert under unique keys | component |
| `OidcInteractions` | the prompts of login and consent, what the pages ask for, the grant | component |
| `DeploymentTree` | contexts, deployments and the recursive query | component |
| `AgsClaim` | claims and the guards that meet them later, over changing tables | component, extends `DeploymentTree` |
| `ToolToken` | the validation of a tool's JWT over time | component |
| `ToolRegistration` | the platform's configuration, what it accepts of a tool, the rows and what is read from them | component |
| `LaunchMessage` | the content of the resource link message | component, extends `ToolRegistration` |
| `ToolExchange` | all that passes directly between tool and platform | composes `ToolToken` and `LaunchMessage` |
| `LaunchLinks` | the home page's links, read while the registry changes | component, extends `LtiRegistry` |
| `MC...` | the instances TLC checks; the registry is checked under `MCLaunchLinks`, the tree under `MCAgsClaim` | model checking |
| `LtiLaunchProofs` | the invariants of the registry, of the launch flow and of the home page's links; the flow implements `LaunchContract`; refusals name the right reason | proofs |
| `ToolExchangeProofs` | a token is accepted once; what is offered is accepted; only asked roles are sent | proofs |
| `LineItemsProofs` | owners, pages and answers of line items | proofs |
| `CourseworkProofs` | what is committed is whole, grades are due, only lookups bring it to a halt, and it implements `CourseBook` | proofs |
| `SessionsProofs` | who a handler sees, messages, redirections, quiet requests | proofs |
| `OidcProofs` | the adapter: uids, in any interleaving; lists and revocations, one request at a time. Interactions: codes, pages and consents | proofs |
| `RegistrationProofs` | accounts; what parsing and formatting do to a CPF of any length | proofs |
| `AgsClaimProofs` | the query finds the nearest deployment, in any hierarchy; claims and their containers agree | proofs |

### LtiRegistry

A table is the set of its live ids, and a write-once function holds the row an id was inserted with
(`deploymentTool`, `linkRow`); only a tool's row (`toolRow`) can be rewritten. A SQL statement is one
step. Handlers that read and then write take two: `FindToolToDeploy` / `SaveDeployment` are
`deployTool`, `FindDeploymentToLink` / `CreateLink` are `create` of the resource links controller;
`admin[a]` is what the handler has read. Foreign keys decide whether the insert succeeds
(`ToolKeyHolds`, `DeploymentKeyHolds`), and deletions cascade.

`UpdateTool` and `DeleteTool` exist in the adapter (`upsert`, `destroy`), but today's configuration
of oidc-provider enables registration without its management, so nothing calls them: the constant
`RegistrationManagement` says whether they may happen. Left out here: contexts of deployments and
links (`DeploymentTree`, `AgsClaim`); the restricting foreign key of `lti_assignments` (`Coursework`;
without it this module deletes more than the database does); plain OIDC clients, which cannot be stored
(`upsertClient` throws); contacts, labels and the other columns no decision
reads.

### LtiLaunch

`initiation[i]` is a run of `initiateLaunch` and the service behind it: it reads the link
(`InitiationFindsLink`), the tool with its deployments (`InitiationFindsTool`), saves the launch
(`SaveLaunch`, `SaveLaunchFails`) and redirects the browser (`RespondInitiation`), which fixes the
offer. `login[q]` is an authentication request: the controller and `PrepareLaunchRequestService`
read the tool (`LoginFindsTool`), the launch (`LoginFindsLaunch`), the link (`LoginFindsLink`), and
then context, person and AGS claim before the message is built and signed (`LoginSendsMessage`).
Each step also has the outcomes of a repository that fails. The three last reads are one step, since
nothing the model changes can be seen by them; that a context is not set, or not found, only drops a
claim.

Any tool may send any hint it ever got, with any redirect URI; `UnknownHint` is one the platform
never made. `hintsAgree` abstracts from comparing `lti_message_hint` with `login_hint`. `closedFor`
is a history variable: whether the launch was already gone when the request arrived.

`LaunchContract` is what an observer should see: offers made once, launches that close for good, and
one answer per request, which is the offer or a refusal. `LtiLaunch!Contract` instantiates it with a
refinement mapping: a launch is closed when Redis has dropped it or its link is deleted, and an
answer is the delivered message or, for a page or an error redirection, nothing.

### OidcAdapter

`document` and `modelExpiry` are the model's keys, `listed` and `listExpiry` the list of a grant,
`index` the entries of uids (user codes are kept the same way). `upsert` of a token awaits a TTL
between queueing its commands and executing them, hence `StartUpsert` / `ExecUpsert`;
`revokeByGrantId` awaits LRANGE, hence `StartRevoke` / `ExecRevoke`; the other operations are one
command. Time is in milliseconds: EXPIRE takes seconds (`Ms`), TTL answers in seconds rounded to the nearest
(`Ttl`), and the clock goes on while an answer is awaited, for at most `Latency`. A list may therefore end
before a token it names, by up to half a second and the time TTL was awaited; the properties name this
`Slack`. `Serial` chooses between requests one at a time and requests that interleave. History
variables (`revoked`, `latest`) record what oidc-provider asked for. `Consume` leaves every document as
it is: that JSON.SET of a member changes nothing when the root is a string is a fact about Redis, taken
from its documentation; were it an error instead, `consume` would fail and the model still be found
without the property.

### LineItems

`req[r]` is a request of a tool that creates, finds or lists. Its guards, and each query it waits for, are a
step: a creation looks for an existing item (`FindExistingLineItem`), then checks its link and finds or
creates its external resource, which the code runs side by side, then inserts. `items` is the table and,
with `FromRow`, what the mapper makes of a row: the link is not restored (nor are the custom parameters,
which the module leaves out). `made` is a history variable that remembers what each item was created from.
Line items only come; no code changes or removes one. A container is listed `via` the route or by a caller
of the library's service. The route checks its query with `z.int`, which converts nothing, so every page
and every limit in a URL is refused (`FiltersAreValid`) and a tool is only ever shown the first page; the
service takes numbers, and is modelled with them. Its option of a largest limit, which the route does not
use, is left out.

### Coursework, CourseBook

`db` is what is committed, keyed by table and id; `writes[r]` what the open transaction of a request has
written. Each statement is a step, may fail (`StoreFails`), and needs a connection: the transaction's own if
the repository asks the transaction manager for it, one of the pool otherwise. A commit may succeed and its
answer be lost. Two facts of the code shape the module. The repositories that look up people and read
assignments go to the pool even inside a transaction (courses are read in the transaction), so *as many open
transactions as the pool has connections wait for each other for ever* (pg has 10 and, as `client.ts` makes
it, no timeout). Nothing in the code prevents this, and the instance reaches it with two connections;
`OnlyThePoolRunsOut` says that it is the only way to a halt. `poolSize` is chosen at the start and stays. And
the reads before the transaction may be stale when it inserts: what holds is what the keys hold. Grading has
a service but no route yet; nothing writes enrollments, which are a constant. Ids are taken in order, not reused while a
request holds them. `resource-links.controller.ts` stores links of its own, which belong to `LtiRegistry`:
the links here are those made for external assignments.

`CourseBook` says what an observer should see: a course, a local or an external assignment appears at
once, and a deployment with external assignments stays. `Coursework!Book` maps the committed tables to it.

### Sessions

express-session is modelled from how the application uses it: a request gets a copy of the session and
saves it whole at its end if it differs. That the session is saved in the step in which the answer is sent
(`Finish`) is a detail of that library. `Serve` runs the middlewares (flash messages, the mounted
user), the guards, the handler and the filters; a tab then follows redirections (`hops` counts them).
Requests of two tabs may run at the same time; *then* a late save may bring back a user who logged out,
or hand a message out twice. The history variable `overlap` remembers whether requests of a session
ever overlapped: `HandlersKnowTheUser` and `MessagesAreHandedOnce` are stated for browsers that waited
so far, and `QuietRequestsReviveNobody` says which requests are harmless in any case. REST routes behind
the middlewares take messages too and do not show them: a message handed is not always a message seen.

### Registration

A form is validated, its password hashed, and one row inserted under the unique keys of username and email
(a CPF is not unique, on purpose). The CPF is kept as a sequence of characters since its check and its
conversion differ: the check trims and asks JavaScript for a number (so "1e21..." passes), the conversion
drops separators only; a padded CPF therefore passes and is too long for its column, and the insert fails.
An error without the name of a field makes `appendError` throw, which ends in a status of 500.

### OidcInteractions

One user, one client, several authorization requests in tabs of one browser. What oidc-provider decides
(what to ask, when to resume) is external and modelled as the controller relies on it; `Show`, `Consent`,
`SaveGrant` and `Finish` are the controller's. A consent reads the grant and saves it an await later, so one
of two may lose what the other added, and that one asks again. `overtaken` is a history variable that
remembers whose grant another request saved or replaced. There is no bound on how often a request asks: with
three that save one grant it is four times, and four can undo each other without end.

A request asks for OpenID scopes, claims and scopes of resources. The page (`Page`) is that of the first
reason to ask and lists the OpenID scopes that are missing, without `openid`; what is sent from it grants what
is missing of all three kinds (`Extended`). A request that lacks only claims or scopes of resources gets an
error page, since no other page exists, and its interaction stays until it expires. `consented` and `seen`
are history variables: what was missing in the consents since the last logout, and what was on their pages.

Clients are not modelled: those of the database, read at startup and found through the adapter later, and the
fixed `test-client-1` (`provider.factory.ts:36-43`). With registration management off no client is ever
changed or deleted, so none of them can be stale; that a client is not found is an outcome of `Show`. Clients
ask for no prompt by parameter and are no native applications (either ends in an error page).

### DeploymentTree, AgsClaim

`parent` and `deployments` are rows; `MostAppropriate` is the recursive query: the path from the context
up, the rank by depth, global deployments last. Its UNION ALL would not end on a cycle of
contexts, which no writer can make: a parent must be there before its child. `Hierarchy` says whether contexts
have parents and deployments contexts, which the tables and queries provide for and today's
handlers never write.

`AgsClaim` adds links, external assignments, line items and the claims that launches have carried. A
claim is used at any later time against the guards (`Admitted`). There is no route yet that serves the line
item a claim names, only the container; a failing read while a claim is built ends the launch with
`server_error` and is part of `LtiLaunch`.

### ToolToken

Any token may be presented any number of times with any options. What runs after the signature has
been checked is synchronous and one step. The memory of nonces belongs to the platform, which is asked to
remember as long as a token lives. `validateMessageToolJwt` is called by its tests alone so
far. A vendor's prefix has to start with "http://", so "https://" is refused.

### ToolRegistration, LaunchMessage, ToolExchange

`registered` remembers the body a tool was registered with, `row` is what the tables hold of it, and `last`
what passed last between tool and platform: an answer, or a message. `Register` is a request to the
registration endpoint from the schema of the extra metadata to the answer; the adapter writes a tool's rows
in one transaction and under a fresh id, so nothing comes between. `IntoRow` and `LtiTool` are the two
mappers, with what they lose: *whoever asks for the empty list of roles has asked for none*, since a list
without rows reads as absent. Repeated messages, roles, URIs and contacts pass the schemas and then break a
primary key, which is a server error. A body without LTI's key is a plain client, which is never stored.

`AuthenticateLaunch` is what a launch that succeeds says. It reads the tool, the link and the person at
once; that they are read one after the other, and what fails in between, is `LtiLaunch`'s subject. The DTO
leaves the prompt open and the service asks for "none". `CustomClaims`, `ContextClaim` and `AllowedScopes`
are the parts of the message in the order they are spread over each other.

Left out: the metadata oidc-provider checks by itself (external), the limit of 255 characters on a
name, URLs and labels, and that the helper of roles takes an unknown name in the namespaces of IMS for a
role of its own (`undefined`).

### LaunchLinks

The page reads the links (`Open`) and then the tools that own them (`Present`), with the registry
changing in between. The query compares the ids of tools with the ids of links, so it finds nothing and the
role filter never sees a message; the finder in memory that the tests use comes to the same (its
callback returns nothing). The home page does not render the links yet, and the listing by context
is called by nothing.

## Runs

All runs use TLC; the bounds are those of the `.cfg` files. Each passing property also has a mutant:
a plausible bug, kept beside the definition it would replace, under which TLC finds the property
violated. `PROJECT.json` lists them.

| Run | Instance | What it shows |
|---|---|---|
| `launch_links` | 2 tools (with and without roles), 2 deployments, 2 links, 2 managers, updates and deletions on, 1 page; symmetry | no row is left without its owner, whatever is deleted between the read and the insert of a handler; open links are shown |
| `launch` | 2 tools with different registrations, 1 deployment, 1 link, 1 launch, 1 handler of each kind; symmetry | the invariants of the launch flow, with a tool that brings back a hint made for the other |
| `launch_live` | fair; 1 tool that is updated and deleted in between, users without the role and without a person record | the flow implements `LaunchContract`; every request is answered, every initiation ends |
| `oidc_serial` | 2 tokens of a grant, 2 ids of a session, lifetimes of 1 and 3 seconds, a clock in half seconds, requests one at a time; symmetry | lists outlive tokens and revoked tokens are gone, but for the slack; uids find the latest session |
| `oidc_revoke` | the same, two stores and one revocation interleaving | **violation**: a token stored during a revocation escapes it and every later one |
| `line_items` | 2 tools, 2 contexts, 3 links (one without assignment), 2 requests that create, find or list by the route or the service, 3 items; symmetry | the answers, owners and pages of line items, and what the last page hides |
| `coursework` | 2 requests, 3 people, 1 tool, 2 ids per table, 2 or 3 connections; symmetry | what is committed is whole and implements `CourseBook`; grades are due; only the pool brings all to a halt |
| `sessions` | 2 tabs, 2 people, 3 visits, one after the other or overlapping; symmetry | handlers know the user, messages are handed out once, redirections end, quiet requests revive nobody |
| `registration` | 3 registrations, 2 names, 2 emails, 7 texts as a CPF of 4 digits, with and without separators, too short, too long and not a number; symmetry | accounts, CPFs that are kept |
| `oidc_interactions` | 3 requests for openid, two scopes, a claim and a scope of a resource, 1 logout | codes have consents and OpenID scopes were on their pages, only the overtaken are asked again |
| `ags_claim` | 2 tools with different scopes, every hierarchy of 3 contexts, 2 each of deployments, links, items; symmetry | the nearest deployment is found; claims name the one item, their containers are served |
| `tool_exchange` | 2 tools, 11 bodies, 2 links, 2 people, 5 requests; 10 tokens, good and bad, 3 options, 3 lifetimes | what is offered is accepted, only asked roles are sent, a token is accepted once |

Why these bounds are enough to be interesting. A launch message depends on one tool, deployment, link,
launch and request; two tools bring the wrong one into play, one clock tick is enough for a launch to expire
at every step, and a deployment or link id that is deleted is never used again, so one of each shows a row
dying under a handler. Requests do not write what other requests read (except the launch they share), so one
slot of each kind, used again and again, stands for many; the proofs need none of this and hold for any
number. In the adapter the second token is what makes a list outlive its first token, and two lifetimes what
makes its expiry wrong; half seconds, the latency of one, and a clock of three of them let a TTL be rounded
either way and a list end, within the slack, before its token. Two requests are enough for every race of line items, courses and tabs, since each
property of those modules compares what one request read with what one other did; the third registration
takes the name of one and the email of the other. Pages have one or two items, so three items make a middle
page. With two connections the two requests of `coursework` can hold all of them, with three they cannot. The
three authorization requests share one scope, and what the first and the second are granted leaves the third
without anything a page could ask for. Three contexts hold a chain and a branch, and the rank of deployments compares them two by two. A
clock of three lifetimes lets a nonce be forgotten and remembered again. Of the eleven bodies three are
stored (one asks for roles in two messages, one for the empty list, one for no message) and each other one
breaks one check or key. The bounds that cap a history are `MaxTime`, `MaxTries`, `MaxVisits`, `MaxLogouts`
and the sets of ids.

What the passing properties say:

- `NoOrphans`: a stored link is in a stored deployment, a stored deployment of a stored tool.
- `DeliveredAsOffered`: a message equals the offer of its launch and goes to the tool of the offer, although
  tool, link, deployment and launch come from four reads at different times.
- `NeverDeliveredWhenClosed`: no message for a request that came after expiry or deletion.
- `RefusalsAreJustified`: a refusal that blames the launch, the link or the deployment is right. In
  particular the tool that was offered the launch never hears "invalid deployment": this needs the handler
  to read the tool *before* the link.
- `RedirectsOnlyToVerifiedUri`: redirections go to a URI of the tool that was read, and a message is only
  sent for a request whose redirect URI is one of them. The form that carries the message is posted to the
  link's target instead (`resource-link-launch.ts:278,287`).
- `ImplementsContract`: the refinement.
- `LoginsAreAnswered`, `InitiationsEnd`: liveness.
- `ListOutlivesTokens`: every token in store that has more than the slack to live is on its grant's list,
  which ends no more than the slack before it. `RevokedTokensAreGone`: a token that is found after its grant
  was revoked ends within the slack. Without the slack neither holds, even one request at a time.
- `UidFindsLatest`: see the module.
- `OwnersAgree`: link, resource and context of a stored line item are of one tool and context, although they
  are checked side by side. `AnsweredAsAsked`, `PagesKeepToTheTool`: what a tool is answered is its own.
- `LastPageHidesNothing`, `NextUntilLast`: page and count are two queries with creations in between, and this
  is what can still be relied on: a page without a next link shows all that was there when it was asked for,
  but for the pages before it. `NextUntilLast` excludes a limit of 0, which the service does not refuse and
  the last page is then divided by.
- `ExternalHasLink`, `CoursesHaveContexts`, `NoStrayLinks`, `ImplementsBook`: transactions that read beside
  themselves still commit whole.
- `GradesAreDue`: a grade fits its assignment, enrollment and instructor.
- `HandlersKnowTheUser`, `MessagesAreHandedOnce`, `QuietRequestsReviveNobody`: above. `RedirectsEnd`: an
  error that is answered by a redirection leads to a page after at most two of them.
- `OnlyThePoolRunsOut`: if all requests wait, transactions hold every connection of the pool and each awaits
  one more to look an instructor up (`LookupsHoldThePool`, which does happen); locks of rows bring nobody to
  a halt, and nothing but a connection or a lock keeps a request that is under way.
- `AccountsAreTheirs`, `CpfIsKept`: whoever is told of success has the one account, and the CPF typed.
- `CodesAreConsentedTo`, `AskedAgainOnlyIfOvertaken`: a lost consent costs a question, never a code without
  consent, and a consent nobody interferes with is not lost. Consent means that a form was sent: of the OpenID
  scopes but `openid` the property says that they were on it, of claims and scopes of resources it cannot.
- `NearestIsFound`: the query against a definition by sets.
- `ClaimsNameTheOnlyItem`, `ClaimedContainersAreServed`, `AdmittedToolsAreTold`: what is told and what is
  served agree, also much later.
- `AcceptedOnce`: tokens that come back.
- `OfferedIsAccepted`: two schemas, an entity and the tables' keys, each written apart from the
  configuration that tools read, let through whatever it invites.
- `OnlyAskedRolesAreSent`: the roles a tool asked for its message arrive at the check of a launch, through
  two mappers, and those of its other messages do not get among them.
- `OpenLinksAreShown`: a registry that changes between the two reads hides no link the user may see.

**Types.** Every module states the type of its variables. No run lists these invariants, whose only use is
to carry proofs: the proof modules prove them, `OidcProofs` of the adapter and `RegistrationProofs` as much
as they use. `ToolExchangeProofs` does so for tokens and for what a registration stores.

**Fairness.** Only the launch flow has a fair specification. `FairSpec` assumes weak fairness of each
handler's next step: the event loop runs a callback that is ready, and PostgreSQL and Redis answer or fail
(a failed call is an outcome of the step, so fairness never assumes success). Nothing is assumed of users,
tools, managers or the clock. Elsewhere what must end is bounded by an invariant instead, which needs no
fairness: `RedirectsEnd`, `OnlyThePoolRunsOut`, `NextUntilLast`.

**Deadlock.** Runs switch the check off where the system really may come to rest within the bounds: the
sessions' (every visit made), the registrations' (every request answered) and the interactions' (every
authorization request ended). In the others something can always happen, if only, when the pool of
`coursework` has run out, that a statement fails.

## Disagreements between code and documentation

One is checked by a run of its own. `revokeByGrantId` lists the tokens, and deletes them and the list after
an await. A token stored in between is on no list any more: neither this revocation nor a later one
reaches it (`oidc_revoke`; `src/modules/oidc/adapter/README.md:171-172`).

The modules also show the following, each of which is modelled as the code has it. No property asserts what
the document says.

- `consume` sets a member of a JSON string, so a consumed model is found without `consumed` (the same
  README, lines 160-162).
- `upsertTool` says it replaces a tool's sets but only adds message roles (`UpdateTool`; comment at
  `lti-tools.repository.ts:100-102`). Not reachable with today's configuration.
- An item for the same resource and tag is to be returned, not created again; the lookup compares a tool
  with a resource id and finds none (`FindByExternalResourceAndTag`;
  `create-line-item.service.spec.ts:626-627`), unless an external id is also a tool's id, when it may find
  another's.
- A line item on a link without assignment is stored without the link, and every tool lists it
  (`ResolveAssignment`, `ContainerAccess`; `line-items.repository.ts:42`).
- The next, previous and last links of a container cannot be followed: the route that sends them refuses each
  page and limit of a URL (`FiltersAreValid`; `line-items-container-filters.dto.ts:14-21`).
- The consent is said to solve one reason per time, with the user asked again for the others; one form grants
  what is missing for all of them, and the reasons other than scopes have no page (`Extended`, `Show`; comment
  at `oidc.controller.ts:93-95`).
- Line items are read back without their link, so another tool's is found by its id (`FromRow`;
  `find-line-item.service.spec.ts:215`).
- A CPF with a letter is accepted when JavaScript reads it as a number (`ValidCpf`; `cpf.spec.ts:17`).
- A global deployment is given the context that was asked for (`FindDeploymentInContextTreeOrGlobal`;
  `tool-deployment.ts:7`).
- With a vendor's validator the answer lacks the claims every token has (`PerformVendorValidations`;
  `validate-message-tool-jwt.ts:84`).
- Links of tools that ask for roles are shown to everybody (`FindToolsOwningResourceLinks`;
  `discovering-resource-links.md:131`).

## Proofs

TLAPS checks the proof modules, for any finite or infinite sets of tools, deployments, links, managers,
users, launches and requests, any `LaunchTtl` and any `MaxTime`, and likewise for the constants of the other
components. The only assumptions are those stated in the component modules (`...Assumption`), which say that
the constants have their types, that sets the code keeps finite are finite, and that `None` or `Absent` is
none of the values it stands beside. `RoutesAssumption` of `Sessions` lists what the controllers declare:
which routes are guarded, and which page an error filter redirects to; `LaunchLinksAssumption` says that no id
is a tool's and a link's. Where a theorem needs more, its statement says so: `IdsAreApart`, `Serial`, and
fewer contexts than the rank of global deployments.

*Registry.* `RegistryInv` is the type invariant with `NoOrphans`, and is inductive: the foreign keys
are needed in the two inserts, the cascades in the deletions. `RegistryStep` has one step per
action; `RegistryIsTyped` and `RegistryHasNoOrphans` follow.

*Launch.* The properties are about what handlers read some time ago, so none is inductive by itself.
`LaunchInv` adds the reason they hold: rows are written once, so what a handler knows of a link and of its
deployment's tool can become *dead* but never *wrong*. Its parts:

- `LinkHistory`: a link that was ever stored was stored in a deployment that had a tool;
- `StoredLaunchesInv`, `OffersInv`: a stored launch names a link that was stored, and an offer is a
  function (`OfferOf`) of the launch and the write-once rows;
- `InitiationInv`: what an initiation has read agrees with the rows, step by step;
- `LoginInv`: the same for a request, with what its answer says of the offer; and a request that
  came too late finds the launch expired or the link deleted, since neither ever comes back.

`Evolves` collects how the world may change under a handler (rows keep their content, dead links
stay dead, launches and offers stay, time does not go back); each of the invariant's parts is kept
by any step that leaves the handler alone and evolves the world, and by each of the handler's steps
(`LaunchStep`). `LaunchIsTyped`, `LaunchHasNoOrphans`, `MessagesAreOffers`,
`ClosedLaunchesStayClosed` and `RedirectsAreVerified` are corollaries.

*Refinement.* `LaunchRefinesContract` shows `Contract!Spec` under the mapping of `LtiLaunch`: the
offers are the offers, a launch is closed when Redis has dropped it or its link is deleted, a question
is what a request arrived with, and an answer is the offer of its message or nothing.
`ContractStep` maps every step allowed by `LaunchInv`: a request's arrival is `Ask`, the response of
an initiation `MakeOffer` (or a `Close` that closes nothing, if the offer is there already), a
handler's last step `Deliver` or `Refuse`, its other steps stutters, and what is left can only close
launches (`LaunchesClose`, from `Evolves`).

*Refusals.* `RefusalInv` adds to `LaunchInv` what a request knows of its deployment. It rests on the
order of the reads: the tool is read before the link, so a link that is live when it is read was live
when the tool was, and so was its deployment, by `NoOrphans`; the deployment is therefore among those
read with the tool, unless the tool is another's. If the two reads were swapped, a tool could be
told that its own deployment is invalid.

*Tokens.* That a token was accepted says nothing of the next time by itself. `TokenInv` adds
`SeenSinceIssued`: the nonce of an accepted token was seen no earlier than the token was issued. When
the nonce is fresh again more than a lifetime has passed since it was seen (`FirstTime`), so more has
passed since the token was issued, and the check of its age refuses it.

*Line items.* `LineItemsInv` is inductive. `ItemsInv`: a row is what `made` says it was created from, and
its link could be attached then, so its assignment, tool and context agree. `ServiceInv`: what a request has
read so far agrees with the rows, which only come (`Grows`). Pages are cut from the order of the ids, and the
count is queried after the page; an item that was there when the page was asked for has as many of the items
of then before it as ever, and whatever comes in between only adds to those (`RanksGrow`). So one that is not
on the page sorts before it, or behind it (`PageInv`), and if it sorts behind, the count is large enough for a
next link. That creations are
answered as asked holds only if no external id is also a tool's id (`IdsAreApart`), because of the column
that the lookup compares.

*Adapter.* `SessionInv` needs no assumption on the order of requests: MULTI writes document and uid
together. With one request at a time, `SerialInv` adds that between an answer and its use only the clock goes on
(`AloneInv`), so that what TTL and LRANGE told is off by the time they were awaited. `ListsInv` is about the
life of a list (`LifeOfTheList`): an extension lengthens it, and one that is left alone lacks no more than the
half second TTL rounds by (`TtlTells`) and the time of the await. A push on a list that has just vanished
makes one that never expires; the token that is pushed then has no more than the slack to live, and the next
store finds a TTL of -1 and gives the list an end again. So the list holds every token of the grant but those
about to go, and LRANGE names all that a revocation has to delete. With interleaving requests neither
property holds (`oidc_revoke`).

*Registration.* `AccountsInv`: rows differ in username and in email, and the row of a request that was
told of success is there, since no row goes or changes. The unique keys, not the validation some
awaits before, are what the step of the insertion rests on. `CpfsInv` keeps what the validation found for the
steps after it; the rest of `CpfIsKept` is about texts of any length. `Without` is a recursive function; what
it keeps is shown by induction (`KeptSteps`, `WithoutConcat`: leaving a letter out of a text put together
leaves it out of the parts), so that formatting splits a text of digits into the parts that parsing puts
together again (`FormattedIsKept`).

*Coursework.* `CourseworkInv`. Requests read beside their transactions, so nothing follows from what they
have read, except for rows that never change or go. The invariant says instead *what an open transaction has
written*: a function (`Pending`) of how far its request has come, so at its commit it is complete. `Whole`
says what a set of rows must be like, and holds of the committed ones because it held of them before and the
rows that are added at once are whole together; `FreshInv` keeps the ids of two requests apart, `Sees` says
what a request knows of the rows it found, and `Due` what makes a grade fit. `CourseworkImplementsBook` then
maps every commit to one action of `CourseBook` and every other step to a stutter (`BookStep`).
`OnlyLookupsHalt` is about the pool and the locks, for any number of connections: who holds a lock of a row
has written one, so its remaining statements run on its own connection (`WritersGoOn`) and it does not wait;
if nobody waits for a lock everyone waits for a connection, only transactions hold one (`TransactionsInv`), and
the one thing for which a transaction goes to the pool is the instructor (`TransactionsAwaitLookups`).

*Sessions.* `SessionsInv` follows one request at a time (`RequestOK`): what the copy of the session says
against what is stored. As long as no two requests of a session overlapped (`AloneInv`) the copy is the
session, so whoever was mounted is who is logged in, and a message taken out is taken out for good. Messages
are numbered (`Numbered`), so handed once means handed with a number never used again. `RedirectsEnd` rests
on the routes: a redirection of a filter leads to a page whose own guards send nobody on twice.

*Interactions.* `InteractionsInv`: all that is in the grant of the session was consented to
(`CurrentIsConsentedTo`), what was consented to was on the pages as far as pages show it, a grant of before a logout is never the session's again (`OldIsNotCurrent`), and
what an interaction will add is consented to or belongs to a session that is over (`FlowOK`). A consent that
overwrites what another tab added takes permissions away, never adds one, which is why the race is harmless to
codes. `EnoughInv` adds, of a request that is not overtaken, that its grant is the session's and that what
it found missing, with what the grant holds, is all it asks for; at its resumption nothing is missing
(`OnlyTheOvertakenAreAskedAgain`).

*Discovery.* `DiscoveryInv` adds to `RegistryInv` what a page that is shown has left out: nothing. Whatever
managers do between the two reads, the filter looks for tools among the ids of links, finds none, and so
restricts none (`OpenLinksStayOpen`). The hypothesis that ids are apart is needed.

*Claims.* The query of deployments is a recursion along parents. By induction (`AscentDescends`,
`AscentReachesRoot`) the ascent never comes back to a context it passed, so it reaches the root before the
contexts run out, and its path is the set of the contexts that hold the first one (`HoldersAreAscended`). The
smallest rank on it is then the nearest deployment (`TheQueryFindsTheNearest`). `AgsInv` says, beside the
types, where a link of an external assignment comes from (`LinksInv`: a deployment that reaches its context) and
what a claim owes to its link (`ClaimsInv`): neither such a link nor its deployment is ever deleted, so a
container that was told stays served.

*Exchange.* Besides `TokenInv`, `RegistrationInv` says that the rows of a tool are those of the body it was
registered with and that this body was accepted, so its message types are distinct and the roles read back
for a message are the ones asked for it. That what is sent names the tool and the roles of the person it was
checked against needs what spreading one object over another keeps (the lemmas about `Spread`).
`OfferedIsAlwaysAccepted` needs no history: `FollowsConfiguration` implies each of the checks in turn.

*Induction.* The library's theorems on induction take an operator, which the provers cannot instantiate.
`RegistrationProofs` and `AgsClaimProofs` use a set instead: a set of naturals with the first one and the
successor of each member has them all (`Induction`, from the well-foundedness of `<`).

*Only model-checked.* Liveness (`LoginsAreAnswered`, `InitiationsEnd`) is out of the prover's reach, as is
ENABLED: of `OnlyThePoolRunsOut` the first half is proved (`OnlyLookupsHalt`), and that a request which need not
wait can take a step is checked by TLC.

## Not modelled

Signing and key handling, password hashing, the protocol of oidc-provider itself, the wording and
rendering of pages, message strings, presenters, configuration and views: conversions or other people's
code, without state that anything here depends on. Operations that exist as methods and are called by no
handler (releasing grades, changing enrollments, plain OIDC clients, links by context) have no action.

## Plan

1. (done) `LtiRegistry`, `LtiLaunch` with its contract, `OidcAdapter`, with proofs of the first two.
2. (done) `LineItems` with its paging, `Coursework` with `CourseBook`, `Sessions`, `Registration`,
   `OidcInteractions`, `DeploymentTree`, `AgsClaim`, `ToolToken` with its proof, `LaunchLinks`.
3. (done) Proofs of `LineItems`, `OidcAdapter`, `Registration`, `Coursework` with its refinement of `CourseBook`,
   `Sessions` and `OidcInteractions`.
4. (done) `ToolRegistration`, `LaunchMessage` and `ToolExchange`, with proofs.
5. (done) Proofs of `AgsClaim` and its tree, of `LaunchLinks`, of the CPFs of `Registration`, and
   what can bring the requests of `Coursework` to a halt.
