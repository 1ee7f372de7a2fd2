---------------------------- MODULE ToolRegistration ----------------------------
(***************************************************************************)
(* Dynamic registration: a tool reads what the platform offers, sends its  *)
(* configuration to oidc-provider's registration endpoint, and is stored   *)
(* as rows of several tables, from which it is put together again whenever *)
(* it is looked up.                                                        *)
(*                                                                         *)
(* The rows of a tool are written in one transaction, so a registration is *)
(* one step.  The ids are fresh: nothing is ever written over.             *)
(***************************************************************************)
EXTENDS Naturals, Sequences, Functions

CONSTANTS
    ToolIds,  \* the client ids there are for tools
    Bodies,   \* what may be sent to the registration endpoint
    LtiRoles, \* the roles of LTI's vocabulary
    Params,   \* the names of custom parameters
    Values,   \* what they say
    Absent    \* `undefined`, null, no row

MessageType == {"resource_link", "deep_linking"}
Placement == {"content_area", "rich_text_editor"}
AgsScopes == {"lineitem", "lineitem.readonly", "result.readonly", "score"}
AvailableScopes == {"openid", "email", "profile", "offline_access", "membership.readonly"}
                     \cup AgsScopes

Parameters == UNION {[S -> Values] : S \in SUBSET Params}

SupportedMessage == [type : STRING, roles : {Absent} \cup Seq(STRING),
                     placements : SUBSET STRING, custom : {Absent} \cup Parameters]

\* What the platform looks at of a tool's configuration; "key" says whether the body has
\* the key of LTI's part, whatever its value.
Configuration == [messages : Seq(SupportedMessage), custom : {Absent} \cup Parameters]
Body == [application : STRING, grants : Seq(STRING), responses : Seq(STRING), auth : STRING,
         redirects : Seq(STRING), contacts : Seq(STRING), scopes : SUBSET STRING,
         jwks : BOOLEAN, key : BOOLEAN, lti : {Absent} \cup Configuration]

ASSUME RegistrationAssumption ==
    /\ Bodies \subseteq Body
    /\ Absent \notin Body /\ \A roles \in SUBSET LtiRoles : roles # Absent
    /\ \A b \in Bodies : b.lti # Absent => b.key

VARIABLES
    registered, \* registered[t]: the body that was answered with the id t
    row,        \* row[t]: the rows of tool t
    last        \* what passed last between the platform and a tool

registrationVars == <<registered, row>>

RegistrationInit ==
    /\ registered = [t \in ToolIds |-> Absent]
    /\ row = [t \in ToolIds |-> Absent]
    /\ last = Absent

-----------------------------------------------------------------------------
(***************************************************************************)
(* What the platform offers.                                               *)
(***************************************************************************)
PlatformConfiguration ==
    [extraScopes |-> AvailableScopes \ {"openid"},
     messages |-> [resource_link |-> {}, deep_linking |-> {"content_area"}]]

OpenIdConfiguration ==
    [scopes |-> {"openid"} \cup PlatformConfiguration.extraScopes,
     responses |-> {"id_token"}, auth |-> {"private_key_jwt"},
     messages |-> PlatformConfiguration.messages]

-----------------------------------------------------------------------------
(***************************************************************************)
(* What it accepts.                                                        *)
(***************************************************************************)
\* Mutant: the platform knows no other message than the one it sends.
OnlyResourceLinks(c) ==
    \A m \in Range(c.messages) : m.type = "resource_link" /\ m.placements \subseteq Placement

ConfigurationSchema(c) ==
    \A m \in Range(c.messages) :
        /\ m.type \in MessageType /\ m.placements \subseteq Placement
        /\ m.roles # Absent => Range(m.roles) \subseteq LtiRoles

DraftSchema(b) ==
    /\ b.application = "web" /\ b.auth = "private_key_jwt" /\ b.jwks
    /\ Len(b.grants) >= 2 /\ Range(b.grants) \subseteq {"client_credentials", "implicit"}
    /\ Range(b.responses) = {"id_token"}
    /\ b.redirects # <<>>
    /\ b.lti # Absent /\ ConfigurationSchema(b.lti)

\* of the extra metadata; a falsy value is let through
Validator(b) == b.lti = Absent \/ ConfigurationSchema(b.lti)

LtiToolCreate(b) ==
    /\ "id_token" \in Range(b.responses)
    /\ {"implicit", "client_credentials"} \subseteq Range(b.grants)
    /\ b.jwks /\ b.application = "web" /\ b.auth = "private_key_jwt"

TryCreateFromClientMetadata(b) == DraftSchema(b) /\ LtiToolCreate(b)

OidcClientSchema(b) == b.application \in {"web", "native"} /\ b.redirects # <<>>

-----------------------------------------------------------------------------
(***************************************************************************)
(* Rows.                                                                   *)
(***************************************************************************)
OrEmpty(f) == IF f = Absent THEN <<>> ELSE f

RolesRows(c) == UNION {{<<m.type, r>> : r \in Range(OrEmpty(m.roles))} : m \in Range(c.messages)}

\* the primary keys of the URIs, contacts, messages and roles of a client
KeysHold(b) ==
    /\ IsInjective(b.redirects) /\ IsInjective(b.contacts)
    /\ \A i, j \in DOMAIN b.lti.messages :
        b.lti.messages[i].type = b.lti.messages[j].type => i = j
    /\ \A m \in Range(b.lti.messages) : IsInjective(OrEmpty(m.roles))

MessageOf(c, type) == CHOOSE m \in Range(c.messages) : m.type = type

IntoRow(b) ==
    [redirects |-> Range(b.redirects), scopes |-> b.scopes, custom |-> OrEmpty(b.lti.custom),
     messages |-> [type \in {m.type : m \in Range(b.lti.messages)} |->
                     OrEmpty(MessageOf(b.lti, type).custom)],
     roles |-> RolesRows(b.lti)]

\* Mutant: the roles of a message are looked up by client.
RolesOfTheClient(r, type) == {x[2] : x \in r.roles}

RolesOf(r, type) == {x[2] : x \in {y \in r.roles : y[1] = type}}

\* A message without rows of roles reads as one without roles: whoever asked for the
\* empty list has asked for nothing.
LtiTool(r) ==
    [redirects |-> r.redirects, scopes |-> r.scopes, custom |-> r.custom,
     messages |-> [type \in DOMAIN r.messages |->
        [custom |-> r.messages[type],
         roles |-> IF RolesOf(r, type) = {} THEN Absent ELSE RolesOf(r, type)]]]

-----------------------------------------------------------------------------
(***************************************************************************)
(* The registration.                                                       *)
(***************************************************************************)
\* a client that is no tool is never stored: the repository throws
Answer(b) ==
    IF /\ Validator(b)
       /\ IF b.key THEN TryCreateFromClientMetadata(b) ELSE OidcClientSchema(b)
    THEN IF b.key /\ KeysHold(b) THEN "created" ELSE "server_error"
    ELSE "invalid_client_metadata"

\* idFactory gives a tool's id to a body with the key of LTI
Register(t, b) ==
    /\ registered[t] = Absent
    /\ last' = [kind |-> "answer", body |-> b, answer |-> Answer(b)]
    /\ IF Answer(b) = "created"
       THEN /\ registered' = [registered EXCEPT ![t] = b]
            /\ row' = [row EXCEPT ![t] = IntoRow(b)]
       ELSE UNCHANGED registrationVars

RegistrationNext == \E t \in ToolIds, b \in Bodies : Register(t, b)

-----------------------------------------------------------------------------
(***************************************************************************)
(* Properties.                                                             *)
(***************************************************************************)
\* what a tool does that goes by the configuration and by the specification of dynamic
\* registration, and says nothing twice
FollowsConfiguration(b) ==
    /\ b.key /\ b.lti # Absent /\ b.application = "web" /\ b.jwks
    /\ b.auth \in OpenIdConfiguration.auth
    /\ b.scopes \subseteq OpenIdConfiguration.scopes
    /\ Range(b.responses) = OpenIdConfiguration.responses
    /\ Range(b.grants) = {"implicit", "client_credentials"} /\ b.redirects # <<>>
    /\ \A m \in Range(b.lti.messages) :
        /\ m.type \in DOMAIN OpenIdConfiguration.messages
        /\ m.placements \subseteq OpenIdConfiguration.messages[m.type]
        /\ m.roles # Absent => Range(m.roles) \subseteq LtiRoles
    /\ KeysHold(b)

\* A tool that asks only for what the platform's OpenID configuration offers, and repeats
\* nothing, is registered (its name fits the column, the one that is limited): neither the
\* two schemas, nor the entity's own checks, nor the keys of the tables refuse what the
\* configuration invites.
OfferedIsAccepted ==
    last # Absent /\ last.kind = "answer" /\ FollowsConfiguration(last.body)
      => last.answer = "created"

=============================================================================
