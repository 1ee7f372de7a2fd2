----------------------------- MODULE LaunchMessage -----------------------------
(***************************************************************************)
(* The resource link message a launch ends with: who may be sent to a tool *)
(* with it, and what it says.                                              *)
(*                                                                         *)
(* The reads of a launch, one by one, the changes that come between them   *)
(* and what is answered when one of them fails are the launch flow's; here *)
(* the tool, the link and the person are read at once.  What the tool asks *)
(* for is what its rows say, as they were written when it registered.      *)
(***************************************************************************)
EXTENDS ToolRegistration

CONSTANTS
    Links,   \* the resource links
    People,  \* who may launch them
    Requests \* the authentication requests of tools

Link == [id : STRING, tool : ToolIds, deployment : STRING,
         context : {Absent} \cup STRING, custom : {Absent} \cup Parameters]
Person == [id : STRING, role : {"user", "administrator"}]
Request == [client : ToolIds, redirect : STRING, scopes : SUBSET STRING, mode : STRING,
            type : STRING, prompt : STRING, nonce : STRING]

ASSUME MessageAssumption ==
    Links \subseteq Link /\ People \subseteq Person /\ Requests \subseteq Request

-----------------------------------------------------------------------------
(***************************************************************************)
(* The request and the person.                                             *)
(***************************************************************************)
\* what the controller's schema asks for; it leaves the prompt open
LaunchLoginDto(q) == "openid" \in q.scopes /\ q.type = "id_token" /\ q.mode = "form_post"

ValidateAuthenticationRequest(q) ==
    "openid" \in q.scopes /\ q.mode = "form_post" /\ q.type = "id_token" /\ q.prompt = "none"

MapRoles(role) ==
    IF role = "administrator" THEN {"Administrator", "SysAdmin"} ELSE {"User"}

\* what the platform tells of a person
UserIdentity(p) ==
    [claim \in {"sub", "given_name", "family_name", "name", "email"} |-> p.id]

-----------------------------------------------------------------------------
(***************************************************************************)
(* May the person launch the message?                                      *)
(***************************************************************************)
DeploymentsIds(t) == {l.deployment : l \in {k \in Links : k.tool = t}}

InVocabulary(roles) == roles = {} \/ roles \cap LtiRoles # {}

MessageAllows(tool, roles) ==
    "resource_link" \in DOMAIN tool.messages /\ tool.messages["resource_link"].roles # Absent
      => tool.messages["resource_link"].roles \cap roles # {}

-----------------------------------------------------------------------------
(***************************************************************************)
(* What the message says.                                                  *)
(***************************************************************************)
\* {...f, ...g}
Spread(f, g) == [x \in DOMAIN f \cup DOMAIN g |-> IF x \in DOMAIN g THEN g[x] ELSE f[x]]

When(condition, f) == IF condition THEN f ELSE <<>>

CustomClaims(tool, l) ==
    Spread(tool.custom,
           Spread(When("resource_link" \in DOMAIN tool.messages,
                       tool.messages["resource_link"].custom),
                  OrEmpty(l.custom)))

LinkClaim(l) == [id |-> l.id]

ContextType == {"CourseTemplate", "CourseOffering", "CourseSection", "Group"}

\* every context is a course's, whose custom type is left out
CourseTypes == {"CourseOffering", "course"}
ContextClaim(l) == [id |-> l.context, type |-> CourseTypes \cap ContextType]

\* the platform's services leave the choice of scopes to the tool's registration
AllowedScopes(tool) == tool.scopes \cap AgsScopes

IntoLtiClaim(tool, l, p) ==
    LET told == [message_type |-> "resource_link", version |-> "1.3.0",
                 deployment_id |-> l.deployment, resource_link |-> LinkClaim(l),
                 roles |-> MapRoles(p.role)]
        custom == CustomClaims(tool, l)
        ofContext == When(l.context # Absent, [context |-> ContextClaim(l)])
        ofServices == When(l.context # Absent /\ AllowedScopes(tool) # {},
                           [ags |-> AllowedScopes(tool)])
    IN  Spread(Spread(UserIdentity(p), told),
               Spread(ofContext,
                      Spread(When(DOMAIN custom # {}, [custom |-> custom]), ofServices)))

\* the token's own claims come after those of the message
PrepareIdToken(claims, q) ==
    Spread(claims, [nonce |-> q.nonce, azp |-> q.client, aud |-> q.client, iss |-> "platform"])

-----------------------------------------------------------------------------
\* A person comes back from the tool with the tool's request, for a launch of link l.
AuthenticateLaunch(q, l, p) ==
    /\ LaunchLoginDto(q) /\ ValidateAuthenticationRequest(q)
    /\ row[q.client] # Absent
    /\ LET tool == LtiTool(row[q.client])
           roles == MapRoles(p.role)
       IN  /\ q.redirect \in tool.redirects
           /\ l.deployment \in DeploymentsIds(q.client)
           /\ InVocabulary(roles) /\ MessageAllows(tool, roles)
           /\ last' = [kind |-> "message", person |-> p, link |-> l,
                       claims |-> PrepareIdToken(IntoLtiClaim(tool, l, p), q)]
    /\ UNCHANGED registrationVars

MessageNext ==
    RegistrationNext \/ \E q \in Requests, l \in Links, p \in People : AuthenticateLaunch(q, l, p)

-----------------------------------------------------------------------------
(***************************************************************************)
(* Properties.                                                             *)
(***************************************************************************)
\* the roles a tool asked for when it registered its resource link message
AskedRoles(b) ==
    UNION {Range(OrEmpty(m.roles)) :
             m \in {n \in Range(b.lti.messages) : n.type = "resource_link"}}

\* If a tool asked for roles when it registered its resource link message, then whoever
\* is sent to it has one of them: the roles make it from the request through the schema,
\* the rows and the entity that is read from them to the check of the launch, and those
\* of the tool's other messages do not get among them.
OnlyAskedRolesAreSent ==
    last # Absent /\ last.kind = "message" =>
        LET asked == AskedRoles(registered[last.claims["aud"]])
        IN  asked # {} => asked \cap last.claims["roles"] # {}

=============================================================================
