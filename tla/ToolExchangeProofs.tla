--------------------------- MODULE ToolExchangeProofs ---------------------------
(***************************************************************************)
(* What passes between a tool and the platform, whatever the tools, their  *)
(* registrations, the links, the people, the tokens and the lifetime:      *)
(* - no token is accepted twice.  One that was accepted has a nonce the    *)
(*   platform saw no earlier than the token was issued, and sees ever      *)
(*   later; when the nonce is fresh again, the token has outlived its time;*)
(* - what the platform offers it accepts;                                  *)
(* - who is sent to a tool has a role it asked for, since the rows of a    *)
(*   tool are those of the body it registered with.                        *)
(***************************************************************************)
EXTENDS ToolExchange, TLAPS

\* The nonce of an accepted token was seen after the token was issued, in the past.
SeenSinceIssued ==
    \A t \in Tokens : accepted[t] > 0 =>
        /\ t.nonce \in Nonces
        /\ seen[t.nonce] # None
        /\ t.iat <= seen[t.nonce] /\ t.iat <= now

TokenInv == TypeOK /\ AcceptedOnce /\ SeenSinceIssued

LEMMA InitTokenInv == Init => TokenInv
<1> SUFFICES ASSUME Init PROVE TokenInv
  OBVIOUS
<1>1. now \in 0..MaxTime
  BY TokenAssumption DEF Init
<1>2. seen \in [Nonces -> 0..MaxTime \cup {None}]
  BY DEF Init
<1>3. accepted \in [Tokens -> 0..MaxTries] /\ claims = {}
  BY TokenAssumption DEF Init
<1>4. \A t \in Tokens : accepted[t] = 0
  BY DEF Init
<1> QED  BY <1>1, <1>2, <1>3, <1>4 DEF TokenInv, TypeOK, AcceptedOnce, SeenSinceIssued

\* A token whose nonce is looked at has one, and is presented within its time.
LEMMA Presented ==
  ASSUME NEW t \in Tokens, NEW o \in Options, ReachesNonce(t, o)
  PROVE  t.nonce \in Nonces /\ InTime(t)
<1>1. t.extra \subseteq {"specific", "vendor", "unknown"}
  BY TokenAssumption DEF Token
<1>2. "nonce" \in Present(t)
  BY DEF ReachesNonce, JwtVerify, Required
<1>3. t.nonce # None
  BY <1>1, <1>2 DEF Present
<1> QED  BY <1>3 DEF ReachesNonce, JwtVerify, Nonces

\* What is answered are names of claims that are allowed.
LEMMA AnswersAllowed ==
  ASSUME NEW t \in Tokens, NEW o \in Options
  PROVE  PerformVendorValidations(t, o) \subseteq Required \cup {"azp", "specific", "vendor"}
  BY DEF PerformVendorValidations, DiscardUnknownClaims, ResolveAllowedClaims

\* A token that is accepted was not accepted before.
LEMMA FirstTime ==
  ASSUME TokenInv, NEW t \in Tokens, NEW o \in Options, Accepts(t, o)
  PROVE  accepted[t] = 0
<1>1. t.nonce \in Nonces /\ InTime(t)
  BY Presented DEF Accepts
<1>2. t.iat \in Nat /\ t.exp \in Nat
  BY TokenAssumption DEF Token
<1>3. accepted[t] \in Nat
  BY TokenAssumption DEF TokenInv, TypeOK
<1>4. SUFFICES ASSUME accepted[t] > 0 PROVE FALSE
  BY <1>3
<1>5. seen[t.nonce] \in Nat /\ t.iat <= seen[t.nonce]
  BY <1>1, <1>4, TokenAssumption DEF TokenInv, TypeOK, SeenSinceIssued
<1>6. now - seen[t.nonce] > TokenTTL
  BY <1>5, TokenAssumption DEF Accepts, NonceIsFresh
<1>7. now - t.iat <= TokenTTL
  BY <1>1 DEF InTime
<1> QED  BY <1>2, <1>5, <1>6, <1>7, TokenAssumption DEF TokenInv, TypeOK

LEMMA StepTokenInv == TokenInv /\ [Next]_vars => TokenInv'
<1> SUFFICES ASSUME TokenInv, [Next]_vars PROVE TokenInv'
  OBVIOUS
<1>1. CASE Tick
  <2>1. \A t \in Tokens : t.iat \in Nat
    BY TokenAssumption DEF Token
  <2> QED  BY <1>1, <2>1, TokenAssumption DEF Tick, TokenInv, TypeOK, AcceptedOnce, SeenSinceIssued
<1>2. CASE \E t \in Tokens, o \in Options : ValidateMessageToolJwt(t, o)
  <2> PICK t \in Tokens, o \in Options : ValidateMessageToolJwt(t, o)
    BY <1>2
  <2> USE TokenAssumption DEF TokenInv, TypeOK
  <2>1. now' = now
    BY DEF ValidateMessageToolJwt
  <2>2. seen' \in [Nonces -> 0..MaxTime \cup {None}]
    BY DEF ValidateMessageToolJwt
  <2>3. accepted' \in [Tokens -> 0..MaxTries] /\ AcceptedOnce'
    <3>1. CASE Accepts(t, o)
      BY <3>1, FirstTime DEF ValidateMessageToolJwt, AcceptedOnce
    <3>2. CASE ~Accepts(t, o)
      BY <3>2 DEF ValidateMessageToolJwt, AcceptedOnce
    <3> QED  BY <3>1, <3>2
  <2>4. claims' \subseteq Required \cup {"azp", "specific", "vendor"}
    BY AnswersAllowed DEF ValidateMessageToolJwt
  <2>5. SeenSinceIssued'
    <3> SUFFICES ASSUME NEW u \in Tokens, accepted'[u] > 0
                 PROVE  /\ u.nonce \in Nonces
                        /\ seen'[u.nonce] # None
                        /\ u.iat <= seen'[u.nonce] /\ u.iat <= now'
      BY DEF SeenSinceIssued
    <3>1. u.iat \in Nat
      BY DEF Token
    <3>2. CASE u = t /\ Accepts(t, o)
      BY <3>1, <3>2, Presented DEF ValidateMessageToolJwt, Accepts, InTime
    <3>3. CASE ~(u = t /\ Accepts(t, o))
      <4>1. accepted[u] > 0
        BY <3>3 DEF ValidateMessageToolJwt
      <4>2. u.nonce \in Nonces /\ seen[u.nonce] \in 0..MaxTime /\ u.iat <= seen[u.nonce]
            /\ u.iat <= now
        BY <4>1 DEF SeenSinceIssued
      <4>3. seen'[u.nonce] = seen[u.nonce] \/ seen'[u.nonce] = now
        BY <4>2 DEF ValidateMessageToolJwt
      <4> QED  BY <2>1, <3>1, <4>2, <4>3
    <3> QED  BY <3>2, <3>3
  <2> QED  BY <2>1, <2>2, <2>3, <2>4, <2>5
<1>3. CASE UNCHANGED vars
  BY <1>3 DEF vars, TokenInv, TypeOK, AcceptedOnce, SeenSinceIssued
<1> QED  BY <1>1, <1>2, <1>3 DEF Next

-----------------------------------------------------------------------------
(***************************************************************************)
(* Tokens, while tools register and are sent messages.                     *)
(***************************************************************************)
LEMMA ExchangeStepsTokens == [ExchangeNext]_allVars => [Next]_vars
  BY DEF ExchangeNext, ReceiveToken, Next, allVars

\* A token is accepted at most once (validateMessageToolJwt with a nonceIsFresh that
\* remembers for as long as a token lives), and what the state holds has its type.
THEOREM TokensAreAcceptedOnce == ExchangeSpec => [](TypeOK /\ AcceptedOnce)
<1>1. ExchangeInit => TokenInv
  BY InitTokenInv DEF ExchangeInit
<1>2. TokenInv /\ [ExchangeNext]_allVars => TokenInv'
  BY StepTokenInv, ExchangeStepsTokens
<1>3. TokenInv => TypeOK /\ AcceptedOnce
  BY DEF TokenInv
<1> QED  BY <1>1, <1>2, <1>3, PTL DEF ExchangeSpec

-----------------------------------------------------------------------------
(***************************************************************************)
(* Registration.                                                           *)
(***************************************************************************)
\* A sequence with two elements is two long.
LEMMA TwoElements ==
  ASSUME NEW S, NEW s \in Seq(S), NEW a, NEW b, a # b, {a, b} \subseteq Range(s)
  PROVE  Len(s) >= 2
<1>1. PICK i \in DOMAIN s : s[i] = a
  BY DEF Range
<1>2. PICK j \in DOMAIN s : s[j] = b
  BY DEF Range
<1> QED  BY <1>1, <1>2

\* What the configuration offers passes both schemas.
LEMMA OfferedConfigurationPasses ==
  ASSUME NEW b \in Bodies, FollowsConfiguration(b)
  PROVE  ConfigurationSchema(b.lti)
<1> SUFFICES ASSUME NEW m \in Range(b.lti.messages)
             PROVE  /\ m.type \in MessageType /\ m.placements \subseteq Placement
                    /\ m.roles # Absent => Range(m.roles) \subseteq LtiRoles
  BY DEF ConfigurationSchema
<1>1. m.type = "resource_link" \/ m.type = "deep_linking"
  BY DEF FollowsConfiguration, OpenIdConfiguration, PlatformConfiguration
<1>2. m.placements \subseteq {"content_area"}
  BY <1>1 DEF FollowsConfiguration, OpenIdConfiguration, PlatformConfiguration
<1> QED  BY <1>1, <1>2 DEF FollowsConfiguration, MessageType, Placement

LEMMA OfferedPasses ==
  ASSUME NEW b \in Bodies, FollowsConfiguration(b)
  PROVE  Answer(b) = "created"
<1>1. b.grants \in Seq(STRING) /\ b.redirects \in Seq(STRING)
  BY RegistrationAssumption DEF Body
<1>2. b.key /\ b.lti # Absent /\ b.application = "web" /\ b.jwks /\ b.auth = "private_key_jwt"
      /\ b.redirects # <<>> /\ KeysHold(b)
  BY DEF FollowsConfiguration, OpenIdConfiguration
<1>3. Range(b.responses) = {"id_token"} /\ Range(b.grants) = {"implicit", "client_credentials"}
  BY DEF FollowsConfiguration, OpenIdConfiguration
<1>4. Len(b.grants) >= 2
  BY <1>1, <1>3, TwoElements
<1>5. ConfigurationSchema(b.lti)
  BY OfferedConfigurationPasses
<1>6. TryCreateFromClientMetadata(b)
  BY <1>2, <1>3, <1>4, <1>5 DEF TryCreateFromClientMetadata, DraftSchema, LtiToolCreate
<1> QED  BY <1>2, <1>5, <1>6 DEF Answer, Validator

\* What passed last is an answer as it was given, or a message to somebody who was asked for.
LastHolds ==
    last # Absent =>
        \/ /\ last.kind = "answer"
           /\ last.body \in Bodies /\ last.answer = Answer(last.body)
        \/ last.kind = "message" /\ OnlyAskedRolesAreSent

\* The rows of a tool are those of the body it was registered with.
RowsAreRegistered ==
    /\ DOMAIN registered = ToolIds /\ DOMAIN row = ToolIds
    /\ registered \in [ToolIds -> Bodies \cup {Absent}]
    /\ \A t \in ToolIds : row[t] # Absent =>
        /\ registered[t] \in Bodies /\ Answer(registered[t]) = "created"
        /\ row[t] = IntoRow(registered[t])

RegistrationInv == RowsAreRegistered /\ LastHolds

LEMMA InitRegistration == RegistrationInit => RegistrationInv
  BY DEF RegistrationInit, RegistrationInv, RowsAreRegistered, LastHolds

LEMMA RegisterKeeps ==
  ASSUME RegistrationInv, NEW t \in ToolIds, NEW b \in Bodies, Register(t, b)
  PROVE  RegistrationInv'
<1>1. LastHolds'
  BY DEF Register, LastHolds
<1>2. CASE Answer(b) = "created"
  <2>1. registered' = [registered EXCEPT ![t] = b] /\ row' = [row EXCEPT ![t] = IntoRow(b)]
    BY <1>2 DEF Register
  <2> QED  BY <1>1, <1>2, <2>1 DEF RegistrationInv, RowsAreRegistered
<1>3. CASE Answer(b) # "created"
  BY <1>1, <1>3 DEF Register, registrationVars, RegistrationInv, RowsAreRegistered
<1> QED  BY <1>2, <1>3

-----------------------------------------------------------------------------
(***************************************************************************)
(* Roles, from the body of a registration to the check of a launch.        *)
(***************************************************************************)
LEMMA RowsHaveTheRoles ==
  ASSUME NEW b \in Bodies
  PROVE  RolesOf(IntoRow(b), "resource_link") = AskedRoles(b)
<1>1. \A x : x \in RolesRows(b.lti)
        <=> \E m \in Range(b.lti.messages) : \E r \in Range(OrEmpty(m.roles)) : x = <<m.type, r>>
  BY DEF RolesRows
<1>2. \A r : r \in RolesOf(IntoRow(b), "resource_link")
        <=> \E x \in RolesRows(b.lti) : x[1] = "resource_link" /\ r = x[2]
  BY DEF RolesOf, IntoRow
<1>3. \A r : r \in AskedRoles(b)
        <=> \E m \in Range(b.lti.messages) :
              m.type = "resource_link" /\ r \in Range(OrEmpty(m.roles))
  BY DEF AskedRoles
<1>4. ASSUME NEW r \in RolesOf(IntoRow(b), "resource_link") PROVE r \in AskedRoles(b)
  <2>1. PICK x \in RolesRows(b.lti) : x[1] = "resource_link" /\ r = x[2]
    BY <1>2
  <2>2. PICK m \in Range(b.lti.messages) : \E s \in Range(OrEmpty(m.roles)) : x = <<m.type, s>>
    BY <1>1
  <2>3. m.type = "resource_link" /\ r \in Range(OrEmpty(m.roles))
    BY <2>1, <2>2
  <2> QED  BY <1>3, <2>3
<1>5. ASSUME NEW r \in AskedRoles(b) PROVE r \in RolesOf(IntoRow(b), "resource_link")
  <2>1. PICK m \in Range(b.lti.messages) :
          m.type = "resource_link" /\ r \in Range(OrEmpty(m.roles))
    BY <1>3
  <2>2. <<m.type, r>> \in RolesRows(b.lti)
    BY <1>1, <2>1
  <2> QED  BY <1>2, <2>1, <2>2
<1> QED  BY <1>4, <1>5

\* A tool that is registered asked for roles of the vocabulary.
LEMMA AskedOfVocabulary ==
  ASSUME NEW b \in Bodies, Answer(b) = "created"
  PROVE  AskedRoles(b) \subseteq LtiRoles
<1>1. ConfigurationSchema(b.lti)
  BY DEF Answer, TryCreateFromClientMetadata, DraftSchema
<1>2. \A m \in Range(b.lti.messages) : Range(OrEmpty(m.roles)) \subseteq LtiRoles
  BY <1>1 DEF ConfigurationSchema, OrEmpty, Range
<1> QED  BY <1>2 DEF AskedRoles

LEMMA AllowedIsAsked ==
  ASSUME NEW b \in Bodies, Answer(b) = "created", NEW roles,
         MessageAllows(LtiTool(IntoRow(b)), roles), AskedRoles(b) # {}
  PROVE  AskedRoles(b) \cap roles # {}
<1>1. PICK m \in Range(b.lti.messages) : m.type = "resource_link"
  BY DEF AskedRoles
<1>2. DOMAIN IntoRow(b).messages = {n.type : n \in Range(b.lti.messages)}
  BY DEF IntoRow
<1>3. "resource_link" \in DOMAIN IntoRow(b).messages
  BY <1>1, <1>2
<1>4. AskedRoles(b) # Absent
  BY AskedOfVocabulary, RegistrationAssumption
<1>5. LtiTool(IntoRow(b)).messages["resource_link"].roles = AskedRoles(b)
  BY <1>3, RowsHaveTheRoles DEF LtiTool
<1>6. "resource_link" \in DOMAIN LtiTool(IntoRow(b)).messages
  BY <1>3 DEF LtiTool
<1> QED  BY <1>4, <1>5, <1>6 DEF MessageAllows

-----------------------------------------------------------------------------
(***************************************************************************)
(* What is said of the roles and of the audience is not spread over.       *)
(***************************************************************************)
LEMMA SpreadRight ==
  ASSUME NEW f, NEW g, NEW x \in DOMAIN g
  PROVE  x \in DOMAIN Spread(f, g) /\ Spread(f, g)[x] = g[x]
  BY DEF Spread

LEMMA SpreadLeft ==
  ASSUME NEW f, NEW g, NEW x \in DOMAIN f, x \notin DOMAIN g
  PROVE  x \in DOMAIN Spread(f, g) /\ Spread(f, g)[x] = f[x]
  BY DEF Spread

LEMMA WhenDomain ==
  ASSUME NEW c, NEW f
  PROVE  DOMAIN When(c, f) \subseteq DOMAIN f
<1>1. DOMAIN << >> = {}
  OBVIOUS
<1> QED  BY <1>1 DEF When

LEMMA ClaimsOfAMessage ==
  ASSUME NEW q \in Requests, NEW p, NEW l, NEW tool
  PROVE  LET said == PrepareIdToken(IntoLtiClaim(tool, l, p), q)
         IN  said["aud"] = q.client /\ said["roles"] = MapRoles(p.role)
<1> DEFINE told == [message_type |-> "resource_link", version |-> "1.3.0",
                    deployment_id |-> l.deployment, resource_link |-> LinkClaim(l),
                    roles |-> MapRoles(p.role)]
           custom == CustomClaims(tool, l)
           ofContext == When(l.context # Absent, [context |-> ContextClaim(l)])
           ofServices == When(l.context # Absent /\ AllowedScopes(tool) # {},
                              [ags |-> AllowedScopes(tool)])
           ofCustom == When(DOMAIN custom # {}, [custom |-> custom])
           own == [nonce |-> q.nonce, azp |-> q.client, aud |-> q.client, iss |-> "platform"]
           rest == Spread(ofContext, Spread(ofCustom, ofServices))
           known == Spread(UserIdentity(p), told)
<1>1. IntoLtiClaim(tool, l, p) = Spread(known, rest)
  BY DEF IntoLtiClaim
<1>2. PrepareIdToken(IntoLtiClaim(tool, l, p), q) = Spread(Spread(known, rest), own)
  BY <1>1 DEF PrepareIdToken
<1>3. DOMAIN ofContext \subseteq {"context"} /\ DOMAIN ofServices \subseteq {"ags"}
      /\ DOMAIN ofCustom \subseteq {"custom"}
  <2>1. DOMAIN [context |-> ContextClaim(l)] = {"context"}
        /\ DOMAIN [ags |-> AllowedScopes(tool)] = {"ags"} /\ DOMAIN [custom |-> custom] = {"custom"}
    OBVIOUS
  <2> HIDE DEF custom
  <2>2. DOMAIN ofContext \subseteq DOMAIN [context |-> ContextClaim(l)]
    BY WhenDomain
  <2>3. DOMAIN ofServices \subseteq DOMAIN [ags |-> AllowedScopes(tool)]
    BY WhenDomain
  <2>4. DOMAIN ofCustom \subseteq DOMAIN [custom |-> custom]
    BY WhenDomain
  <2> QED  BY <2>1, <2>2, <2>3, <2>4
<1>4. DOMAIN own = {"nonce", "azp", "aud", "iss"} /\ own["aud"] = q.client
  OBVIOUS
<1>5. "roles" \in DOMAIN told /\ told["roles"] = MapRoles(p.role)
  OBVIOUS
<1> HIDE DEF own, told, ofContext, ofServices, ofCustom
<1>6. "roles" \notin DOMAIN rest
  BY <1>3 DEF Spread
<1>7. "roles" \in DOMAIN known /\ known["roles"] = MapRoles(p.role)
  BY <1>5, SpreadRight
<1> HIDE DEF rest, known
<1>8. "roles" \in DOMAIN Spread(known, rest) /\ Spread(known, rest)["roles"] = MapRoles(p.role)
  BY <1>6, <1>7, SpreadLeft
<1>9. Spread(Spread(known, rest), own)["aud"] = q.client
  BY <1>4, SpreadRight
<1>10. Spread(Spread(known, rest), own)["roles"] = MapRoles(p.role)
  BY <1>4, <1>8, SpreadLeft
<1> QED  BY <1>2, <1>9, <1>10

LEMMA LaunchKeeps ==
  ASSUME RegistrationInv, NEW q \in Requests, NEW l \in Links, NEW p \in People,
         AuthenticateLaunch(q, l, p)
  PROVE  RegistrationInv'
<1> DEFINE c == q.client
           b == registered[c]
           tool == LtiTool(row[c])
           said == PrepareIdToken(IntoLtiClaim(tool, l, p), q)
<1>1. c \in ToolIds
  BY MessageAssumption DEF Request
<1>2. b \in Bodies /\ Answer(b) = "created" /\ row[c] = IntoRow(b)
  BY <1>1 DEF AuthenticateLaunch, RegistrationInv, RowsAreRegistered
<1>3. MessageAllows(tool, MapRoles(p.role))
  BY DEF AuthenticateLaunch
<1>4. AskedRoles(b) # {} => AskedRoles(b) \cap MapRoles(p.role) # {}
  BY <1>2, <1>3, AllowedIsAsked
<1>5. said["aud"] = c /\ said["roles"] = MapRoles(p.role)
  BY ClaimsOfAMessage
<1>6. last' = [kind |-> "message", person |-> p, link |-> l, claims |-> said]
      /\ registered' = registered /\ row' = row
  BY DEF AuthenticateLaunch, registrationVars
<1> HIDE DEF said
<1>7. last'.kind = "message" /\ last'.claims = said
  BY <1>6
<1>8. OnlyAskedRolesAreSent'
  BY <1>4, <1>5, <1>6, <1>7 DEF OnlyAskedRolesAreSent
<1> QED  BY <1>6, <1>7, <1>8 DEF RegistrationInv, RowsAreRegistered, LastHolds

LEMMA StepRegistration == RegistrationInv /\ [ExchangeNext]_allVars => RegistrationInv'
<1> SUFFICES ASSUME RegistrationInv, [ExchangeNext]_allVars PROVE RegistrationInv'
  OBVIOUS
<1>1. CASE \E t \in ToolIds, b \in Bodies : Register(t, b)
  BY <1>1, RegisterKeeps
<1>2. CASE \E q \in Requests, l \in Links, p \in People : AuthenticateLaunch(q, l, p)
  BY <1>2, LaunchKeeps
<1>3. CASE UNCHANGED exchangeVars
  BY <1>3 DEF exchangeVars, RegistrationInv, RowsAreRegistered, LastHolds, OnlyAskedRolesAreSent
<1> QED  BY <1>1, <1>2, <1>3
         DEF ExchangeNext, ReceiveToken, MessageNext, RegistrationNext, allVars

\* What the configuration invites is registered (ltiToolConfigurationSchema, LtiTool.create
\* and the keys of the tables refuse none of it), for any bodies.
THEOREM OfferedIsAlwaysAccepted == ExchangeSpec => []OfferedIsAccepted
<1>1. ExchangeInit => RegistrationInv
  BY InitRegistration DEF ExchangeInit
<1>2. RegistrationInv => OfferedIsAccepted
  BY OfferedPasses DEF RegistrationInv, LastHolds, OfferedIsAccepted
<1> QED  BY <1>1, <1>2, StepRegistration, PTL DEF ExchangeSpec

\* Who is sent to a tool has a role that it asked for, if it asked for any
\* (LTIResourceLinkLaunchRequest.create on what lti-tools.mapper.ts reads), for any bodies,
\* links and people.
THEOREM OnlyAskedRolesAreEverSent == ExchangeSpec => []OnlyAskedRolesAreSent
<1>1. ExchangeInit => RegistrationInv
  BY InitRegistration DEF ExchangeInit
<1>2. RegistrationInv => OnlyAskedRolesAreSent
  BY DEF RegistrationInv, LastHolds, OnlyAskedRolesAreSent
<1> QED  BY <1>1, <1>2, StepRegistration, PTL DEF ExchangeSpec

=============================================================================
