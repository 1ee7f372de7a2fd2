-------------------------- MODULE OidcInteractions --------------------------
(***************************************************************************)
(* Authorization requests of one browser at the OpenID provider: the       *)
(* interactions in which the user logs in and consents, and the grant the  *)
(* consents add up in.                                                     *)
(*                                                                         *)
(* oidc-provider decides what to ask and keeps the session; the            *)
(* controller shows the prompt and finishes the interaction with a result, *)
(* and the provider resumes the request.  A consent reads the grant, adds  *)
(* what is missing and saves it, with an await between.                    *)
(*                                                                         *)
(* What is asked for is of three kinds: OpenID scopes, claims and scopes   *)
(* of resources.  The page asks for the OpenID scopes that are missing;    *)
(* the consent it sends grants what is missing of all three.               *)
(*                                                                         *)
(* One user, one client, which does not ask for a prompt of its own.       *)
(***************************************************************************)
EXTENDS Naturals, FiniteSets

CONSTANTS
    Flows,      \* authorization requests, each in a tab of its own
    Asked,      \* Asked[f]: what the request asks for
    OidcScopes, \* which of it are OpenID scopes; the rest are claims and scopes of resources
    OpenId,     \* the scope the page leaves out
    MaxLogouts, \* bound
    None

Permissions == UNION {Asked[f] : f \in Flows}

GrantIds == 1 .. Cardinality(Flows) * (MaxLogouts + 1)

Results == {"login", "consent", "access_denied", "invalid_request_object",
            "invalid_request", "unauthorized_client"}

ASSUME OidcInteractionsAssumption ==
    /\ IsFiniteSet(Flows) /\ \A f \in Flows : IsFiniteSet(Asked[f])
    /\ MaxLogouts \in Nat
    /\ None \notin GrantIds /\ None \notin Results
    /\ \A permissions \in SUBSET Permissions : permissions # None

VARIABLES
    grants,    \* grants[g]: what it permits, None if there is none
    session,   \* the provider's session of the browser
    flow,      \* flow[f]: where the request is, and its interaction
    consented, \* history: what was missing in the consents sent since the last logout
    seen,      \* history: what was on the pages those consents were sent from
    overtaken  \* history: the requests whose grant another request saved or replaced
               \* since they were looked at

vars == <<grants, session, flow, consented, seen, overtaken>>

Session == [loggedIn : BOOLEAN, grant : GrantIds \cup {None}, logouts : 0 .. MaxLogouts]

Flow == [pc : {"idle", "prompted", "shown", "granting", "finishing", "resuming",
               "code", "denied", "lost"},
         prompt : {"login", "consent", None},
         grantId : GrantIds \cup {None},      \* of the session when the user was asked
         missing : SUBSET Permissions,
         page : SUBSET Permissions,           \* what the consent page asked for
         during : 0 .. MaxLogouts,            \* the logouts there were when it was asked
         copy : SUBSET Permissions,                \* the grant as it was read
         result : Results \cup {None},
         newGrant : GrantIds \cup {None}]     \* consent.grantId

TypeOK ==
    /\ grants \in [GrantIds -> (SUBSET Permissions) \cup {None}]
    /\ session \in Session /\ flow \in [Flows -> Flow]
    /\ consented \subseteq Permissions /\ seen \subseteq Permissions /\ overtaken \subseteq Flows
    /\ \A f \in Flows : flow[f].pc = "resuming" => flow[f].result # None

Init ==
    /\ grants = [g \in GrantIds |-> None]
    /\ session = [loggedIn |-> FALSE, grant |-> None, logouts |-> 0]
    /\ flow = [f \in Flows |-> [pc |-> "idle", prompt |-> None, grantId |-> None,
                                missing |-> {}, page |-> {}, during |-> 0, copy |-> {},
                                result |-> None, newGrant |-> None]]
    /\ consented = {} /\ seen = {} /\ overtaken = {}

-----------------------------------------------------------------------------
(***************************************************************************)
(* The provider.                                                           *)
(***************************************************************************)
HeldBy(g) == IF g = None \/ grants[g] = None THEN {} ELSE grants[g]

\* what comes of a request under a session: a prompt, or a code
Evaluated(f, ses) ==
    LET missing == Asked[f] \ HeldBy(ses.grant)
        asked == [flow[f] EXCEPT !.pc = "prompted", !.grantId = ses.grant,
                    !.missing = missing, !.page = {}, !.during = ses.logouts, !.copy = {},
                    !.result = None, !.newGrant = None]
    IN  CASE ~ses.loggedIn -> [asked EXCEPT !.prompt = "login"]
          [] ses.loggedIn /\ missing # {} -> [asked EXCEPT !.prompt = "consent"]
          [] OTHER -> [asked EXCEPT !.pc = "code", !.prompt = None]

Authorize(f) ==
    /\ flow[f].pc = "idle"
    /\ flow' = [flow EXCEPT ![f] = Evaluated(f, session)]
    /\ overtaken' = overtaken \ {f}
    /\ UNCHANGED <<grants, session, consented, seen>>

\* the result of the interaction is applied to the session and the request goes on
Resume(f) ==
    LET result == flow[f].result
        ses == [session EXCEPT !.loggedIn = @ \/ result = "login",
                               !.grant = IF flow[f].newGrant # None THEN flow[f].newGrant ELSE @]
    IN  /\ flow[f].pc = "resuming"
        /\ IF result \notin {"login", "consent"}
           THEN flow' = [flow EXCEPT ![f].pc = "denied"] /\ UNCHANGED <<session, overtaken>>
           ELSE IF flow[f].prompt = "consent" /\ flow[f].during # session.logouts
           THEN flow' = [flow EXCEPT ![f].pc = "lost"] /\ UNCHANGED <<session, overtaken>>
           ELSE /\ flow' = [flow EXCEPT ![f] = Evaluated(f, ses)] /\ session' = ses
                /\ overtaken' = (IF ses.grant = session.grant THEN overtaken ELSE Flows) \ {f}
        /\ UNCHANGED <<grants, consented, seen>>

\* an interaction lives for five minutes
Expire(f) ==
    /\ flow[f].pc \in {"prompted", "shown", "granting", "finishing", "resuming"}
    /\ flow' = [flow EXCEPT ![f].pc = "lost"]
    /\ UNCHANGED <<grants, session, consented, seen, overtaken>>

\* the logout the client initiates ends the session and its grant
Logout ==
    /\ session.loggedIn /\ session.logouts < MaxLogouts
    /\ session' = [loggedIn |-> FALSE, grant |-> None, logouts |-> session.logouts + 1]
    /\ grants' = [g \in GrantIds |-> IF g = session.grant THEN None ELSE grants[g]]
    /\ consented' = {} /\ seen' = {}
    /\ UNCHANGED <<flow, overtaken>>

-----------------------------------------------------------------------------
(***************************************************************************)
(* The controller.                                                          *)
(***************************************************************************)
FinishesWith(f, result) == [flow[f] EXCEPT !.pc = "finishing", !.result = result]

Steps(f, next) ==
    /\ flow' = [flow EXCEPT ![f] = next]
    /\ UNCHANGED session

\* what the consent page lists, and the user agrees to when it is sent
Page(missing) == (missing \cap OidcScopes) \ {OpenId}

\* The login form or the consent form; a client or an account that is not found ends
\* it.  Only the first reason to ask is shown, and only missing OpenID scopes have a
\* page: the others get an error page, and their interaction is left as it is.
Show(f) ==
    /\ flow[f].pc = "prompted"
    /\ \/ /\ flow[f].prompt = "login"
          /\ Steps(f, [flow[f] EXCEPT !.pc = "shown"])
       \/ /\ flow[f].prompt = "consent" /\ flow[f].missing \cap OidcScopes # {}
          /\ Steps(f, [flow[f] EXCEPT !.pc = "shown", !.page = Page(flow[f].missing)])
       \/ \E result \in {"unauthorized_client"} \cup
                  (IF flow[f].prompt = "consent" THEN {"invalid_request"} ELSE {}) :
            Steps(f, FinishesWith(f, result))
    /\ UNCHANGED <<grants, consented, seen, overtaken>>

LogIn(f) ==
    /\ flow[f].pc = "shown" /\ flow[f].prompt = "login"
    /\ \E result \in {"login", "access_denied"} : Steps(f, FinishesWith(f, result))
    /\ UNCHANGED <<grants, consented, seen, overtaken>>

Abort(f) ==
    /\ flow[f].pc = "shown"
    /\ Steps(f, FinishesWith(f, "access_denied"))
    /\ UNCHANGED <<grants, consented, seen, overtaken>>

\* The user consents: the grant of the interaction is read, or a new one begun.
Consent(f) ==
    /\ flow[f].pc = "shown" /\ flow[f].prompt = "consent"
    /\ LET g == flow[f].grantId
       IN  IF g # None /\ grants[g] = None
           THEN /\ Steps(f, FinishesWith(f, "invalid_request_object"))
                /\ UNCHANGED <<consented, seen>>
           ELSE /\ Steps(f, [flow[f] EXCEPT !.pc = "granting", !.copy = HeldBy(g)])
                /\ IF flow[f].during = session.logouts
                   THEN /\ consented' = consented \cup flow[f].missing
                        /\ seen' = seen \cup flow[f].page
                   ELSE UNCHANGED <<consented, seen>>
    /\ UNCHANGED <<grants, overtaken>>

\* Mutant: a consent grants all there is.
Everything(request) == Permissions

\* addOIDCScope, addOIDCClaims and addResourceScope of what the prompt found missing
Extended(request) == request.copy \cup request.missing

\* Mutant: the grant is passed on if it is not new.
PassedOnIfOld(request, saved) == IF request.grantId # None THEN saved ELSE None

\* only a grant that is new is passed on
ConsentGrantId(request, saved) == IF request.grantId = None THEN saved ELSE None

\* the ids a new grant may get; the least of them is taken for all
NewIds == {g \in GrantIds :
            grants[g] = None /\ \A e \in Flows : g \notin {flow[e].grantId, flow[e].newGrant}}

SaveGrant(f) ==
    /\ flow[f].pc = "granting"
    /\ \E g \in GrantIds :
        /\ IF flow[f].grantId # None
           THEN g = flow[f].grantId
           ELSE g \in NewIds /\ \A other \in NewIds : g <= other
        /\ grants' = [grants EXCEPT ![g] = Extended(flow[f])]
        /\ Steps(f, [FinishesWith(f, "consent") EXCEPT !.newGrant = ConsentGrantId(flow[f], g)])
        /\ overtaken' = overtaken \cup
                {e \in Flows \ {f} : g \in {flow[e].grantId, flow[e].newGrant}}
    /\ UNCHANGED <<consented, seen>>

\* interactionFinished stores the result and sends the browser back to the provider
Finish(f) ==
    /\ flow[f].pc = "finishing"
    /\ Steps(f, [flow[f] EXCEPT !.pc = "resuming"])
    /\ UNCHANGED <<grants, consented, seen, overtaken>>

-----------------------------------------------------------------------------
Next ==
    \/ Logout
    \/ \E f \in Flows :
        \/ Authorize(f) \/ Resume(f) \/ Expire(f)
        \/ Show(f) \/ LogIn(f) \/ Abort(f) \/ Consent(f) \/ SaveGrant(f) \/ Finish(f)

Spec == Init /\ [][Next]_vars

-----------------------------------------------------------------------------
(***************************************************************************)
(* No request gets its code for anything that was not missing in a consent *)
(* the user sent since the last logout, whatever other tabs do to the      *)
(* grant meanwhile; and of that, every OpenID scope but openid was on a    *)
(* page such a consent was sent from.  Claims and scopes of resources are  *)
(* granted without having been shown, so nothing is said of them           *)
(* (oidc.controller.ts, interactions and consentIteractionFinished).       *)
(***************************************************************************)
CodesAreConsentedTo ==
    [][\A f \in Flows : flow[f].pc # "code" /\ flow'[f].pc = "code"
            => /\ Asked[f] \subseteq consented
               /\ (Asked[f] \cap OidcScopes) \ {OpenId} \subseteq seen]_vars

(***************************************************************************)
(* Of two consents to one grant the later save drops what the other added. *)
(* A request that consented is asked again, be it to log in or to consent, *)
(* only if another one saved its grant or replaced the session's since it  *)
(* was looked at: a consent nobody interferes with is enough               *)
(* (oidc.controller.ts, consentIteractionFinished).                        *)
(***************************************************************************)
AskedAgainOnlyIfOvertaken ==
    [][\A f \in Flows :
         /\ flow[f].pc = "resuming" /\ flow[f].result = "consent"
         /\ flow'[f].pc = "prompted"
         => f \in overtaken]_vars
=============================================================================
