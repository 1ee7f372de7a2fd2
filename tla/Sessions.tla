------------------------------ MODULE Sessions ------------------------------
(***************************************************************************)
(* The session of one browser: who is logged in, the messages a request    *)
(* leaves for the page that follows, the guards before a handler and the   *)
(* filters that answer its errors.                                         *)
(*                                                                         *)
(* express-session reads the session when a request arrives and gives the  *)
(* request a copy; the middlewares, the handler and the filters change the *)
(* copy, and it is stored whole when the request ends, if it differs from  *)
(* what was read.  Requests of one browser may overlap.                    *)
(*                                                                         *)
(* A message is the number of the visit whose request left it.             *)
(***************************************************************************)
EXTENDS Naturals, FiniteSets

CONSTANTS
    Tabs,       \* of the browser
    People,     \* who may have an account
    Addresses,  \* addresses of the application
    Routes,     \* what may be asked for
    MaxVisits,  \* bound: what the user asks for; redirects do not count
    None

Route == [at : Addresses, get : BOOLEAN,
          mvc : BOOLEAN,       \* @Mvc() or @Rest()
          public : BOOLEAN,    \* @Public()
          jwt : BOOLEAN,       \* @ConfigAuthGuard({ strategy: LtiToolsJwt })
          does : {"home", "showLogin", "login", "logout", "register", "show", "store",
                  "remove", "launch", "lineItem"}]

ASSUME SessionsAssumption ==
    /\ Routes \subseteq Route /\ {"home", "elsewhere"} \subseteq Addresses
    /\ \A a \in Addresses : Cardinality({r \in Routes : r.at = a /\ r.get}) <= 1
    /\ MaxVisits \in Nat
    /\ None \notin People \cup Addresses

\* what the controllers declare: forms are not sent with GET, the home page is a page,
\* and only the line items are behind the tools' strategy
ASSUME RoutesAssumption ==
    \A r \in Routes :
        /\ r.get => r.does \notin {"login", "register", "store"}
        /\ r.get /\ r.at = "home" => r.does = "home"
        /\ r.jwt => r.does = "lineItem"

VARIABLES
    accounts, \* who has one
    store,    \* the session in Redis
    tab,      \* tab[t]: where the tab is and the request it waits for
    visits,
    loggedIn, \* history: whose login, with no logout since, was handled last
    handed,   \* history: handed[m]: how many requests were handed message m
    overlap   \* history: whether a request began before another was answered

vars == <<accounts, store, tab, visits, loggedIn, handed, overlap>>

Visit == 1 .. MaxVisits

\* what a session holds of messages
Messages == [error : SUBSET Visit, validation : SUBSET Visit,
             flash : (SUBSET Visit) \cup {None}]

NoMessages == [error |-> {}, validation |-> {}, flash |-> {}]

Session == [raw : People \cup {None},     \* __raw_user_props__
            auth : People \cup {None},    \* the User made of them
            messages : Messages]

\* a session that was never written has no flash
Blank == [raw |-> None, auth |-> None, messages |-> [NoMessages EXCEPT !.flash = None]]

\* the messages in a session
Left(session) ==
    LET held == session.messages
    IN  held.error \cup held.validation \cup (IF held.flash = None THEN {} ELSE held.flash)

Request ==
    [pc : {"idle", "arrived", "guard", "handle", "end", "follow"},
     route : Routes \cup {None}, visit : Visit \cup {0},
     referer : Addresses \cup {None},
     read : Session, copy : Session,
     locals : SUBSET Visit,               \* the messages the request was handed
     answer : {"none", "page", "json", "redirect", "leave"},
     target : Addresses \cup {None}, showing : Addresses,
     hops : Nat]                          \* redirects followed since the visit began

AtRest == [pc |-> "idle", route |-> None, visit |-> 0, referer |-> None,
           read |-> Blank, copy |-> Blank, locals |-> {}, answer |-> "none",
           target |-> None, showing |-> "elsewhere", hops |-> 0]

TypeOK ==
    /\ accounts \subseteq People /\ store \in Session
    /\ tab \in [Tabs -> Request] /\ visits \in 0 .. MaxVisits
    /\ \A t \in Tabs : tab[t].pc = "follow" => tab[t].target # None
    /\ loggedIn \in People \cup {None} /\ handed \in [Visit -> 0 .. 2]
    /\ overlap \in BOOLEAN

Init ==
    /\ accounts \in SUBSET People /\ store = Blank
    /\ tab = [t \in Tabs |-> AtRest]
    /\ visits = 0 /\ loggedIn = None
    /\ handed = [m \in Visit |-> 0] /\ overlap = FALSE

-----------------------------------------------------------------------------
(***************************************************************************)
(* The browser.                                                            *)
(***************************************************************************)
Busy == {t \in Tabs : tab[t].pc # "idle"}

Asked(t, route, visit, referer) ==
    [tab[t] EXCEPT !.pc = "arrived", !.route = route, !.visit = visit, !.referer = referer]

\* the user follows a link or sends a form of the page, or enters an address
Visits(t) ==
    /\ tab[t].pc = "idle" /\ visits < MaxVisits
    /\ \E route \in Routes, referer \in {tab[t].showing, None} \ {"elsewhere"} :
        tab' = [tab EXCEPT ![t] = Asked(t, route, visits + 1, referer)]
    /\ visits' = visits + 1
    /\ overlap' = (overlap \/ Busy # {})
    /\ UNCHANGED <<accounts, store, loggedIn, handed>>

\* A redirect is followed with GET and keeps the referer.  Nothing answers GET
\* at an address that has none.
Follow(t) ==
    /\ tab[t].pc = "follow"
    /\ LET there == {route \in Routes : route.at = tab[t].target /\ route.get}
       IN  IF there = {}
           THEN tab' = [tab EXCEPT ![t] = [AtRest EXCEPT !.showing = tab[t].target]]
           ELSE \E route \in there :
                    tab' = [tab EXCEPT ![t] =
                        [Asked(t, route, tab[t].visit, tab[t].referer) EXCEPT !.hops = @ + 1]]
    /\ UNCHANGED <<accounts, store, visits, loggedIn, handed, overlap>>

-----------------------------------------------------------------------------
(***************************************************************************)
(* The middlewares of the MVC controllers.  They are applied to whole      *)
(* controllers, so the REST handlers among theirs pass through them too.   *)
(***************************************************************************)
HasMiddlewares(route) == ~route.jwt

\* Mutant: a user who is mounted is not replaced.
MountOnce(session) ==
    IF session.raw # None /\ session.auth = None
    THEN [session EXCEPT !.auth = session.raw] ELSE session

MountSessionUser(session) ==
    IF session.raw # None THEN [session EXCEPT !.auth = session.raw] ELSE session

\* Mutant: the flash is not reset.
TakeErrors(session) ==
    [session EXCEPT !.messages = [NoMessages EXCEPT !.flash =
        IF session.messages.flash = None THEN {} ELSE session.messages.flash]]

\* locals get the messages, and the session loses them
TakeMessages(session) == [session EXCEPT !.messages = NoMessages]

Arrive(t) ==
    /\ tab[t].pc = "arrived"
    /\ LET route == tab[t].route
           read == IF route.jwt THEN Blank ELSE store   \* a tool sends no cookie
           locals == IF HasMiddlewares(route) THEN Left(read) ELSE {}
       IN  /\ tab' = [tab EXCEPT ![t] =
                [@ EXCEPT !.pc = "guard", !.read = read, !.locals = locals,
                          !.copy = IF HasMiddlewares(route)
                                   THEN TakeMessages(MountSessionUser(read)) ELSE read]]
           /\ handed' = [m \in Visit |->
                            IF m \in locals /\ handed[m] < 2 THEN handed[m] + 1 ELSE handed[m]]
    /\ UNCHANGED <<accounts, store, visits, loggedIn, overlap>>

-----------------------------------------------------------------------------
(***************************************************************************)
(* Answers.  An answer is what the request in the tab becomes.             *)
(***************************************************************************)
Shows(t, answer) == [tab[t] EXCEPT !.pc = "end", !.answer = answer]

RedirectsTo(t, target) ==
    [tab[t] EXCEPT !.pc = "end", !.answer = "redirect", !.target = target]

\* response.redirectBack()
Back(t) == RedirectsTo(t, IF tab[t].referer = None THEN "home" ELSE tab[t].referer)

Leaving(request, field) == [request EXCEPT !.copy.messages[field] = {request.visit}]

\* session.flash.success, and flashRequestBody: a flash that is missing is made
FlashRequestBody(request) ==
    [request EXCEPT !.copy.messages.flash = (IF @ = None THEN {} ELSE @) \cup {request.visit}]

\* Mutant: an error is sent back whatever the method.
SendsBack(route) == FALSE

\* the filters' test: errors of a GET for a page are rendered in its place
ShouldRender(route) == route.get /\ route.mvc

\* BaseExceptionFilter and DTOValidationExceptionFilter with their responders
AnswerError(t, field) ==
    CASE ShouldRender(tab[t].route) -> Shows(t, "page")
      [] ~ShouldRender(tab[t].route) /\ tab[t].route.mvc ->
            FlashRequestBody(Leaving(Back(t), field))
      [] OTHER -> Shows(t, "json")

\* LtilibExceptionFilter: what becomes of the errors of a launch
AnswerLtiError(t, error) ==
    CASE error \in {"InvalidRedirectUri", "MalformedRequest", "ExternalRepository"} ->
            Shows(t, "page")
      [] error = "AuthenticationRedirection" -> Shows(t, "leave")
      [] error = "OAuth" -> Shows(t, "json")
      [] OTHER -> AnswerError(t, "error")

LtiErrors == {"InvalidRedirectUri", "MalformedRequest", "ExternalRepository",
              "AuthenticationRedirection", "OAuth", "MisconfiguredPlatform", "Other"}

-----------------------------------------------------------------------------
(***************************************************************************)
(* The guards.  MvcGuard notes what kind of route it is before AuthGuard   *)
(* may refuse it.                                                          *)
(***************************************************************************)
IsAuthenticated(session) == session.auth # None

Authorize(t) ==
    /\ tab[t].pc = "guard"
    /\ LET route == tab[t].route
       IN  \E token \in IF route.jwt THEN BOOLEAN ELSE {FALSE} :  \* known and not expired
            tab' = [tab EXCEPT ![t] =
                IF route.public \/ token \/ (~route.jwt /\ IsAuthenticated(@.copy))
                THEN [@ EXCEPT !.pc = "handle"]
                ELSE Shows(t, IF route.mvc THEN "page" ELSE "json")]
    /\ UNCHANGED <<accounts, store, visits, loggedIn, handed, overlap>>

-----------------------------------------------------------------------------
(***************************************************************************)
(* The handlers.                                                           *)
(***************************************************************************)
Handling(t, doing) == tab[t].pc = "handle" /\ tab[t].route.does \in doing

Succeeds(t, request) ==
    /\ tab' = [tab EXCEPT ![t] = request]
    /\ UNCHANGED <<accounts, store, visits, loggedIn, handed, overlap>>

\* a body, a query or a parameter that its DTO refuses; an error of the handler
Fails(t) ==
    /\ Handling(t, {"login", "register", "show", "store", "remove", "lineItem"})
    /\ \E field \in {"validation", "error"} : Succeeds(t, AnswerError(t, field))

FailsToLaunch(t) ==
    /\ Handling(t, {"launch"})
    /\ \E error \in LtiErrors : Succeeds(t, AnswerLtiError(t, error))

Show(t) ==
    /\ Handling(t, {"home", "show"})
    /\ Succeeds(t, Shows(t, "page"))

Answers(t) ==
    /\ Handling(t, {"remove", "lineItem"})
    /\ Succeeds(t, Shows(t, "json"))

Launch(t) ==
    /\ Handling(t, {"launch"})
    /\ Succeeds(t, Shows(t, "leave"))

\* a form is stored: the page it came from shows that it was
Store(t) ==
    /\ Handling(t, {"store"})
    /\ Succeeds(t, FlashRequestBody(Back(t)))

ShowLoginForm(t) ==
    /\ Handling(t, {"showLogin"})
    /\ Succeeds(t, IF tab[t].copy.auth # None THEN RedirectsTo(t, "home") ELSE Shows(t, "page"))

\* the form names where to go after the login; an address of another host is not followed
Login(t) ==
    /\ Handling(t, {"login"})
    /\ \E person \in accounts, destiny \in Addresses :
        /\ tab' = [tab EXCEPT ![t] =
                [(IF destiny # "elsewhere" THEN RedirectsTo(t, destiny) ELSE Back(t))
                    EXCEPT !.copy.raw = person]]
        /\ loggedIn' = person
    /\ UNCHANGED <<accounts, store, visits, handed, overlap>>

Register(t) ==
    /\ Handling(t, {"register"})
    /\ \E person \in People \ accounts : accounts' = accounts \cup {person}
    /\ tab' = [tab EXCEPT ![t] = FlashRequestBody(Back(t))]
    /\ UNCHANGED <<store, visits, loggedIn, handed, overlap>>

RemoveSessionUser(session) == [session EXCEPT !.raw = None, !.auth = None]

Logout(t) ==
    /\ Handling(t, {"logout"})
    /\ tab' = [tab EXCEPT ![t] = [RedirectsTo(t, "home") EXCEPT !.copy = RemoveSessionUser(@)]]
    /\ loggedIn' = None
    /\ UNCHANGED <<accounts, store, visits, handed, overlap>>

-----------------------------------------------------------------------------
\* Mutant: the session is saved at the end of every request.
AlwaysSaved(request) == ~request.route.jwt

\* resave and saveUninitialized are off: a session is saved if it was changed
IsSaved(request) == request.copy # request.read

\* what the browser has after an answer: a page, a redirect to follow, another
\* site, or data for the script of the page that it shows
Answered(request) ==
    CASE request.answer = "redirect" ->
            [AtRest EXCEPT !.pc = "follow", !.visit = request.visit,
                !.target = request.target, !.referer = request.referer,
                !.showing = request.showing, !.hops = request.hops]
      [] request.answer = "page" -> [AtRest EXCEPT !.showing = request.route.at]
      [] request.answer = "leave" -> AtRest
      [] OTHER -> [AtRest EXCEPT !.showing = request.showing]

\* the answer is sent and the session saved
Finish(t) ==
    /\ tab[t].pc = "end"
    /\ store' = IF ~tab[t].route.jwt /\ IsSaved(tab[t]) THEN tab[t].copy ELSE store
    /\ tab' = [tab EXCEPT ![t] = Answered(@)]
    /\ UNCHANGED <<accounts, visits, loggedIn, handed, overlap>>

\* Redis drops a session that was not asked for in 24 hours.
Expire ==
    /\ Busy = {} /\ store # Blank
    /\ store' = Blank /\ loggedIn' = None
    /\ UNCHANGED <<accounts, tab, visits, handed, overlap>>

Handle(t) ==
    \/ Fails(t) \/ FailsToLaunch(t) \/ Show(t) \/ Answers(t) \/ Launch(t) \/ Store(t)
    \/ ShowLoginForm(t) \/ Login(t) \/ Register(t) \/ Logout(t)

Serve(t) == Arrive(t) \/ Authorize(t) \/ Handle(t) \/ Finish(t)

Next == Expire \/ \E t \in Tabs : Visits(t) \/ Follow(t) \/ Serve(t)

Spec == Init /\ [][Next]_vars

-----------------------------------------------------------------------------
(***************************************************************************)
(* While the browser waits for its answers, a handler behind the session   *)
(* guard runs only between a login and the logout that follows it, and     *)
(* knows the user who logged in (session-user/index.ts, guard.ts).         *)
(***************************************************************************)
HandlersKnowTheUser ==
    ~overlap => \A t \in Tabs :
        (Handling(t, {r.does : r \in Routes}) /\ ~tab[t].route.public /\ ~tab[t].route.jwt)
            => loggedIn # None /\ tab[t].copy.auth = loggedIn

(***************************************************************************)
(* While the browser waits for its answers, what a request leaves in the   *)
(* session is handed to one later request and to no other                  *)
(* (flash-session.middleware.ts).                                          *)
(***************************************************************************)
MessagesAreHandedOnce ==
    ~overlap => \A m \in Visit :
        /\ handed[m] <= 1
        /\ m \in Left(store) /\ handed[m] = 1 => \E t \in Tabs : m \in tab[t].locals

(***************************************************************************)
(* Requests that overlap may bring a user back after a logout, for each    *)
(* stores what it read.  One that is handed no message, leaves none, and   *)
(* reads a user already mounted never does (resave: false, main.ts).       *)
(***************************************************************************)
IsQuiet(request) ==
    /\ request.read.messages = NoMessages /\ request.copy.messages = NoMessages
    /\ request.read.auth = request.read.raw
    /\ request.route.does \notin {"login", "logout"}

QuietRequestsReviveNobody ==
    [][store.raw = None /\ store'.raw # None
        => \E t \in Tabs : tab[t].pc = "end" /\ tab'[t].pc # "end" /\ ~IsQuiet(tab[t])]_vars

(***************************************************************************)
(* A visit ends after two redirects, with something to look at: also when  *)
(* the page fails to which a form is sent back (the filters render the     *)
(* errors of a GET instead of sending the browser back).                   *)
(***************************************************************************)
RedirectsEnd == \A t \in Tabs : tab[t].hops <= 2
=============================================================================
