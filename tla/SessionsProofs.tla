--------------------------- MODULE SessionsProofs ---------------------------
(***************************************************************************)
(* The properties of Sessions, for any number of tabs, people and routes.  *)
(* The invariant follows one request from its arrival to its end: what its *)
(* copy of the session is made of what it read, and, as long as requests   *)
(* have not overlapped, what it read is what is still stored.              *)
(***************************************************************************)
EXTENDS Sessions, TLAPS

Serving == {"guard", "handle", "end"}

Leaves(q) == IF q.route.get THEN {} ELSE {q.visit}

\* what is known of one request, whatever the others do
RequestOK(q) ==
    /\ q.pc = "idle" => q.hops = 0
    /\ q.pc = "follow" => /\ q.hops <= 1 /\ q.target \in Addresses
                          /\ q.hops = 1 => q.target = "home"
    /\ q.pc \in {"arrived"} \cup Serving =>
        /\ q.route \in Routes /\ q.visit \in Visit /\ q.hops <= 2
        /\ q.hops >= 1 => q.route.get
        /\ q.hops = 2 => q.route.at = "home"
    /\ q.pc \in {"guard", "handle"} =>
        q.copy = IF q.route.jwt THEN q.read ELSE TakeMessages(MountSessionUser(q.read))
    /\ q.pc = "handle" /\ ~q.route.public /\ ~q.route.jwt => IsAuthenticated(q.copy)
    /\ q.pc \in Serving => /\ q.locals = IF q.route.jwt THEN {} ELSE Left(q.read)
                           /\ q.route.jwt => q.read = Blank
    /\ q.pc = "end" =>
        /\ Left(q.copy) \subseteq Leaves(q)
        /\ q.route.does \notin {"login", "logout"} /\ ~q.route.jwt =>
            /\ q.copy.raw = q.read.raw
            /\ q.copy.auth = MountSessionUser(q.read).auth
        /\ q.answer = "redirect" =>
            /\ q.target \in Addresses
            /\ q.route.get => q.target = "home" /\ q.route.at # "home"

\* a session of which p is the user
Knows(session, p) == session.raw = p /\ (p = None => session.auth = None)

\* the one request under way, with what is stored and who has logged in
AloneOK(q, stored, person, counts) ==
    /\ q.pc \in {"arrived"} \cup Serving /\ ~q.route.get =>
        counts[q.visit] = 0 /\ q.visit \notin Left(stored)
    /\ IF q.pc \in Serving /\ ~q.route.jwt
       THEN /\ stored = q.read
            /\ q.pc # "end" => Knows(q.read, person)
            /\ q.pc = "end" => Knows(q.copy, person)
       ELSE /\ Knows(stored, person)
            /\ \A m \in Left(stored) : counts[m] = 0

AloneInv ==
    ~overlap =>
        /\ \A t, u \in Tabs : tab[t].pc # "idle" /\ tab[u].pc # "idle" => t = u
        /\ \A t \in Tabs : tab[t].pc # "idle" => AloneOK(tab[t], store, loggedIn, handed)
        /\ Busy = {} => Knows(store, loggedIn) /\ \A m \in Left(store) : handed[m] = 0
        /\ \A m \in Visit : handed[m] <= 1
        /\ \A m \in Visit : m > visits => handed[m] = 0 /\ m \notin Left(store)

\* a request belongs to a visit that was made
Numbered == \A t \in Tabs : tab[t].pc # "idle" => tab[t].visit \in 1 .. visits

SessionsInv == TypeOK /\ AloneInv /\ Numbered /\ \A t \in Tabs : RequestOK(tab[t])

-----------------------------------------------------------------------------
(***************************************************************************)
(* Sessions and requests.                                                  *)
(***************************************************************************)
LEMMA BlankIs ==
    /\ Blank \in Session /\ Blank.raw = None /\ Blank.auth = None
    /\ Blank.messages.error = {} /\ Blank.messages.validation = {}
    /\ Blank.messages.flash = None
<1> DEFINE m == [error |-> {}, validation |-> {}, flash |-> None]
<1>1. [NoMessages EXCEPT !.flash = None] = m
  BY DEF NoMessages
<1>2. m \in Messages
  BY DEF Messages
<1> QED  BY <1>1, <1>2 DEF Blank, Session

LEMMA LeftOfBlank == Left(Blank) = {}
BY BlankIs DEF Left

LEMMA NothingLeft ==
    ASSUME NEW s, s.messages = NoMessages
    PROVE  Left(s) = {}
BY SessionsAssumption DEF Left, NoMessages

LEMMA LeftIsVisits ==
    ASSUME NEW s \in Session
    PROVE  Left(s) \subseteq Visit
<1>1. s.messages \in Messages
  BY DEF Session
<1>2. /\ s.messages.error \subseteq Visit /\ s.messages.validation \subseteq Visit
      /\ s.messages.flash # None => s.messages.flash \subseteq Visit
  BY <1>1 DEF Messages
<1> QED  BY <1>2 DEF Left

LEMMA SameSession ==
    ASSUME NEW s \in Session, NEW u \in Session, s.raw = u.raw, s.auth = u.auth,
           s.messages = u.messages
    PROVE  s = u
BY DEF Session

LEMMA Mounted ==
    ASSUME NEW s \in Session
    PROVE  LET u == TakeMessages(MountSessionUser(s))
           IN  /\ u \in Session /\ u.messages = NoMessages /\ u.raw = s.raw
               /\ u.auth = MountSessionUser(s).auth
               /\ u.auth = IF s.raw # None THEN s.raw ELSE s.auth
<1> DEFINE v == MountSessionUser(s)
<1>1. NoMessages \in Messages
  BY DEF NoMessages, Messages
<1>2. /\ v \in Session /\ v.raw = s.raw
      /\ v.auth = IF s.raw # None THEN s.raw ELSE s.auth
  BY DEF MountSessionUser, Session
<1> HIDE DEF v
<1>3. /\ TakeMessages(v) \in Session /\ TakeMessages(v).messages = NoMessages
      /\ TakeMessages(v).raw = v.raw /\ TakeMessages(v).auth = v.auth
  BY <1>1, <1>2 DEF TakeMessages, Session
<1> QED  BY <1>2, <1>3 DEF v

LEMMA KnownWhenMounted ==
    ASSUME NEW s \in Session, NEW p, Knows(s, p)
    PROVE  /\ Knows(TakeMessages(MountSessionUser(s)), p)
           /\ TakeMessages(MountSessionUser(s)).auth = p
BY Mounted DEF Knows

\* the copy of a request that no handler has changed yet
LEMMA CopyIs ==
    ASSUME NEW q \in Request, RequestOK(q), q.pc \in {"guard", "handle"}
    PROVE  /\ q.copy \in Session /\ Left(q.copy) = {} /\ q.route \in Routes
           /\ ~q.route.jwt => q.copy.messages = NoMessages /\ q.copy.raw = q.read.raw
                              /\ q.copy.auth = MountSessionUser(q.read).auth
<1>1. q.copy \in Session /\ q.read \in Session /\ q.route \in Routes
  BY DEF Request, RequestOK, Serving
<1>2. CASE q.route.jwt
  <2>1. q.copy = Blank
    BY <1>2 DEF RequestOK, Serving
  <2> QED  BY <1>1, <1>2, <2>1, LeftOfBlank
<1>3. CASE ~q.route.jwt
  <2>1. q.copy = TakeMessages(MountSessionUser(q.read))
    BY <1>3 DEF RequestOK
  <2> QED  BY <1>1, <1>3, <2>1, Mounted, NothingLeft
<1> QED  BY <1>2, <1>3

-----------------------------------------------------------------------------
(***************************************************************************)
(* What a handler or a filter makes of a request.                          *)
(***************************************************************************)
\* p is q with an answer
Concludes(q, p) ==
    /\ p \in Request /\ p.pc = "end" /\ p.route = q.route /\ p.visit = q.visit
    /\ p.read = q.read /\ p.locals = q.locals /\ p.hops = q.hops
    /\ Left(p.copy) \subseteq Leaves(q)
    /\ p.answer = "redirect" => /\ p.target \in Addresses
                                /\ q.route.get => p.target = "home" /\ q.route.at # "home"

SameUser(q, p) == p.copy.raw = q.copy.raw /\ p.copy.auth = q.copy.auth

Handled(t) == tab[t] \in Request /\ RequestOK(tab[t]) /\ tab[t].pc \in {"guard", "handle"}

LEMMA ShowsIs ==
    ASSUME NEW t \in Tabs, Handled(t), NEW answer \in {"page", "json", "leave"}
    PROVE  Concludes(tab[t], Shows(t, answer)) /\ SameUser(tab[t], Shows(t, answer))
<1>1. Left(tab[t].copy) = {}
  BY CopyIs DEF Handled
<1>2. PICK p : p = Shows(t, answer)
  OBVIOUS
<1>3. /\ p \in Request /\ p.pc = "end" /\ p.route = tab[t].route /\ p.visit = tab[t].visit
      /\ p.read = tab[t].read /\ p.locals = tab[t].locals /\ p.hops = tab[t].hops
      /\ p.copy = tab[t].copy /\ p.answer = answer
  BY <1>2 DEF Handled, Shows, Request
<1>4. Concludes(tab[t], p) /\ SameUser(tab[t], p)
  BY <1>1, <1>3 DEF Concludes, SameUser
<1> QED  BY <1>2, <1>4

LEMMA RedirectsIs ==
    ASSUME NEW t \in Tabs, Handled(t), NEW target \in Addresses,
           tab[t].route.get => target = "home" /\ tab[t].route.at # "home"
    PROVE  /\ Concludes(tab[t], RedirectsTo(t, target))
           /\ SameUser(tab[t], RedirectsTo(t, target))
           /\ RedirectsTo(t, target).copy = tab[t].copy
<1>1. Left(tab[t].copy) = {}
  BY CopyIs DEF Handled
<1>2. PICK p : p = RedirectsTo(t, target)
  OBVIOUS
<1>3. /\ p \in Request /\ p.pc = "end" /\ p.route = tab[t].route /\ p.visit = tab[t].visit
      /\ p.read = tab[t].read /\ p.locals = tab[t].locals /\ p.hops = tab[t].hops
      /\ p.copy = tab[t].copy /\ p.target = target
  BY <1>2 DEF Handled, RedirectsTo, Request
<1>4. Concludes(tab[t], p) /\ SameUser(tab[t], p)
  BY <1>1, <1>3 DEF Concludes, SameUser
<1> QED  BY <1>2, <1>3, <1>4

LEMMA BackIs ==
    ASSUME NEW t \in Tabs, Handled(t), ~tab[t].route.get
    PROVE  Concludes(tab[t], Back(t)) /\ SameUser(tab[t], Back(t)) /\ Back(t).copy = tab[t].copy
<1>1. PICK target : target = IF tab[t].referer = None THEN "home" ELSE tab[t].referer
  OBVIOUS
<1>2. target \in Addresses
  BY <1>1, SessionsAssumption DEF Handled, Request
<1>3. Back(t) = RedirectsTo(t, target)
  BY <1>1 DEF Back
<1> QED  BY <1>2, <1>3, RedirectsIs

\* a message more in the copy of a request that was not sent with GET
LEMMA LeavingIs ==
    ASSUME NEW q \in Request, q.route \in Routes, ~q.route.get, q.visit \in Visit,
           NEW p, Concludes(q, p), SameUser(q, p), NEW field \in {"error", "validation"}
    PROVE  Concludes(q, Leaving(p, field)) /\ SameUser(q, Leaving(p, field))
<1>1. p \in Request /\ p.copy \in Session /\ p.copy.messages \in Messages /\ p.visit = q.visit
      /\ Left(p.copy) \subseteq {q.visit}
  BY DEF Concludes, Request, Session, Leaves
<1>2. PICK v : v = p.visit
  OBVIOUS
<1>3. PICK ms : ms = [p.copy.messages EXCEPT ![field] = {v}]
  OBVIOUS
<1>4. /\ ms \in Messages
      /\ ms.error \subseteq p.copy.messages.error \cup {v}
      /\ ms.validation \subseteq p.copy.messages.validation \cup {v}
      /\ ms.flash = p.copy.messages.flash
  BY <1>1, <1>2, <1>3 DEF Messages
<1>5. PICK c : c = [p.copy EXCEPT !.messages = ms]
  OBVIOUS
<1>6. c \in Session /\ c.raw = p.copy.raw /\ c.auth = p.copy.auth /\ c.messages = ms
  BY <1>1, <1>4, <1>5 DEF Session
<1>7. Leaving(p, field) = [p EXCEPT !.copy = c]
  BY <1>1, <1>2, <1>3, <1>5 DEF Leaving
<1>8. PICK z : z = Leaving(p, field)
  OBVIOUS
<1>9. /\ z \in Request /\ z.copy = c /\ z.pc = p.pc /\ z.route = p.route /\ z.visit = p.visit
      /\ z.read = p.read /\ z.locals = p.locals /\ z.hops = p.hops /\ z.answer = p.answer
      /\ z.target = p.target
  BY <1>1, <1>6, <1>7, <1>8 DEF Request
<1>10. Left(c) \subseteq {q.visit}
  BY <1>1, <1>2, <1>4, <1>6 DEF Left
<1>11. Concludes(q, z) /\ SameUser(q, z)
  BY <1>6, <1>9, <1>10 DEF Concludes, SameUser, Leaves
<1> QED  BY <1>8, <1>11

LEMMA FlashIs ==
    ASSUME NEW q \in Request, q.route \in Routes, ~q.route.get, q.visit \in Visit,
           NEW p, Concludes(q, p), SameUser(q, p)
    PROVE  Concludes(q, FlashRequestBody(p)) /\ SameUser(q, FlashRequestBody(p))
<1>1. p \in Request /\ p.copy \in Session /\ p.copy.messages \in Messages /\ p.visit = q.visit
      /\ Left(p.copy) \subseteq {q.visit}
  BY DEF Concludes, Request, Session, Leaves
<1>2. PICK f : f = (IF p.copy.messages.flash = None THEN {} ELSE p.copy.messages.flash)
                   \cup {p.visit}
  OBVIOUS
<1>3. PICK ms : ms = [p.copy.messages EXCEPT !.flash = f]
  OBVIOUS
<1>4. /\ f \in SUBSET Visit
      /\ ms \in Messages /\ ms.error = p.copy.messages.error
      /\ ms.validation = p.copy.messages.validation /\ ms.flash = f
  BY <1>1, <1>2, <1>3 DEF Messages
<1>5. PICK c : c = [p.copy EXCEPT !.messages = ms]
  OBVIOUS
<1>6. c \in Session /\ c.raw = p.copy.raw /\ c.auth = p.copy.auth /\ c.messages = ms
  BY <1>1, <1>4, <1>5 DEF Session
<1>7. FlashRequestBody(p) = [p EXCEPT !.copy = c]
  BY <1>1, <1>2, <1>3, <1>5 DEF FlashRequestBody
<1>8. PICK z : z = FlashRequestBody(p)
  OBVIOUS
<1>9. /\ z \in Request /\ z.copy = c /\ z.pc = p.pc /\ z.route = p.route /\ z.visit = p.visit
      /\ z.read = p.read /\ z.locals = p.locals /\ z.hops = p.hops /\ z.answer = p.answer
      /\ z.target = p.target
  BY <1>1, <1>6, <1>7, <1>8 DEF Request
<1>10. Left(c) \subseteq {q.visit}
  BY <1>1, <1>2, <1>4, <1>6 DEF Left
<1>11. Concludes(q, z) /\ SameUser(q, z)
  BY <1>6, <1>9, <1>10 DEF Concludes, SameUser, Leaves
<1> QED  BY <1>8, <1>11

LEMMA AnswerErrorIs ==
    ASSUME NEW t \in Tabs, Handled(t), NEW field \in {"error", "validation"}
    PROVE  Concludes(tab[t], AnswerError(t, field)) /\ SameUser(tab[t], AnswerError(t, field))
<1>1. tab[t].route \in Routes /\ tab[t].visit \in Visit /\ tab[t] \in Request
  BY DEF Handled, RequestOK, Serving
<1>2. CASE ShouldRender(tab[t].route)
  BY <1>2, ShowsIs DEF AnswerError
<1>3. CASE ~ShouldRender(tab[t].route) /\ tab[t].route.mvc
  <2>1. ~tab[t].route.get
    BY <1>3 DEF ShouldRender
  <2>2. Concludes(tab[t], Back(t)) /\ SameUser(tab[t], Back(t))
    BY <2>1, BackIs
  <2>3. /\ Concludes(tab[t], Leaving(Back(t), field))
        /\ SameUser(tab[t], Leaving(Back(t), field))
    BY <1>1, <2>1, <2>2, LeavingIs
  <2>4. AnswerError(t, field) = FlashRequestBody(Leaving(Back(t), field))
    BY <1>3 DEF AnswerError
  <2> QED  BY <1>1, <2>1, <2>3, <2>4, FlashIs
<1>4. CASE ~ShouldRender(tab[t].route) /\ ~tab[t].route.mvc
  BY <1>4, ShowsIs DEF AnswerError
<1> QED  BY <1>2, <1>3, <1>4

LEMMA AnswerLtiErrorIs ==
    ASSUME NEW t \in Tabs, Handled(t), NEW error \in LtiErrors
    PROVE  /\ Concludes(tab[t], AnswerLtiError(t, error))
           /\ SameUser(tab[t], AnswerLtiError(t, error))
BY ShowsIs, AnswerErrorIs DEF AnswerLtiError

-----------------------------------------------------------------------------
(***************************************************************************)
(* The invariant is kept.                                                  *)
(***************************************************************************)
LEMMA Becomes ==
    ASSUME SessionsInv, NEW t \in Tabs, tab[t].pc # "idle", NEW q \in Request, RequestOK(q),
           q.pc = "follow" => q.target # None, tab' = [tab EXCEPT ![t] = q],
           q.pc # "idle" => q.visit = tab[t].visit, visits' = visits
    PROVE  /\ Numbered' /\ tab' \in [Tabs -> Request] /\ tab'[t] = q
           /\ \A u \in Tabs : u # t => tab'[u] = tab[u]
           /\ \A u \in Tabs : RequestOK(tab'[u])
           /\ \A u \in Tabs : tab'[u].pc = "follow" => tab'[u].target # None
BY DEF SessionsInv, TypeOK, Numbered

\* while requests do not overlap, a step of one of them is a step of the only one
LEMMA OnlyOne ==
    ASSUME SessionsInv, NEW t \in Tabs, tab[t].pc # "idle", NEW q \in Request,
           tab' = [tab EXCEPT ![t] = q], overlap' = overlap, visits' = visits,
           ~overlap /\ q.pc # "idle" => AloneOK(q, store', loggedIn', handed'),
           ~overlap /\ q.pc = "idle" => /\ Knows(store', loggedIn')
                                        /\ \A m \in Left(store') : handed'[m] = 0,
           ~overlap => /\ \A m \in Visit : handed'[m] <= 1
                       /\ \A m \in Visit : m > visits => handed'[m] = 0 /\ m \notin Left(store')
    PROVE  AloneInv'
<1> SUFFICES ASSUME ~overlap PROVE AloneInv'
  BY DEF AloneInv
<1>1. \A u \in Tabs : u # t => tab[u].pc = "idle"
  BY DEF SessionsInv, AloneInv
<1>2. /\ \A u \in Tabs : u # t => tab'[u].pc = "idle"
      /\ tab'[t] = q
  BY <1>1 DEF SessionsInv, TypeOK
<1>3. \A x, u \in Tabs : tab'[x].pc # "idle" /\ tab'[u].pc # "idle" => x = u
  BY <1>2
<1>4. ASSUME NEW u \in Tabs, tab'[u].pc # "idle"
      PROVE  AloneOK(tab'[u], store', loggedIn', handed')
  BY <1>2, <1>4
<1>5. Busy' = {} => q.pc = "idle"
  BY <1>2 DEF Busy
<1> QED  BY <1>3, <1>4, <1>5 DEF AloneInv

LEMMA Concluded ==
    ASSUME SessionsInv, NEW t \in Tabs, Handled(t), NEW p, Concludes(tab[t], p),
           tab' = [tab EXCEPT ![t] = p], UNCHANGED <<store, visits, handed, overlap>>,
           accounts' \subseteq People, loggedIn' \in People \cup {None},
           \/ SameUser(tab[t], p) /\ loggedIn' = loggedIn
           \/ tab[t].route.does \in {"login", "logout"} /\ Knows(p.copy, loggedIn')
    PROVE  SessionsInv'
<1> DEFINE q == tab[t]
<1>1. /\ q \in Request /\ RequestOK(q) /\ q.pc \in {"guard", "handle"} /\ q.pc \in Serving
      /\ q.route \in Routes /\ q.read \in Session
  BY DEF Handled, RequestOK, Serving, Request
<1>2. /\ p \in Request /\ p.pc = "end" /\ p.route = q.route /\ p.visit = q.visit
      /\ p.read = q.read /\ p.locals = q.locals /\ p.hops = q.hops
  BY DEF Concludes
<1>0. (SameUser(q, p) /\ loggedIn' = loggedIn) \/ Knows(p.copy, loggedIn')
  OBVIOUS
<1> HIDE DEF q
<1>3. RequestOK(p)
  <2>1. /\ p.route \in Routes /\ p.visit \in Visit /\ p.hops <= 2
        /\ p.hops >= 1 => p.route.get
        /\ p.hops = 2 => p.route.at = "home"
    BY <1>1, <1>2 DEF RequestOK
  <2>2. p.locals = (IF p.route.jwt THEN {} ELSE Left(p.read)) /\ (p.route.jwt => p.read = Blank)
    BY <1>1, <1>2 DEF RequestOK
  <2>3. Left(p.copy) \subseteq Leaves(p)
    BY <1>2 DEF Concludes, Leaves, q
  <2>4. p.route.does \notin {"login", "logout"} /\ ~p.route.jwt =>
            p.copy.raw = p.read.raw /\ p.copy.auth = MountSessionUser(p.read).auth
    BY <1>1, <1>2, CopyIs DEF SameUser, q
  <2>5. p.answer = "redirect" =>
            p.target \in Addresses
            /\ (p.route.get => p.target = "home" /\ p.route.at # "home")
    BY <1>2 DEF Concludes, q
  <2> QED  BY <1>2, <2>1, <2>2, <2>3, <2>4, <2>5 DEF RequestOK
<1>4. ~overlap => AloneOK(p, store', loggedIn', handed')
  <2> SUFFICES ASSUME ~overlap PROVE AloneOK(p, store', loggedIn', handed')
    OBVIOUS
  <2>1. AloneOK(q, store, loggedIn, handed)
    BY <1>1 DEF SessionsInv, AloneInv, q
  <2>2. ~p.route.get => handed'[p.visit] = 0 /\ p.visit \notin Left(store')
    BY <1>1, <1>2, <2>1 DEF AloneOK
  <2>3. CASE p.route.jwt
    <3>1. q.route.does \notin {"login", "logout"}
      BY <1>1, <1>2, <2>3, RoutesAssumption
    <3>2. loggedIn' = loggedIn
      BY <3>1 DEF q
    <3>3. Knows(store, loggedIn) /\ \A m \in Left(store) : handed[m] = 0
      BY <1>2, <2>1, <2>3 DEF AloneOK
    <3> QED  BY <1>2, <2>2, <2>3, <3>2, <3>3 DEF AloneOK
  <2>4. CASE ~p.route.jwt
    <3>1. store = q.read /\ Knows(q.read, loggedIn)
      BY <1>1, <1>2, <2>1, <2>4 DEF AloneOK
    <3>2. Knows(p.copy, loggedIn')
      <4>1. CASE SameUser(q, p) /\ loggedIn' = loggedIn
        <5>1. p.copy.raw = q.copy.raw /\ p.copy.auth = q.copy.auth
          BY <4>1 DEF SameUser
        <5>2. q.copy = TakeMessages(MountSessionUser(q.read))
          BY <1>1, <1>2, <2>4 DEF RequestOK
        <5>3. Knows(q.copy, loggedIn)
          BY <1>1, <3>1, <5>2, KnownWhenMounted
        <5> QED  BY <4>1, <5>1, <5>3 DEF Knows
      <4>2. CASE Knows(p.copy, loggedIn')
        BY <4>2
      <4> QED  BY <1>0, <4>1, <4>2
    <3> QED  BY <1>2, <2>2, <2>4, <3>1, <3>2 DEF AloneOK, Serving
  <2> QED  BY <2>3, <2>4
<1>5. AloneInv'
  <2>1. ~overlap => /\ \A m \in Visit : handed'[m] <= 1
                    /\ \A m \in Visit : m > visits => handed'[m] = 0 /\ m \notin Left(store')
    BY DEF SessionsInv, AloneInv
  <2>2. tab[t].pc # "idle"
    BY <1>1 DEF q
  <2> QED  BY <1>2, <1>4, <2>1, <2>2, OnlyOne
<1>6. TypeOK' /\ Numbered' /\ \A u \in Tabs : RequestOK(tab'[u])
  <2>0. tab[t].pc # "idle" /\ p.visit = tab[t].visit
    BY <1>1, <1>2 DEF q
  <2>1. /\ Numbered' /\ tab' \in [Tabs -> Request]
        /\ \A u \in Tabs : RequestOK(tab'[u])
        /\ \A u \in Tabs : tab'[u].pc = "follow" => tab'[u].target # None
    BY <1>2, <1>3, <2>0, Becomes
  <2> QED  BY <2>1 DEF SessionsInv, TypeOK
<1> QED  BY <1>5, <1>6 DEF SessionsInv

LEMMA IsHandled ==
    ASSUME SessionsInv, NEW t \in Tabs, tab[t].pc \in {"guard", "handle"}
    PROVE  /\ Handled(t) /\ tab[t].route \in Routes /\ tab[t].visit \in Visit
           /\ tab[t].copy \in Session /\ tab[t] \in Request
<1>1. Handled(t)
  BY DEF Handled, SessionsInv, TypeOK
<1> QED  BY <1>1 DEF Handled, RequestOK, Serving, Request

\* a handler that changes neither who is logged in nor what is stored
LEMMA SucceedsStep ==
    ASSUME SessionsInv, NEW t \in Tabs, Handled(t), NEW p, Succeeds(t, p),
           Concludes(tab[t], p), SameUser(tab[t], p)
    PROVE  SessionsInv'
<1>1. /\ tab' = [tab EXCEPT ![t] = p]
      /\ UNCHANGED <<accounts, store, visits, loggedIn, handed, overlap>>
  BY DEF Succeeds
<1>2. accounts \subseteq People /\ loggedIn \in People \cup {None}
  BY DEF SessionsInv, TypeOK
<1> QED  BY <1>1, <1>2, Concluded

LEMMA HandleStep ==
    ASSUME SessionsInv, NEW t \in Tabs, Handle(t)
    PROVE  SessionsInv'
<1>0. tab[t].pc = "handle"
  BY DEF Handle, Handling, Fails, FailsToLaunch, Show, Answers, Launch, Store, ShowLoginForm,
         Login, Register, Logout
<1>1. /\ Handled(t) /\ tab[t].route \in Routes /\ tab[t].visit \in Visit
      /\ tab[t].copy \in Session /\ tab[t] \in Request
  BY <1>0, IsHandled
<1>2. accounts \subseteq People /\ loggedIn \in People \cup {None}
  BY DEF SessionsInv, TypeOK
<1>3. tab[t].route.does \in {"login", "register", "store"} => ~tab[t].route.get
  BY <1>1, RoutesAssumption
<1>4. CASE Fails(t)
  BY <1>1, <1>4, AnswerErrorIs, SucceedsStep DEF Fails
<1>5. CASE FailsToLaunch(t)
  BY <1>1, <1>5, AnswerLtiErrorIs, SucceedsStep DEF FailsToLaunch
<1>6. CASE Show(t) \/ Answers(t) \/ Launch(t)
  BY <1>1, <1>6, ShowsIs, SucceedsStep DEF Show, Answers, Launch
<1>7. CASE Store(t)
  <2>1. ~tab[t].route.get
    BY <1>3, <1>7 DEF Store, Handling
  <2>2. /\ Concludes(tab[t], FlashRequestBody(Back(t)))
        /\ SameUser(tab[t], FlashRequestBody(Back(t)))
    BY <1>1, <2>1, BackIs, FlashIs
  <2> QED  BY <1>1, <1>7, <2>2, SucceedsStep DEF Store
<1>8. CASE ShowLoginForm(t)
  <2>1. tab[t].route.get => tab[t].route.at # "home"
    BY <1>1, <1>8, RoutesAssumption DEF ShowLoginForm, Handling
  <2>2. /\ Concludes(tab[t], RedirectsTo(t, "home"))
        /\ SameUser(tab[t], RedirectsTo(t, "home"))
    BY <1>1, <2>1, RedirectsIs, SessionsAssumption
  <2> QED  BY <1>1, <1>8, <2>2, ShowsIs, SucceedsStep DEF ShowLoginForm
<1>9. CASE Login(t)
  <2>0. ~tab[t].route.get /\ tab[t].route.does = "login"
    BY <1>3, <1>9 DEF Login, Handling
  <2>1. PICK person \in accounts, destiny \in Addresses :
            /\ tab' = [tab EXCEPT ![t] =
                  [(IF destiny # "elsewhere" THEN RedirectsTo(t, destiny) ELSE Back(t))
                      EXCEPT !.copy.raw = person]]
            /\ loggedIn' = person
    BY <1>9 DEF Login
  <2>2. PICK p : p = IF destiny # "elsewhere" THEN RedirectsTo(t, destiny) ELSE Back(t)
    OBVIOUS
  <2>3. Concludes(tab[t], p) /\ p.copy = tab[t].copy
    BY <1>1, <2>0, <2>2, RedirectsIs, BackIs
  <2>4. PICK c : c = [p.copy EXCEPT !.raw = person]
    OBVIOUS
  <2>5. c \in Session /\ c.raw = person /\ c.auth = p.copy.auth /\ c.messages = p.copy.messages
    BY <1>1, <1>2, <2>3, <2>4 DEF Session
  <2>6. PICK z : z = [p EXCEPT !.copy = c]
    OBVIOUS
  <2>7. p \in Request
    BY <2>3 DEF Concludes
  <2>8. /\ z \in Request /\ z.copy = c /\ z.pc = p.pc /\ z.route = p.route
        /\ z.visit = p.visit /\ z.read = p.read /\ z.locals = p.locals /\ z.hops = p.hops
        /\ z.answer = p.answer /\ z.target = p.target
    BY <2>5, <2>6, <2>7 DEF Request
  <2>9. Left(c) = Left(p.copy)
    BY <2>5 DEF Left
  <2>10. Concludes(tab[t], z)
    BY <2>3, <2>8, <2>9 DEF Concludes
  <2>11. Knows(z.copy, person) /\ person \in People
    BY <1>2, <2>5, <2>8, SessionsAssumption DEF Knows
  <2>12. tab' = [tab EXCEPT ![t] = z]
    BY <2>1, <2>2, <2>4, <2>6
  <2>13. UNCHANGED <<accounts, store, visits, handed, overlap>>
    BY <1>9 DEF Login
  <2>14. loggedIn' = person
    BY <2>1
  <2> QED  BY <1>1, <1>2, <2>0, <2>10, <2>11, <2>12, <2>13, <2>14, Concluded
<1>10. CASE Register(t)
  <2>1. ~tab[t].route.get
    BY <1>3, <1>10 DEF Register, Handling
  <2>2. /\ Concludes(tab[t], FlashRequestBody(Back(t)))
        /\ SameUser(tab[t], FlashRequestBody(Back(t)))
    BY <1>1, <2>1, BackIs, FlashIs
  <2>3. accounts' \subseteq People
    BY <1>2, <1>10 DEF Register
  <2>4. /\ tab' = [tab EXCEPT ![t] = FlashRequestBody(Back(t))]
        /\ UNCHANGED <<store, visits, loggedIn, handed, overlap>>
    BY <1>10 DEF Register
  <2> QED  BY <1>1, <1>2, <2>2, <2>3, <2>4, Concluded
<1>11. CASE Logout(t)
  <2>0. tab[t].route.does = "logout" /\ (tab[t].route.get => tab[t].route.at # "home")
    BY <1>1, <1>11, RoutesAssumption DEF Logout, Handling
  <2>1. PICK p : p = RedirectsTo(t, "home")
    OBVIOUS
  <2>2. Concludes(tab[t], p) /\ p.copy = tab[t].copy
    BY <1>1, <2>0, <2>1, RedirectsIs, SessionsAssumption
  <2>3. PICK c : c = RemoveSessionUser(p.copy)
    OBVIOUS
  <2>4. c \in Session /\ c.raw = None /\ c.auth = None /\ c.messages = p.copy.messages
    BY <1>1, <2>2, <2>3 DEF Session, RemoveSessionUser
  <2>5. PICK z : z = [p EXCEPT !.copy = c]
    OBVIOUS
  <2>6. p \in Request
    BY <2>2 DEF Concludes
  <2>7. /\ z \in Request /\ z.copy = c /\ z.pc = p.pc /\ z.route = p.route
        /\ z.visit = p.visit /\ z.read = p.read /\ z.locals = p.locals /\ z.hops = p.hops
        /\ z.answer = p.answer /\ z.target = p.target
    BY <2>4, <2>5, <2>6 DEF Request
  <2>8. Left(c) = Left(p.copy)
    BY <2>4 DEF Left
  <2>9. Concludes(tab[t], z)
    BY <2>2, <2>7, <2>8 DEF Concludes
  <2>10. tab' = [tab EXCEPT ![t] = z] /\ loggedIn' = None
    BY <1>11, <2>1, <2>3, <2>5 DEF Logout
  <2>11. Knows(z.copy, loggedIn')
    BY <2>4, <2>7, <2>10 DEF Knows
  <2>12. UNCHANGED <<accounts, store, visits, handed, overlap>>
    BY <1>11 DEF Logout
  <2> QED  BY <1>1, <1>2, <2>0, <2>9, <2>10, <2>11, <2>12, Concluded
<1> QED  BY <1>4, <1>5, <1>6, <1>7, <1>8, <1>9, <1>10, <1>11 DEF Handle

LEMMA AuthorizeStep ==
    ASSUME SessionsInv, NEW t \in Tabs, Authorize(t)
    PROVE  SessionsInv'
<1>0. tab[t].pc = "guard" /\ UNCHANGED <<accounts, store, visits, loggedIn, handed, overlap>>
  BY DEF Authorize
<1>1. /\ Handled(t) /\ tab[t].route \in Routes /\ tab[t] \in Request
  BY <1>0, IsHandled
<1>2. CASE \E answer \in {"page", "json"} : tab' = [tab EXCEPT ![t] = Shows(t, answer)]
  <2>1. \E answer \in {"page", "json"} : Succeeds(t, Shows(t, answer))
    BY <1>0, <1>2 DEF Succeeds
  <2> QED  BY <1>1, <2>1, ShowsIs, SucceedsStep
<1>3. CASE /\ tab' = [tab EXCEPT ![t] = [tab[t] EXCEPT !.pc = "handle"]]
           /\ ~tab[t].route.public /\ ~tab[t].route.jwt => IsAuthenticated(tab[t].copy)
  <2>1. PICK q : q = [tab[t] EXCEPT !.pc = "handle"]
    OBVIOUS
  <2>2. /\ q \in Request /\ q.pc = "handle" /\ q.route = tab[t].route /\ q.visit = tab[t].visit
        /\ q.read = tab[t].read /\ q.copy = tab[t].copy /\ q.locals = tab[t].locals
        /\ q.hops = tab[t].hops
    BY <1>1, <2>1 DEF Request
  <2>3. RequestOK(q)
    BY <1>0, <1>1, <1>3, <2>2 DEF Handled, RequestOK, Serving
  <2>4. tab' = [tab EXCEPT ![t] = q]
    BY <1>3, <2>1
  <2>5. ~overlap => AloneOK(q, store', loggedIn', handed')
    <3> SUFFICES ASSUME ~overlap PROVE AloneOK(q, store', loggedIn', handed')
      OBVIOUS
    <3>1. AloneOK(tab[t], store, loggedIn, handed)
      BY <1>0 DEF SessionsInv, AloneInv
    <3> QED  BY <1>0, <2>2, <3>1 DEF AloneOK, Serving
  <2>6. ~overlap => /\ \A m \in Visit : handed'[m] <= 1
                    /\ \A m \in Visit : m > visits => handed'[m] = 0 /\ m \notin Left(store')
    BY <1>0 DEF SessionsInv, AloneInv
  <2>7. AloneInv'
    BY <1>0, <2>2, <2>4, <2>5, <2>6, OnlyOne
  <2>8. /\ Numbered' /\ tab' \in [Tabs -> Request]
        /\ \A u \in Tabs : RequestOK(tab'[u])
        /\ \A u \in Tabs : tab'[u].pc = "follow" => tab'[u].target # None
    BY <1>0, <2>2, <2>3, <2>4, Becomes
  <2>9. TypeOK'
    BY <1>0, <2>8 DEF SessionsInv, TypeOK
  <2> QED  BY <2>7, <2>8, <2>9 DEF SessionsInv
<1> QED  BY <1>2, <1>3 DEF Authorize

LEMMA ArriveStep ==
    ASSUME SessionsInv, NEW t \in Tabs, Arrive(t)
    PROVE  SessionsInv'
<1> DEFINE q == tab[t]
           read == IF q.route.jwt THEN Blank ELSE store
           locals == IF HasMiddlewares(q.route) THEN Left(read) ELSE {}
           copy == IF HasMiddlewares(q.route) THEN TakeMessages(MountSessionUser(read)) ELSE read
<1>0. /\ q.pc = "arrived" /\ UNCHANGED <<accounts, store, visits, loggedIn, overlap>>
      /\ tab' = [tab EXCEPT ![t] = [q EXCEPT !.pc = "guard", !.read = read, !.locals = locals,
                                             !.copy = copy]]
      /\ handed' = [m \in Visit |-> IF m \in locals /\ handed[m] < 2
                                    THEN handed[m] + 1 ELSE handed[m]]
  BY DEF Arrive
<1>1. /\ q \in Request /\ RequestOK(q) /\ q.route \in Routes /\ q.visit \in Visit
      /\ store \in Session /\ handed \in [Visit -> 0 .. 2]
  BY <1>0 DEF SessionsInv, TypeOK, RequestOK
<1>2. read \in Session /\ locals \subseteq Visit /\ copy \in Session
  BY <1>1, BlankIs, LeftIsVisits, Mounted
<1>3. PICK p : p = [q EXCEPT !.pc = "guard", !.read = read, !.locals = locals, !.copy = copy]
  OBVIOUS
<1>4. /\ p \in Request /\ p.pc = "guard" /\ p.route = q.route /\ p.visit = q.visit
      /\ p.read = read /\ p.locals = locals /\ p.copy = copy /\ p.hops = q.hops
  BY <1>1, <1>2, <1>3, ZenonT(40) DEF Request
<1>5. /\ q.route.jwt => locals = {} /\ copy = Blank /\ read = Blank
      /\ ~q.route.jwt => /\ read = store /\ locals = Left(store)
                         /\ copy = TakeMessages(MountSessionUser(store))
  BY DEF HasMiddlewares
<1> HIDE DEF read, locals, copy
<1>6. RequestOK(p)
  BY <1>0, <1>1, <1>4, <1>5 DEF RequestOK, Serving
<1>7. ASSUME ~overlap
      PROVE  /\ \A m \in Visit : handed'[m] = IF m \in locals THEN 1 ELSE handed[m]
             /\ \A m \in Visit : handed[m] <= 1
             /\ \A m \in Visit : m > visits => handed[m] = 0 /\ m \notin Left(store)
             /\ AloneOK(q, store, loggedIn, handed)
             /\ \A m \in Left(store) : handed[m] = 0
  <2>1. /\ AloneOK(q, store, loggedIn, handed)
        /\ \A m \in Visit : handed[m] <= 1
        /\ \A m \in Visit : m > visits => handed[m] = 0 /\ m \notin Left(store)
    BY <1>0, <1>7 DEF SessionsInv, AloneInv
  <2>2. \A m \in Left(store) : handed[m] = 0
    BY <1>0, <2>1 DEF AloneOK, Serving
  <2>3. \A m \in locals : handed[m] = 0
    BY <1>5, <2>2
  <2> QED  BY <1>0, <1>1, <2>1, <2>2, <2>3
<1>8. ASSUME ~overlap PROVE AloneOK(p, store', loggedIn', handed')
  <2>1. ~p.route.get => handed'[p.visit] = 0 /\ p.visit \notin Left(store)
    BY <1>0, <1>1, <1>4, <1>5, <1>7, <1>8 DEF AloneOK
  <2>2. Knows(store, loggedIn)
    BY <1>0, <1>7, <1>8 DEF AloneOK, Serving
  <2>3. CASE p.route.jwt
    <3>1. \A m \in Left(store') : handed'[m] = 0
      BY <1>0, <1>1, <1>4, <1>5, <1>7, <1>8, <2>3, LeftIsVisits
    <3>2. store' = store /\ Knows(store', loggedIn')
      BY <1>0, <2>2
    <3> QED  BY <2>1, <2>3, <3>1, <3>2 DEF AloneOK
  <2>4. CASE ~p.route.jwt
    <3>1. store' = p.read /\ Knows(p.read, loggedIn') /\ store' = store
      BY <1>0, <1>4, <1>5, <2>2, <2>4
    <3> QED  BY <1>4, <2>1, <2>4, <3>1 DEF AloneOK, Serving
  <2> QED  BY <2>3, <2>4
<1>9. tab' = [tab EXCEPT ![t] = p]
  BY <1>0, <1>3
<1>10. AloneInv'
  <2>1. ~overlap => /\ \A m \in Visit : handed'[m] <= 1
                    /\ \A m \in Visit : m > visits => handed'[m] = 0 /\ m \notin Left(store')
    BY <1>0, <1>1, <1>5, <1>7
  <2>2. tab[t].pc # "idle"
    BY <1>0
  <2> QED  BY <1>0, <1>4, <1>8, <1>9, <2>1, <2>2, OnlyOne
<1>11. /\ Numbered' /\ tab' \in [Tabs -> Request]
       /\ \A u \in Tabs : RequestOK(tab'[u])
       /\ \A u \in Tabs : tab'[u].pc = "follow" => tab'[u].target # None
  BY <1>0, <1>4, <1>6, <1>9, Becomes
<1>12. handed' \in [Visit -> 0 .. 2]
  <2>1. \A m \in Visit : handed'[m] \in 0 .. 2
    BY <1>0, <1>1
  <2> QED  BY <1>0, <2>1
<1>13. TypeOK'
  BY <1>0, <1>11, <1>12 DEF SessionsInv, TypeOK
<1> QED  BY <1>10, <1>11, <1>13 DEF SessionsInv

LEMMA AtRestIs ==
    /\ AtRest \in Request /\ AtRest.pc = "idle" /\ AtRest.hops = 0
    /\ AtRest.route = None /\ AtRest.referer = None /\ AtRest.target = None
BY BlankIs, SessionsAssumption DEF AtRest, Request

\* what an answer makes of the tab
LEMMA AnsweredIs ==
    ASSUME NEW q \in Request, q.route \in Routes, q.answer = "redirect" => q.target \in Addresses
    PROVE  LET p == Answered(q)
           IN  /\ p \in Request /\ p.pc \in {"idle", "follow"}
               /\ p.pc = "follow" <=> q.answer = "redirect"
               /\ p.pc = "follow" => p.target = q.target /\ p.hops = q.hops /\ p.visit = q.visit
               /\ p.pc = "idle" => p.hops = 0
<1>1. q.route.at \in Addresses
  BY SessionsAssumption DEF Route
<1>2. CASE q.answer = "redirect"
  <2>1. PICK p : p = [AtRest EXCEPT !.pc = "follow", !.visit = q.visit, !.target = q.target,
                          !.referer = q.referer, !.showing = q.showing, !.hops = q.hops]
    OBVIOUS
  <2>2. /\ p \in Request /\ p.pc = "follow" /\ p.target = q.target /\ p.hops = q.hops
        /\ p.visit = q.visit
    BY <1>2, <2>1, AtRestIs DEF Request
  <2>3. Answered(q) = p
    BY <1>2, <2>1 DEF Answered
  <2> QED  BY <1>2, <2>2, <2>3
<1>3. CASE q.answer # "redirect"
  <2>1. PICK a \in Addresses : Answered(q) = [AtRest EXCEPT !.showing = a] \/ Answered(q) = AtRest
    <3>1. q.showing \in Addresses
      BY DEF Request
    <3> QED  BY <1>1, <1>3, <3>1 DEF Answered
  <2>2. PICK p : p = [AtRest EXCEPT !.showing = a]
    OBVIOUS
  <2>3. p \in Request /\ p.pc = "idle" /\ p.hops = 0
    BY <2>2, AtRestIs DEF Request
  <2> QED  BY <1>3, <2>1, <2>2, <2>3, AtRestIs
<1> QED  BY <1>2, <1>3

LEMMA FinishStep ==
    ASSUME SessionsInv, NEW t \in Tabs, Finish(t)
    PROVE  SessionsInv'
<1> DEFINE q == tab[t]
<1>0. /\ q.pc = "end" /\ q.pc # "idle" /\ q.pc \in Serving
      /\ UNCHANGED <<accounts, visits, loggedIn, handed, overlap>>
      /\ store' = IF ~q.route.jwt /\ IsSaved(q) THEN q.copy ELSE store
      /\ tab' = [tab EXCEPT ![t] = Answered(q)]
  BY DEF Finish, Serving
<1>1. /\ q \in Request /\ RequestOK(q) /\ q.route \in Routes /\ q.visit \in Visit
      /\ store \in Session /\ q.copy \in Session
  BY <1>0 DEF SessionsInv, TypeOK, RequestOK, Request
<1>2. PICK p : p = Answered(q)
  OBVIOUS
<1>3. /\ p \in Request /\ p.pc \in {"idle", "follow"}
      /\ p.pc = "follow" => /\ p.target = q.target /\ p.target \in Addresses
                            /\ p.hops = q.hops /\ q.answer = "redirect"
                            /\ p.visit = q.visit
      /\ p.pc = "idle" => p.hops = 0
  BY <1>0, <1>1, <1>2, AnsweredIs DEF RequestOK
<1>4. RequestOK(p)
  <2>1. ASSUME p.pc = "follow" PROVE p.hops <= 1 /\ (p.hops = 1 => p.target = "home")
    <3>1. q.hops \in Nat /\ q.hops <= 2 /\ (q.hops >= 1 => q.route.get)
          /\ (q.hops = 2 => q.route.at = "home")
      BY <1>0, <1>1 DEF RequestOK, Request
    <3>2. q.route.get => q.target = "home" /\ q.route.at # "home"
      BY <1>0, <1>1, <1>3, <2>1 DEF RequestOK
    <3> QED  BY <1>3, <2>1, <3>1, <3>2
  <2> QED  BY <1>3, <2>1 DEF RequestOK, Serving
<1>5. ASSUME ~overlap
      PROVE  /\ Knows(store', loggedIn)
             /\ \A m \in Left(store') : handed[m] = 0
             /\ \A m \in Visit : handed[m] <= 1
             /\ \A m \in Visit : m > visits => handed[m] = 0 /\ m \notin Left(store')
  <2>1. /\ AloneOK(q, store, loggedIn, handed)
        /\ \A m \in Visit : handed[m] <= 1
        /\ \A m \in Visit : m > visits => handed[m] = 0 /\ m \notin Left(store)
    BY <1>0, <1>5 DEF SessionsInv, AloneInv
  <2>2. CASE q.route.jwt
    BY <1>0, <2>1, <2>2 DEF AloneOK
  <2>3. CASE ~q.route.jwt
    <3>1. store = q.read /\ Knows(q.copy, loggedIn)
      BY <1>0, <2>1, <2>3 DEF AloneOK
    <3>2. store' = q.copy
      BY <1>0, <2>3, <3>1 DEF IsSaved
    <3>3. Left(q.copy) \subseteq Leaves(q)
      BY <1>0, <1>1 DEF RequestOK
    <3>4. ~q.route.get => handed[q.visit] = 0
      BY <1>0, <2>1 DEF AloneOK
    <3>5. \A m \in Left(store') : handed[m] = 0
      BY <3>2, <3>3, <3>4 DEF Leaves
    <3>6. \A m \in Left(store') : m <= visits
      <4>1. \A m \in Left(store') : ~q.route.get /\ m = q.visit
        BY <3>2, <3>3 DEF Leaves
      <4>2. q.visit \in 1 .. visits
        BY <1>0 DEF SessionsInv, Numbered
      <4> QED  BY <4>1, <4>2
    <3>7. Knows(store', loggedIn)
      BY <3>1, <3>2
    <3>8. \A m \in Visit : m > visits => m \notin Left(store')
      BY <3>6 DEF SessionsInv, TypeOK, Visit
    <3> QED  BY <2>1, <3>5, <3>7, <3>8
  <2> QED  BY <2>2, <2>3
<1>6. tab' = [tab EXCEPT ![t] = p]
  BY <1>0, <1>2
<1>7. AloneInv'
  <2>1. ~overlap /\ p.pc # "idle" => AloneOK(p, store', loggedIn', handed')
    BY <1>0, <1>3, <1>5 DEF AloneOK, Serving
  <2>2. ~overlap /\ p.pc = "idle" => /\ Knows(store', loggedIn')
                                     /\ \A m \in Left(store') : handed'[m] = 0
    BY <1>0, <1>5
  <2>3. ~overlap => /\ \A m \in Visit : handed'[m] <= 1
                    /\ \A m \in Visit : m > visits => handed'[m] = 0 /\ m \notin Left(store')
    BY <1>0, <1>5
  <2>4. tab[t].pc # "idle"
    BY <1>0
  <2> QED  BY <1>0, <1>3, <1>6, <2>1, <2>2, <2>3, <2>4, OnlyOne
<1>8. /\ Numbered' /\ tab' \in [Tabs -> Request]
      /\ \A u \in Tabs : RequestOK(tab'[u])
      /\ \A u \in Tabs : tab'[u].pc = "follow" => tab'[u].target # None
  BY <1>0, <1>3, <1>4, <1>6, SessionsAssumption, Becomes
<1>9. TypeOK'
  <2>1. store' \in Session
    BY <1>0, <1>1
  <2> QED  BY <1>0, <1>8, <2>1 DEF SessionsInv, TypeOK
<1> QED  BY <1>7, <1>8, <1>9 DEF SessionsInv

-----------------------------------------------------------------------------
(***************************************************************************)
(* The browser's steps.                                                    *)
(***************************************************************************)
LEMMA AskedIs ==
    ASSUME NEW t \in Tabs, tab[t] \in Request, NEW route \in Routes, NEW v \in Visit,
           NEW referer \in Addresses \cup {None}
    PROVE  LET p == Asked(t, route, v, referer)
           IN  /\ p \in Request /\ p.pc = "arrived" /\ p.route = route /\ p.visit = v
               /\ p.hops = tab[t].hops
BY DEF Asked, Request

LEMMA VisitsStep ==
    ASSUME SessionsInv, NEW t \in Tabs, Visits(t)
    PROVE  SessionsInv'
<1>0. /\ tab[t].pc = "idle" /\ visits < MaxVisits /\ visits' = visits + 1
      /\ overlap' = (overlap \/ Busy # {}) /\ UNCHANGED <<accounts, store, loggedIn, handed>>
  BY DEF Visits
<1>1. PICK route \in Routes, referer \in {tab[t].showing, None} \ {"elsewhere"} :
        tab' = [tab EXCEPT ![t] = Asked(t, route, visits + 1, referer)]
  BY DEF Visits
<1>2. /\ tab[t] \in Request /\ tab[t].hops = 0 /\ referer \in Addresses \cup {None}
      /\ visits \in 0 .. MaxVisits /\ visits + 1 \in Visit /\ visits' \in 0 .. MaxVisits
      /\ MaxVisits \in Nat
  BY <1>0, SessionsAssumption DEF SessionsInv, TypeOK, RequestOK, Request, Visit
<1>3. PICK p : p = Asked(t, route, visits + 1, referer)
  OBVIOUS
<1>4. p \in Request /\ p.pc = "arrived" /\ p.route = route /\ p.visit = visits + 1 /\ p.hops = 0
  BY <1>2, <1>3, AskedIs
<1>5. RequestOK(p)
  BY <1>2, <1>4 DEF RequestOK, Serving
<1>6. /\ tab' \in [Tabs -> Request] /\ tab'[t] = p
      /\ \A u \in Tabs : u # t => tab'[u] = tab[u]
  BY <1>1, <1>3, <1>4 DEF SessionsInv, TypeOK
<1>7. TypeOK' /\ Numbered' /\ \A u \in Tabs : RequestOK(tab'[u])
  <2>1. Numbered'
    <3> SUFFICES ASSUME NEW u \in Tabs, tab'[u].pc # "idle" PROVE tab'[u].visit \in 1 .. visits'
      BY DEF Numbered
    <3>1. CASE u = t
      BY <1>0, <1>2, <1>4, <1>6, <3>1
    <3>2. CASE u # t
      BY <1>0, <1>2, <1>6, <3>2 DEF SessionsInv, Numbered
    <3> QED  BY <3>1, <3>2
  <2>2. overlap' \in BOOLEAN
    BY <1>0 DEF SessionsInv, TypeOK
  <2>3. \A u \in Tabs : RequestOK(tab'[u])
    BY <1>5, <1>6 DEF SessionsInv
  <2>4. \A u \in Tabs : tab'[u].pc = "follow" => tab'[u].target # None
    BY <1>4, <1>6 DEF SessionsInv, TypeOK
  <2> QED  BY <1>0, <1>2, <1>6, <2>1, <2>2, <2>3, <2>4 DEF SessionsInv, TypeOK
<1>8. AloneInv'
  <2> SUFFICES ASSUME ~overlap' PROVE AloneInv'
    BY DEF AloneInv
  <2>1. ~overlap /\ \A u \in Tabs : tab[u].pc = "idle"
    BY <1>0 DEF SessionsInv, TypeOK, Busy
  <2>2. /\ Knows(store, loggedIn) /\ \A m \in Left(store) : handed[m] = 0
        /\ \A m \in Visit : handed[m] <= 1
        /\ \A m \in Visit : m > visits => handed[m] = 0 /\ m \notin Left(store)
    BY <2>1 DEF SessionsInv, AloneInv, Busy
  <2>3. \A u \in Tabs : tab'[u].pc # "idle" => u = t
    BY <1>6, <2>1
  <2>4. handed'[visits + 1] = 0 /\ visits + 1 \notin Left(store')
    BY <1>0, <1>2, <2>2
  <2>5. AloneOK(p, store', loggedIn', handed')
    <3>1. Knows(store', loggedIn') /\ \A m \in Left(store') : handed'[m] = 0
      BY <1>0, <2>2
    <3> QED  BY <1>4, <2>4, <3>1 DEF AloneOK, Serving
  <2>6. \A m \in Visit : m > visits' => handed'[m] = 0 /\ m \notin Left(store')
    BY <1>0, <1>2, <2>2 DEF Visit
  <2>7. Busy' # {}
    BY <1>4, <1>6 DEF Busy
  <2>8. \A m \in Visit : handed'[m] <= 1
    BY <1>0, <2>2
  <2>9. \A x, u \in Tabs : tab'[x].pc # "idle" /\ tab'[u].pc # "idle" => x = u
    BY <2>3
  <2>10. \A u \in Tabs : tab'[u].pc # "idle" => AloneOK(tab'[u], store', loggedIn', handed')
    BY <1>6, <2>3, <2>5
  <2> QED  BY <2>6, <2>7, <2>8, <2>9, <2>10 DEF AloneInv
<1> QED  BY <1>7, <1>8 DEF SessionsInv

LEMMA FollowStep ==
    ASSUME SessionsInv, NEW t \in Tabs, Follow(t)
    PROVE  SessionsInv'
<1> DEFINE q == tab[t]
           there == {route \in Routes : route.at = q.target /\ route.get}
<1>0. /\ q.pc = "follow" /\ q.pc # "idle"
      /\ UNCHANGED <<accounts, store, visits, loggedIn, handed, overlap>>
  BY DEF Follow
<1>1. /\ q \in Request /\ RequestOK(q) /\ q.target \in Addresses /\ q.visit \in 1 .. visits
      /\ visits \in 0 .. MaxVisits /\ MaxVisits \in Nat /\ q.hops \in Nat /\ q.hops <= 1
      /\ q.hops = 1 => q.target = "home"
  BY <1>0, SessionsAssumption DEF SessionsInv, TypeOK, RequestOK, Request, Numbered
<1>2. PICK p : /\ tab' = [tab EXCEPT ![t] = p]
               /\ \/ p = [AtRest EXCEPT !.showing = q.target]
                  \/ \E route \in there :
                        p = [Asked(t, route, q.visit, q.referer) EXCEPT !.hops = q.hops + 1]
  <2>1. CASE there = {}
    BY <2>1 DEF Follow
  <2>2. CASE there # {}
    <3>1. PICK route \in there :
            tab' = [tab EXCEPT ![t] =
                        [Asked(t, route, q.visit, q.referer)
                            EXCEPT !.hops = Asked(t, route, q.visit, q.referer).hops + 1]]
      BY <2>2 DEF Follow
    <3>2. Asked(t, route, q.visit, q.referer).hops = q.hops
      BY <1>1 DEF Asked, Request
    <3> QED  BY <3>1, <3>2
  <2> QED  BY <2>1, <2>2
<1>3. /\ p \in Request /\ p.pc \in {"idle", "arrived"}
      /\ p.pc = "idle" => p.hops = 0
      /\ p.pc = "arrived" =>
            /\ p.route \in Routes /\ p.route.get /\ p.route.at = q.target /\ p.visit = q.visit
            /\ p.hops = q.hops + 1
  <2>1. CASE p = [AtRest EXCEPT !.showing = q.target]
    BY <1>1, <2>1, AtRestIs DEF Request
  <2>2. CASE \E route \in there :
                p = [Asked(t, route, q.visit, q.referer) EXCEPT !.hops = q.hops + 1]
    <3>1. PICK route \in there :
                p = [Asked(t, route, q.visit, q.referer) EXCEPT !.hops = q.hops + 1]
      BY <2>2
    <3>2. PICK a : a = Asked(t, route, q.visit, q.referer)
      OBVIOUS
    <3>3. q.visit \in Visit /\ q.referer \in Addresses \cup {None}
      BY <1>1 DEF Visit, Request
    <3>4. a \in Request /\ a.pc = "arrived" /\ a.route = route /\ a.visit = q.visit
      BY <1>1, <3>2, <3>3, AskedIs
    <3>5. p = [a EXCEPT !.hops = q.hops + 1]
      BY <3>1, <3>2
    <3> QED  BY <1>1, <3>1, <3>4, <3>5 DEF Request
  <2> QED  BY <1>2, <2>1, <2>2
<1>4. RequestOK(p)
  <2>1. p.visit \in Visit \/ p.pc = "idle"
    BY <1>1, <1>3 DEF Visit
  <2> QED  BY <1>1, <1>3, <2>1 DEF RequestOK, Serving
<1>5. AloneInv'
  <2> SUFFICES ASSUME ~overlap PROVE AloneInv'
    BY <1>0 DEF AloneInv
  <2>1. /\ AloneOK(q, store, loggedIn, handed)
        /\ \A m \in Visit : handed[m] <= 1
        /\ \A m \in Visit : m > visits => handed[m] = 0 /\ m \notin Left(store)
    BY <1>0 DEF SessionsInv, AloneInv
  <2>2. Knows(store', loggedIn') /\ \A m \in Left(store') : handed'[m] = 0
    BY <1>0, <2>1 DEF AloneOK, Serving
  <2>3. p.pc # "idle" => AloneOK(p, store', loggedIn', handed')
    BY <1>3, <2>2 DEF AloneOK, Serving
  <2>4. tab[t].pc # "idle"
    BY <1>0
  <2>5. /\ \A m \in Visit : handed'[m] <= 1
        /\ \A m \in Visit : m > visits => handed'[m] = 0 /\ m \notin Left(store')
    BY <1>0, <2>1
  <2> QED  BY <1>0, <1>2, <1>3, <2>2, <2>3, <2>4, <2>5, OnlyOne
<1>6. /\ Numbered' /\ tab' \in [Tabs -> Request]
      /\ \A u \in Tabs : RequestOK(tab'[u])
      /\ \A u \in Tabs : tab'[u].pc = "follow" => tab'[u].target # None
  BY <1>0, <1>2, <1>3, <1>4, Becomes
<1>7. TypeOK'
  BY <1>0, <1>6 DEF SessionsInv, TypeOK
<1> QED  BY <1>5, <1>6, <1>7 DEF SessionsInv

LEMMA ExpireStep == SessionsInv /\ Expire => SessionsInv'
<1> SUFFICES ASSUME SessionsInv, Expire PROVE SessionsInv'
  OBVIOUS
<1>0. /\ Busy = {} /\ store' = Blank /\ loggedIn' = None
      /\ UNCHANGED <<accounts, tab, visits, handed, overlap>>
  BY DEF Expire
<1>1. TypeOK' /\ Numbered' /\ \A u \in Tabs : RequestOK(tab'[u])
  BY <1>0, BlankIs DEF SessionsInv, TypeOK, Numbered
<1>2. AloneInv'
  <2> SUFFICES ASSUME ~overlap' PROVE AloneInv'
    BY DEF AloneInv
  <2>1. \A u \in Tabs : tab'[u].pc = "idle"
    BY <1>0 DEF Busy
  <2>2. Knows(store', loggedIn') /\ Left(store') = {}
    BY <1>0, BlankIs, LeftOfBlank DEF Knows
  <2>3. /\ \A m \in Visit : handed'[m] <= 1
        /\ \A m \in Visit : m > visits' => handed'[m] = 0
    BY <1>0 DEF SessionsInv, AloneInv
  <2> QED  BY <2>1, <2>2, <2>3 DEF AloneInv
<1> QED  BY <1>1, <1>2 DEF SessionsInv

LEMMA SessionsInit == Init => SessionsInv
<1> SUFFICES ASSUME Init PROVE SessionsInv
  OBVIOUS
<1>1. \A t \in Tabs : tab[t] = AtRest
  BY DEF Init
<1>2. tab \in [Tabs -> Request] /\ handed \in [Visit -> 0 .. 2]
  BY AtRestIs DEF Init
<1>3. TypeOK
  <2>1. accounts \subseteq People /\ store \in Session
    BY BlankIs DEF Init
  <2>3. visits \in 0 .. MaxVisits
    BY SessionsAssumption DEF Init
  <2>4. loggedIn \in People \cup {None} /\ overlap \in BOOLEAN
    BY DEF Init
  <2>2. \A t \in Tabs : tab[t].pc = "follow" => tab[t].target # None
    BY <1>1, AtRestIs
  <2> QED  BY <1>2, <2>1, <2>2, <2>3, <2>4 DEF TypeOK
<1>4. Numbered /\ \A t \in Tabs : RequestOK(tab[t])
  BY <1>1, AtRestIs DEF Numbered, RequestOK, Serving
<1>5. Knows(store, loggedIn) /\ Left(store) = {} /\ \A m \in Visit : handed[m] = 0
  BY BlankIs, LeftOfBlank DEF Init, Knows
<1>6. AloneInv
  BY <1>1, <1>5, AtRestIs DEF AloneInv
<1> QED  BY <1>3, <1>4, <1>6 DEF SessionsInv

LEMMA SessionsStep == SessionsInv /\ [Next]_vars => SessionsInv'
<1> SUFFICES ASSUME SessionsInv, [Next]_vars PROVE SessionsInv'
  OBVIOUS
<1>1. CASE UNCHANGED vars
  <2>1. /\ accounts' = accounts /\ store' = store /\ tab' = tab /\ visits' = visits
        /\ loggedIn' = loggedIn /\ handed' = handed /\ overlap' = overlap
    BY <1>1 DEF vars
  <2>2. TypeOK' /\ Numbered' /\ \A u \in Tabs : RequestOK(tab'[u])
    BY <2>1 DEF SessionsInv, TypeOK, Numbered
  <2>3. Busy' = Busy
    BY <2>1 DEF Busy
  <2>4. AloneInv'
    BY <2>1, <2>3 DEF SessionsInv, AloneInv
  <2> QED  BY <2>2, <2>4 DEF SessionsInv
<1>2. CASE Expire
  BY <1>2, ExpireStep
<1>3. ASSUME NEW t \in Tabs, Visits(t) \/ Follow(t) \/ Serve(t) PROVE SessionsInv'
  BY <1>3, VisitsStep, FollowStep, ArriveStep, AuthorizeStep, HandleStep, FinishStep DEF Serve
<1> QED  BY <1>1, <1>2, <1>3 DEF Next

LEMMA SessionsInvariant == Spec => []SessionsInv
BY SessionsInit, SessionsStep, PTL DEF Spec

-----------------------------------------------------------------------------
(***************************************************************************)
(* The theorems.                                                           *)
(***************************************************************************)
\* The session, the tabs and the histories keep their types.
THEOREM SessionsAreTyped == Spec => []TypeOK
<1>1. SessionsInv => TypeOK
  BY DEF SessionsInv
<1> QED  BY <1>1, SessionsInvariant, PTL

\* As long as requests have not overlapped, a handler behind the session guard runs only
\* between a login and the logout after it, and is given the user who logged in.
THEOREM HandlersAlwaysKnowTheUser == Spec => []HandlersKnowTheUser
<1>1. SessionsInv => HandlersKnowTheUser
  <2> SUFFICES ASSUME SessionsInv, ~overlap, NEW t \in Tabs,
                      Handling(t, {r.does : r \in Routes}), ~tab[t].route.public,
                      ~tab[t].route.jwt
               PROVE  loggedIn # None /\ tab[t].copy.auth = loggedIn
    BY DEF HandlersKnowTheUser
  <2>1. tab[t].pc = "handle"
    BY DEF Handling
  <2>2. tab[t] \in Request /\ RequestOK(tab[t]) /\ AloneOK(tab[t], store, loggedIn, handed)
    BY <2>1 DEF SessionsInv, TypeOK, AloneInv
  <2>3. /\ Knows(tab[t].read, loggedIn) /\ tab[t].read \in Session
        /\ tab[t].copy = TakeMessages(MountSessionUser(tab[t].read))
        /\ IsAuthenticated(tab[t].copy)
    BY <2>1, <2>2 DEF AloneOK, RequestOK, Serving, Request
  <2>4. tab[t].copy.auth = loggedIn
    BY <2>3, KnownWhenMounted
  <2> QED  BY <2>3, <2>4 DEF IsAuthenticated
<1> QED  BY <1>1, SessionsInvariant, PTL

\* As long as requests have not overlapped, a message is handed to one request and no other.
THEOREM MessagesAreAlwaysHandedOnce == Spec => []MessagesAreHandedOnce
<1>1. SessionsInv => MessagesAreHandedOnce
  <2> SUFFICES ASSUME SessionsInv, ~overlap, NEW m \in Visit
               PROVE  /\ handed[m] <= 1
                      /\ m \in Left(store) /\ handed[m] = 1 => \E t \in Tabs : m \in tab[t].locals
    BY DEF MessagesAreHandedOnce
  <2>1. handed[m] <= 1
    BY DEF SessionsInv, AloneInv
  <2>2. ASSUME m \in Left(store), handed[m] = 1 PROVE \E t \in Tabs : m \in tab[t].locals
    <3>1. PICK t \in Tabs : tab[t].pc # "idle"
      BY <2>2 DEF SessionsInv, AloneInv, Busy
    <3>2. AloneOK(tab[t], store, loggedIn, handed)
      BY <3>1 DEF SessionsInv, AloneInv
    <3>3. tab[t].pc \in Serving /\ ~tab[t].route.jwt /\ store = tab[t].read
      BY <2>2, <3>2 DEF AloneOK
    <3>4. RequestOK(tab[t])
      BY DEF SessionsInv
    <3>5. tab[t].locals = Left(tab[t].read)
      BY <3>3, <3>4 DEF RequestOK
    <3> QED  BY <2>2, <3>3, <3>5
  <2> QED  BY <2>1, <2>2
<1> QED  BY <1>1, SessionsInvariant, PTL

\* However forms, errors and pages that send on are combined, a visit ends after two redirects.
THEOREM RedirectsAlwaysEnd == Spec => []RedirectsEnd
<1>1. SessionsInv => RedirectsEnd
  <2> SUFFICES ASSUME SessionsInv, NEW t \in Tabs PROVE tab[t].hops <= 2
    BY DEF RedirectsEnd
  <2>1. tab[t] \in Request /\ RequestOK(tab[t])
    BY DEF SessionsInv, TypeOK
  <2> QED  BY <2>1 DEF RequestOK, Request, Serving
<1> QED  BY <1>1, SessionsInvariant, PTL

\* A request that is handed no message, leaves none and reads a user already mounted stores
\* nothing: it cannot bring back a user whom another request has logged out.
THEOREM QuietRequestsDoNotRevive == Spec => QuietRequestsReviveNobody
<1>1. SessionsInv /\ [Next]_vars
        => [store.raw = None /\ store'.raw # None
            => \E t \in Tabs : tab[t].pc = "end" /\ tab'[t].pc # "end" /\ ~IsQuiet(tab[t])]_vars
  <2> SUFFICES ASSUME SessionsInv, [Next]_vars, store.raw = None, store'.raw # None
               PROVE  \E t \in Tabs :
                         tab[t].pc = "end" /\ tab'[t].pc # "end" /\ ~IsQuiet(tab[t])
    OBVIOUS
  <2>1. store' # store
    OBVIOUS
  <2>2. PICK t \in Tabs : Finish(t)
    <3>1. ~Expire
      BY BlankIs DEF Expire
    <3>2. ASSUME NEW u \in Tabs, Visits(u) \/ Follow(u) \/ Arrive(u) \/ Authorize(u) \/ Handle(u)
          PROVE  FALSE
      BY <2>1, <3>2
         DEF Visits, Follow, Arrive, Authorize, Handle, Fails, FailsToLaunch, Show, Answers,
             Launch, Store, ShowLoginForm, Login, Register, Logout, Succeeds
    <3> QED  BY <2>1, <3>1, <3>2 DEF Next, Serve, vars
  <2> DEFINE q == tab[t]
  <2>3. /\ q.pc = "end" /\ ~q.route.jwt /\ IsSaved(q) /\ store' = q.copy
        /\ tab' = [tab EXCEPT ![t] = Answered(q)]
    BY <2>1, <2>2 DEF Finish
  <2>4. q \in Request /\ RequestOK(q) /\ q.copy \in Session /\ q.read \in Session
        /\ q.route \in Routes
    BY <2>3 DEF SessionsInv, TypeOK, RequestOK, Request, Serving
  <2>5. tab'[t].pc # "end"
    <3>1. q.answer = "redirect" => q.target \in Addresses
      BY <2>3, <2>4 DEF RequestOK
    <3>2. Answered(q).pc \in {"idle", "follow"}
      BY <2>4, <3>1, AnsweredIs
    <3> QED  BY <2>3, <3>2 DEF SessionsInv, TypeOK
  <2>6. ~IsQuiet(q)
    <3> SUFFICES ASSUME IsQuiet(q) PROVE FALSE
      OBVIOUS
    <3>1. q.copy.raw = q.read.raw /\ q.copy.auth = MountSessionUser(q.read).auth
      BY <2>3, <2>4 DEF RequestOK, IsQuiet
    <3>2. q.copy.auth = q.read.auth
      BY <2>4, <3>1, Mounted DEF IsQuiet
    <3>3. q.copy = q.read
      BY <2>4, <3>1, <3>2, SameSession DEF IsQuiet
    <3> QED  BY <2>3, <3>3 DEF IsSaved
  <2>7. tab[t].pc = "end"
    BY <2>3
  <2>8. ~IsQuiet(tab[t])
    BY <2>6
  <2> HIDE DEF q
  <2> QED  BY <2>5, <2>7, <2>8
<1> QED  BY <1>1, SessionsInvariant, PTL DEF Spec, QuietRequestsReviveNobody

=============================================================================
