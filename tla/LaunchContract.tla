--------------------------- MODULE LaunchContract ---------------------------
(***************************************************************************)
(* What the launch flow promises, without its registry, its store and its  *)
(* clock.  A launch is offered to a tool once and for all, later closes    *)
(* for good, and a request for it is answered with the offer itself or     *)
(* refused: with the offer only when the launch was open as the request    *)
(* arrived and the request is the offered tool's.                          *)
(***************************************************************************)
CONSTANTS
    Launches,    \* launch ids
    Offer,       \* what can be offered: records with a field "tool"
    Tools,       \* the tools that ask
    UnknownHint, \* a hint that is no launch id
    Requests,    \* the slots of concurrent requests
    None

VARIABLES
    offers,  \* offers[h]: what was offered under h, None before
    closed,  \* the launches nobody who asks now can have
    asked,   \* asked[q]: the tool, the hint and whether the launch was open at arrival
    answer   \* answer[q]: None until q is answered, then what it got: {} or {offer}

vars == <<offers, closed, asked, answer>>

Offered == {h \in Launches : offers[h] # None}
Question == [tool : Tools, hint : Launches \cup {UnknownHint}, open : BOOLEAN]

ContractTypeOK ==
    /\ offers \in [Launches -> Offer \cup {None}]
    /\ closed \subseteq Launches
    /\ asked \in [Requests -> Question \cup {None}]
    /\ answer \in [Requests -> (SUBSET Offer) \cup {None}]

Init ==
    /\ offers = [h \in Launches |-> None]
    /\ closed = {}
    /\ asked = [q \in Requests |-> None]
    /\ answer = [q \in Requests |-> None]

\* A launch may be closed before the browser brings the offer to the tool.
MakeOffer(h, o) ==
    /\ offers[h] = None
    /\ offers' = [offers EXCEPT ![h] = o]
    /\ closed' \in {closed, closed \cup {h}}
    /\ UNCHANGED <<asked, answer>>

\* Launches close when their time has passed or when their links are deleted.
Close ==
    /\ closed' \in SUBSET Offered
    /\ closed \subseteq closed'
    /\ UNCHANGED <<offers, asked, answer>>

Ask(q, t, h) ==
    /\ asked[q] = None \/ answer[q] # None
    /\ h \in Offered \cup {UnknownHint}
    /\ asked' = [asked EXCEPT ![q] =
                   [tool |-> t, hint |-> h, open |-> h \in Offered \ closed]]
    /\ answer' = [answer EXCEPT ![q] = None]
    /\ UNCHANGED <<offers, closed>>

Waiting(q) == asked[q] # None /\ answer[q] = None

Deliver(q) ==
    LET h == asked[q].hint
    IN  /\ Waiting(q)
        /\ asked[q].open
        /\ offers[h].tool = asked[q].tool
        /\ answer' = [answer EXCEPT ![q] = {offers[h]}]
        /\ UNCHANGED <<offers, closed, asked>>

Refuse(q) ==
    /\ Waiting(q)
    /\ answer' = [answer EXCEPT ![q] = {}]
    /\ UNCHANGED <<offers, closed, asked>>

Next ==
    \/ \E h \in Launches, o \in Offer : MakeOffer(h, o)
    \/ Close
    \/ \E q \in Requests, t \in Tools, h \in Launches \cup {UnknownHint} : Ask(q, t, h)
    \/ \E q \in Requests : Deliver(q) \/ Refuse(q)

Spec == Init /\ [][Next]_vars
=============================================================================
