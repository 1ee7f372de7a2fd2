\* Requests of two tabs, one after the other or at the same time.
CONSTANTS
    None = None
    Tabs = {t1, t2}
    People = {ana, bob}
    Addresses <- MCAddresses
    Routes <- MCRoutes
    MaxVisits = 3
SYMMETRY Symmetry
SPECIFICATION Spec
INVARIANTS
    HandlersKnowTheUser
    MessagesAreHandedOnce
    RedirectsEnd
PROPERTIES
    QuietRequestsReviveNobody
CHECK_DEADLOCK FALSE
