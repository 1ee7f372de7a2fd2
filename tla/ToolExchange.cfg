CONSTANTS
    None = None
    Absent = Absent
    Tokens <- SomeTokens
    Options <- SomeOptions
    TokenTTL = 2
    MaxTime = 6
    MaxTries = 2
    ToolIds = {"t1", "t2"}
    Bodies <- SomeBodies
    LtiRoles = {"User", "Administrator", "SysAdmin", "Learner"}
    Params = {"p", "q"}
    Values = {"tool", "message", "link"}
    Links <- SomeLinks
    People <- SomePeople
    Requests <- SomeRequests
SPECIFICATION ExchangeSpec
INVARIANTS
    AcceptedOnce
    OfferedIsAccepted
    OnlyAskedRolesAreSent
