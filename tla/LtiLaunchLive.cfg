\* One tool that is updated and deleted while launches of its link are under way: every
\* handler ends, and the flow implements its contract.  No symmetry: the properties are
\* temporal.
CONSTANTS
    None = None
    Tools = {t1}
    Deployments = {d1}
    Links = {l1}
    Admins = {a1}
    u1 = u1
    u2 = u2
    u3 = u3
    url1 = url1
    url2 = url1
    cb1 = cb1
    cb2 = cb1
    teacher = teacher
    learner = learner
    Configs <- MCConfigs
    Urls = {url1}
    RedirectUris = {cb1}
    Roles = {teacher, learner}
    RegistrationManagement = TRUE
    Users = {u2, u3}
    People <- MCPeople
    RolesOf <- MCRolesOf
    Launches = {h1}
    UnknownHint = unknownHint
    Initiations = {i1}
    Logins = {q1}
    LaunchTtl = 1
    MaxTime = 1
SPECIFICATION FairSpec
PROPERTIES
    ImplementsContract
    LoginsAreAnswered
    InitiationsEnd
