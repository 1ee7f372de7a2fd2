\* Two tools whose registrations never change (what the provider is configured for today):
\* a request may come from the tool that was not offered the launch.
CONSTANTS
    None = None
    Tools = {t1, t2}
    Deployments = {d1}
    Links = {l1}
    Admins = {a1}
    u1 = u1
    u2 = u2
    u3 = u3
    url1 = url1
    url2 = url2
    cb1 = cb1
    cb2 = cb2
    teacher = teacher
    learner = learner
    Configs <- MCConfigs
    Urls = {url1, url2}
    RedirectUris = {cb1, cb2}
    Roles = {teacher, learner}
    RegistrationManagement = FALSE
    Users = {u1}
    People <- MCPeople
    RolesOf <- MCRolesOf
    Launches = {h1}
    UnknownHint = unknownHint
    Initiations = {i1}
    Logins = {q1}
    LaunchTtl = 1
    MaxTime = 1
SPECIFICATION Spec
SYMMETRY MCSymmetry
INVARIANTS
    DeliveredAsOffered
    NeverDeliveredWhenClosed
    RefusalsAreJustified
    RedirectsOnlyToVerifiedUri
