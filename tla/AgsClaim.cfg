\* Every hierarchy of three contexts, with two deployments and two links.
CONSTANTS
    None = None
    t1 = t1
    t2 = t2
    Tools = {t1, t2}
    Contexts = {c1, c2, c3}
    Deployments = {d1, d2}
    Links = {l1, l2}
    Items = {i1, i2}
    Scopes <- ScopesOf
    Hierarchy = TRUE
SPECIFICATION Spec
SYMMETRY Symmetry
INVARIANTS
    NearestIsFound
    ClaimedContainersAreServed
    AdmittedToolsAreTold
PROPERTIES
    ClaimsNameTheOnlyItem
