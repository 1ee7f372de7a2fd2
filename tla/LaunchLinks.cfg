\* Two managers deploy tools and create links, which come and go while a home page is read.
CONSTANTS
    None = None
    url1 = url1
    Tools = {t1, t2}
    Deployments = {d1, d2}
    Links = {l1, l2}
    Admins = {a1, a2}
    Visits = {p1}
    Configs <- MCConfigs
    Urls = {url1}
    RedirectUris = {}
    Roles = {"Administrator"}
    RegistrationManagement = TRUE
SPECIFICATION DiscoverySpec
SYMMETRY MCSymmetry
INVARIANTS
    NoOrphans
    OpenLinksAreShown
