\* Two requests that create, find or list, and three line items.
CONSTANTS
    None = None
    toolA = toolA
    toolB = toolB
    c1 = c1
    c2 = c2
    l1 = l1
    l2 = l2
    l3 = l3
    x = x
    t = t
    Tools = {toolA, toolB}
    Contexts = {c1, c2}
    Links <- MCLinks
    ExternalIds = {x}
    Tags = {t}
    LinkTool <- MCLinkTool
    LinkContext <- MCLinkContext
    Assigned = {l1, l3}
    Scopes <- MCScopes
    Deployed <- MCDeployed
    Requests = {r1, r2}
    Inputs <- MCInputs
    ItemIds = {1, 2, 3}
    DefaultLimit = 2
SYMMETRY Symmetry
SPECIFICATION Spec
INVARIANTS
    OwnersAgree
    AnsweredAsAsked
    PagesKeepToTheTool
    LastPageHidesNothing
    NextUntilLast
