\* Courses, assignments and grades are made, deployments and external assignments come and
\* go: two transactions may be open, on a pool that has a connection left for their lookups
\* or on one that has not.
CONSTANTS
    None = None
    ana = ana
    bob = bob
    eva = eva
    tool = tool
    Requests = {r1, r2}
    Transactors = {r1, r2}
    Jobs <- MCJobs
    People = {ana, bob, eva}
    Tools = {tool}
    Instructors <- MCInstructors
    Enrolled <- MCEnrolled
    PoolSizes = {2, 3}
    MaxSmallInt = 3
    Ids = {1, 2}
SYMMETRY Symmetry
SPECIFICATION Spec
INVARIANTS
    ExternalHasLink
    CoursesHaveContexts
    NoStrayLinks
    GradesAreDue
    OnlyThePoolRunsOut
PROPERTIES
    ImplementsBook
