---------------------------- MODULE MCLtiLaunch ----------------------------
(***************************************************************************)
(* Small instances of the launch flow.                                     *)
(***************************************************************************)
EXTENDS LtiLaunch, TLC

CONSTANTS
    u1, u2, u3,  \* users: a teacher, a learner, one without a complete person record
    url1, url2,  \* target URLs
    cb1, cb2,    \* redirect URIs
    teacher, learner

\* Two registrations that differ in everything the launch reads.  The first lets
\* everybody launch, the second only teachers.
MCConfigs ==
    {[redirects |-> {cb1}, messageTarget |-> None, target |-> url1, roles |-> {}],
     [redirects |-> {cb2}, messageTarget |-> url2, target |-> url1, roles |-> {teacher}]}

MCRolesOf == [u \in Users |-> IF u = u1 THEN {teacher} ELSE {learner}]
MCPeople == Users \ {u3}

\* The users, URLs and roles differ, the ids do not.
MCSymmetry == Permutations(Tools) \cup Permutations(Deployments) \cup Permutations(Links)
                \cup Permutations(Launches) \cup Permutations(Logins)
                \cup Permutations(Initiations) \cup Permutations(Admins)
=============================================================================
