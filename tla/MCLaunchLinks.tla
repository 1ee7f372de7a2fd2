---------------------------- MODULE MCLaunchLinks ----------------------------
(***************************************************************************)
(* Two tools, one for everybody and one for administrators.                *)
(***************************************************************************)
EXTENDS LaunchLinks, TLC

CONSTANT url1

MCConfigs ==
    {[redirects |-> {}, messageTarget |-> None, target |-> url1, roles |-> {}],
     [redirects |-> {}, messageTarget |-> url1, target |-> url1, roles |-> {"Administrator"}]}

MCSymmetry == Permutations(Tools) \cup Permutations(Deployments) \cup Permutations(Links)
                \cup Permutations(Admins)
=============================================================================
