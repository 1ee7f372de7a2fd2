----------------------------- MODULE MCSessions -----------------------------
(***************************************************************************)
(* One route of every kind: the page and the form of an address share it.  *)
(***************************************************************************)
EXTENDS Sessions, TLC

Symmetry == Permutations(Tabs) \cup Permutations(People)

MCAddresses == {"home", "login", "page", "elsewhere"}

Page == [at |-> "page", get |-> TRUE, mvc |-> TRUE, public |-> FALSE, jwt |-> FALSE,
         does |-> "show"]

LoginForm == [Page EXCEPT !.at = "login", !.public = TRUE, !.does = "showLogin"]

MCRoutes ==
    {[Page EXCEPT !.at = "home", !.does = "home"], LoginForm,
     [LoginForm EXCEPT !.get = FALSE, !.does = "login"],
     [LoginForm EXCEPT !.get = FALSE, !.does = "logout"],
     [LoginForm EXCEPT !.get = FALSE, !.does = "register"],
     Page, [Page EXCEPT !.get = FALSE, !.does = "store"],
     [Page EXCEPT !.get = FALSE, !.mvc = FALSE, !.does = "remove"],
     [Page EXCEPT !.at = "elsewhere", !.public = TRUE, !.does = "launch"],
     [Page EXCEPT !.get = FALSE, !.mvc = FALSE, !.jwt = TRUE, !.does = "lineItem"]}
=============================================================================
