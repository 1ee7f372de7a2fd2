----------------------------- MODULE MCToolExchange -----------------------------
(***************************************************************************)
(* Two tools that register with one of eleven bodies, three of which are   *)
(* stored; a link in a course and one outside, an administrator and a      *)
(* user.  Tokens: a good one, one that lives longer than it may, one for   *)
(* two audiences, and some that are refused.                               *)
(***************************************************************************)
EXTENDS ToolExchange

Message(type, roles, custom) ==
    [type |-> type, roles |-> roles, custom |-> custom,
     placements |-> IF type = "deep_linking" THEN {"content_area"} ELSE {}]

Plain == [application |-> "web", grants |-> <<"implicit", "client_credentials">>,
          responses |-> <<"id_token">>, auth |-> "private_key_jwt",
          redirects |-> <<"u1", "u2">>, contacts |-> <<>>, scopes |-> {"openid", "score"},
          jwks |-> TRUE, key |-> TRUE,
          lti |-> [messages |-> <<>>, custom |-> Absent]]

Says(messages) == [Plain EXCEPT !.lti.messages = messages, !.lti.custom = [p |-> "tool"]]

SomeBodies ==
    {\* asks for roles
     Says(<<Message("deep_linking", <<"Learner", "Administrator">>, Absent),
            Message("resource_link", <<"User", "Learner">>, [p |-> "message", q |-> "message"])>>),
     \* asks for the empty list of roles, and without the services
     [Says(<<Message("resource_link", <<>>, Absent)>>) EXCEPT !.scopes = {"openid"}],
     \* no message
     Plain,
     \* refused: a repeated message, role, URI and grant, a role and a message that are none
     Says(<<Message("resource_link", Absent, Absent), Message("resource_link", Absent, Absent)>>),
     Says(<<Message("resource_link", <<"User", "User">>, Absent)>>),
     [Plain EXCEPT !.redirects = <<"u1", "u1">>],
     [Plain EXCEPT !.grants = <<"implicit", "implicit">>],
     Says(<<Message("resource_link", <<"Dean">>, Absent)>>),
     Says(<<Message("other", Absent, Absent)>>),
     \* refused: a tool without a configuration, and a client that is no tool
     [Plain EXCEPT !.lti = Absent],
     [Plain EXCEPT !.key = FALSE, !.lti = Absent]}

SomeLinks ==
    {[id |-> "l1", tool |-> "t1", deployment |-> "d1", context |-> "c", custom |-> [p |-> "link"]],
     [id |-> "l2", tool |-> "t2", deployment |-> "d2", context |-> Absent, custom |-> Absent]}

SomePeople == {[id |-> "p1", role |-> "administrator"], [id |-> "p2", role |-> "user"]}

Asks == [client |-> "t1", redirect |-> "u1", scopes |-> {"openid"}, mode |-> "form_post",
         type |-> "id_token", prompt |-> "none", nonce |-> "n"]

SomeRequests == {Asks, [Asks EXCEPT !.client = "t2", !.redirect = "u2"],
                 [Asks EXCEPT !.redirect = "u3"], [Asks EXCEPT !.prompt = "login"],
                 [Asks EXCEPT !.scopes = {}]}

Good == [alg |-> "RS256", signer |-> "tool", iss |-> "tool", aud |-> {"platform"},
         azp |-> None, iat |-> 0, exp |-> 3, nonce |-> "n1", extra |-> {"unknown"}]

SomeTokens ==
    {Good,
     [Good EXCEPT !.nonce = "n2", !.iat = 1, !.exp = 9, !.extra = {"specific", "vendor"}],
     [Good EXCEPT !.nonce = "n3", !.iat = 2, !.exp = 9, !.azp = "platform",
                  !.aud = {"platform", "other"}],
     [Good EXCEPT !.alg = "none"], [Good EXCEPT !.signer = "other"],
     [Good EXCEPT !.iss = "other"], [Good EXCEPT !.aud = {"platform", "other"}],
     [Good EXCEPT !.aud = {"other"}], [Good EXCEPT !.nonce = None],
     [Good EXCEPT !.azp = "other"]}

SomeOptions == {[prefix |-> None, vendorValidator |-> FALSE, specific |-> FALSE],
                [prefix |-> "http://vendor", vendorValidator |-> TRUE, specific |-> TRUE],
                [prefix |-> "vendor", vendorValidator |-> FALSE, specific |-> FALSE]}

=============================================================================
