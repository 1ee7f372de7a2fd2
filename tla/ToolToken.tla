------------------------------ MODULE ToolToken ------------------------------
(***************************************************************************)
(* The validation of the JWTs a tool sends to the platform with a message, *)
(* over time: the tool, or whoever has one of its tokens, may present a    *)
(* token again and again.                                                  *)
(*                                                                         *)
(* Checking the signature and the key is jose's and asynchronous; what     *)
(* follows, from the clock to the nonce, runs without a pause and is one   *)
(* step.  The nonce's memory is the platform's: it keeps a nonce for the   *)
(* time a token lives, as the option nonceIsFresh asks it to.              *)
(***************************************************************************)
EXTENDS Naturals

CONSTANTS
    Tokens,   \* the tokens there are
    TokenTTL, \* how many seconds a token lives, the option tokenTTL
    Options,  \* the option vendorPrefix and whether there are validators
    MaxTime,  \* bound on the clock
    MaxTries, \* bound on how often a token is counted as accepted
    None      \* a claim that is not there, a nonce that was not seen

Required == {"iss", "aud", "exp", "iat", "nonce"}

\* aud is the set of audiences, of which "platform" is this platform's issuer
Token == [alg : {"RS256", "none"}, signer : {"tool", "other"}, iss : {"tool", "other"},
          aud : SUBSET {"platform", "other"}, azp : {None, "platform", "other"},
          iat : Nat, exp : Nat, nonce : STRING \cup {None},
          extra : SUBSET {"specific", "vendor", "unknown"}]

Option == [prefix : {None, "http://vendor", "vendor"}, vendorValidator : BOOLEAN,
           specific : BOOLEAN]

ASSUME TokenAssumption ==
    /\ Tokens \subseteq Token /\ Options \subseteq Option
    /\ None \notin Nat
    /\ TokenTTL \in Nat /\ MaxTime \in Nat /\ MaxTries \in Nat

VARIABLES
    now,       \* the clock, in seconds
    seen,      \* seen[n]: when the platform saw nonce n last
    accepted,  \* accepted[t]: how often token t was found valid
    claims     \* the names of the claims of the last valid token

vars == <<now, seen, accepted, claims>>

Nonces == {t.nonce : t \in Tokens} \ {None}

TypeOK ==
    /\ now \in 0..MaxTime
    /\ seen \in [Nonces -> 0..MaxTime \cup {None}]
    /\ accepted \in [Tokens -> 0..MaxTries]
    /\ claims \subseteq Required \cup {"azp", "specific", "vendor"}

Init ==
    /\ now = 0
    /\ seen = [n \in Nonces |-> None]
    /\ accepted = [t \in Tokens |-> 0]
    /\ claims = {}

Tick ==
    /\ now < MaxTime
    /\ now' = now + 1
    /\ UNCHANGED <<seen, accepted, claims>>

-----------------------------------------------------------------------------
(***************************************************************************)
(* jose.jwtVerify.                                                         *)
(***************************************************************************)
Present(t) == {"iss", "exp", "iat"} \cup (IF t.aud = {} THEN {} ELSE {"aud"})
                \cup (IF t.nonce = None THEN {} ELSE {"nonce"})
                \cup (IF t.azp = None THEN {} ELSE {"azp"}) \cup t.extra

\* Mutant: a token lives until it says it expires.
UntilExpiration(t) == now < t.exp

InTime(t) == now < t.exp /\ t.iat <= now /\ now - t.iat <= TokenTTL

JwtVerify(t) ==
    /\ t.alg = "RS256" /\ t.signer = "tool"
    /\ Required \subseteq Present(t)
    /\ t.iss = "tool" /\ "platform" \in t.aud
    /\ InTime(t)

(***************************************************************************)
(* What the platform checks.                                               *)
(***************************************************************************)
ValidPrefix(o) == o.prefix \in {None, "http://vendor"}

ResolveAllowedClaims(t, o) ==
    Required \cup {"azp"} \cup (IF o.specific THEN {"specific"} ELSE {})
      \cup (IF o.prefix = None THEN {} ELSE {"vendor"})

DiscardUnknownClaims(t, o) == Present(t) \cap ResolveAllowedClaims(t, o)

ValidateAudienceAndAzp(t) ==
    /\ t.aud = {"platform", "other"} => t.azp # None
    /\ t.azp # None => t.azp = "platform"

NonceIsFresh(n) == seen[n] = None \/ now - seen[n] > TokenTTL

\* each asks for the one claim that is its own
ValidateMessageSpecificClaims(t, o) == o.specific => "specific" \in t.extra

ValidateVendorClaims(t, o) ==
    o.vendorValidator => o.prefix # None /\ "vendor" \in t.extra

\* the vendor's validator is given its own claims, and its answer is the answer
PerformVendorValidations(t, o) ==
    DiscardUnknownClaims(t, o) \cap (IF o.vendorValidator THEN {"vendor"} ELSE Present(t))

\* everything before the nonce is looked at
ReachesNonce(t, o) == ValidPrefix(o) /\ JwtVerify(t) /\ ValidateAudienceAndAzp(t)

Accepts(t, o) ==
    /\ ReachesNonce(t, o) /\ NonceIsFresh(t.nonce)
    /\ ValidateMessageSpecificClaims(t, o) /\ ValidateVendorClaims(t, o)

ValidateMessageToolJwt(t, o) ==
    /\ seen' = IF ReachesNonce(t, o) THEN [seen EXCEPT ![t.nonce] = now] ELSE seen
    /\ IF Accepts(t, o)
       THEN /\ accepted[t] < MaxTries
            /\ accepted' = [accepted EXCEPT ![t] = @ + 1]
            /\ claims' = PerformVendorValidations(t, o)
       ELSE UNCHANGED <<accepted, claims>>
    /\ UNCHANGED now

Next == Tick \/ \E t \in Tokens, o \in Options : ValidateMessageToolJwt(t, o)

Spec == Init /\ [][Next]_vars

-----------------------------------------------------------------------------
(***************************************************************************)
(* Properties.                                                             *)
(***************************************************************************)
\* A token is accepted at most once, however often it is presented: a second time the
\* platform remembers its nonce, and by the time it forgets it the token is too old.
AcceptedOnce == \A t \in Tokens : accepted[t] <= 1

=============================================================================
