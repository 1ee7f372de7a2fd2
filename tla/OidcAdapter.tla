---------------------------- MODULE OidcAdapter ----------------------------
(***************************************************************************)
(* The Redis adapter through which oidc-provider keeps its tokens, grants, *)
(* sessions and interactions.  A model is a JSON document under its id.  A *)
(* token is also pushed on the list of its grant, so that revoking the     *)
(* grant finds it, and a session is indexed under its uid.  Every key has  *)
(* its own time to live, which Redis counts in milliseconds and is asked   *)
(* for, and tells, in whole seconds.                                       *)
(*                                                                         *)
(* upsert queues its commands in a MULTI, then awaits the TTL of the       *)
(* grant's list before it decides about one more command and executes      *)
(* them; revokeByGrantId queues what an awaited LRANGE returned.  Between  *)
(* the two the clock goes on, and other requests unless Serial.            *)
(***************************************************************************)
EXTENDS Integers

CONSTANTS
    Models,   \* ids of models
    GrantOf,  \* GrantOf[m]: the grant of the token m, Nil when m is not grantable
    UidOf,    \* UidOf[m]: the uid of the session m (or a user code), Nil without
    Grants, Uids,
    Upserts,  \* concurrent requests that store a token
    Revokers, \* concurrent requests that revoke a grant
    Lifetimes,\* the times to live oidc-provider asks for, in seconds
    Ticks,    \* by how many milliseconds the clock may advance at once
    Latency,  \* how long an upsert awaits the answer to TTL, at most
    MaxTime,  \* bound of the clock
    Serial,   \* whether a request is over before the next starts
    Nil

ASSUME AdapterAssumption ==
    /\ GrantOf \in [Models -> Grants \cup {Nil}] /\ Nil \notin Grants
    /\ UidOf \in [Models -> Uids \cup {Nil}] /\ Nil \notin Uids
    /\ Lifetimes \subseteq Nat \ {0} /\ Ticks \subseteq Nat
    /\ Latency \in Nat /\ MaxTime \in Nat
    /\ Nil \notin [model : Models, expiry : Nat]
    /\ Serial \in BOOLEAN

Ms(seconds) == 1000 * seconds

NoExpiry == -1  \* what TTL says of a key that never expires
NoKey == -2     \* what TTL says of a key that does not exist

VARIABLES
    now,
    document,    \* document[m]: the JSON document under m: whether its root is a string or
                 \* an object, and whether it was marked as consumed; Nil before
    modelExpiry, \* modelExpiry[m]: when it expires
    listed,      \* listed[g]: the models on the list of grant g
    listExpiry,  \* listExpiry[g]: when the list expires, NoExpiry for never
    index,       \* index[u]: the model under the uid u and when the entry expires
    upserting,   \* upserting[p]: what p is about to execute
    revoking,    \* revoking[r]: what r is about to execute
    revoked,     \* history: the tokens that were revoked and not stored again
    latest       \* history: latest[u] is the model last stored with the uid u

redis == <<document, modelExpiry, listed, listExpiry, index>>
requests == <<upserting, revoking>>
history == <<revoked, latest>>
adapterVars == <<now, redis, requests, history>>

AdapterInit ==
    /\ now = 0
    /\ document = [m \in Models |-> Nil]
    /\ modelExpiry = [m \in Models |-> 0]
    /\ listed = [g \in Grants |-> {}]
    /\ listExpiry = [g \in Grants |-> 0]
    /\ index = [u \in Uids |-> Nil]
    /\ upserting = [p \in Upserts |-> Nil]
    /\ revoking = [r \in Revokers |-> Nil]
    /\ revoked = {}
    /\ latest = [u \in Uids |-> Nil]

-----------------------------------------------------------------------------
(***************************************************************************)
(* What Redis answers                                                      *)
(***************************************************************************)
Findable(m) == document[m] # Nil /\ now < modelExpiry[m]

List(g) == IF listExpiry[g] = NoExpiry \/ now < listExpiry[g] THEN listed[g] ELSE {}

\* In seconds, to the nearest: half a second may be missing, or be there for nothing.
Ttl(g) == IF List(g) = {} THEN NoKey
          ELSE IF listExpiry[g] = NoExpiry THEN NoExpiry
          ELSE (listExpiry[g] - now + 500) \div 1000

FindByUid(u) ==
    IF index[u] # Nil /\ now < index[u].expiry /\ Findable(index[u].model)
      THEN index[u].model ELSE Nil

TokensOf(g) == {m \in Models : GrantOf[m] = g /\ Findable(m)}

-----------------------------------------------------------------------------
(***************************************************************************)
(* Storing                                                                 *)
(***************************************************************************)
Idle == /\ \A p \in Upserts : upserting[p] = Nil
        /\ \A r \in Revokers : revoking[r] = Nil
MayInterleave == Serial => Idle

\* The adapter hands the client a string it made of the payload, which the client makes
\* into JSON once more: the root of the document is a string.
StoreDocument(m, life) ==
    /\ document' = [document EXCEPT ![m] = [root |-> "string", consumed |-> FALSE]]
    /\ modelExpiry' = [modelExpiry EXCEPT ![m] = now + Ms(life)]
    /\ revoked' = revoked \ {m}

\* A token: the commands so far are queued, and the TTL of its grant's list is awaited.
StartUpsert(p, m, life) ==
    /\ MayInterleave
    /\ upserting[p] = Nil
    /\ GrantOf[m] # Nil
    /\ upserting' = [upserting EXCEPT ![p] =
                       [model |-> m, life |-> life, ttl |-> Ttl(GrantOf[m]), asked |-> now]]
    /\ UNCHANGED <<now, redis, revoking, history>>

\* Mutant: a uid that is indexed already keeps its entry.
IndexOnce(m, life) ==
    IF UidOf[m] = Nil \/ index[UidOf[m]] # Nil THEN index
    ELSE [index EXCEPT ![UidOf[m]] = [model |-> m, expiry |-> now + Ms(life)]]

Indexed(m, life) ==
    IF UidOf[m] = Nil THEN index
    ELSE [index EXCEPT ![UidOf[m]] = [model |-> m, expiry |-> now + Ms(life)]]

Index(m, life) ==
    /\ index' = Indexed(m, life)
    /\ latest' = [u \in Uids |-> IF u = UidOf[m] THEN m ELSE latest[u]]

\* Mutant: the list's time to live is left as it is.
NeverExtend(life, ttl) == ttl = NoKey

Extends(life, ttl) == life > ttl

\* MULTI: the document, the push on the list and, when the token would outlive the list
\* of the awaited answer, the list's new time to live.  A push on a list that is gone
\* makes a new one, which does not expire by itself.
ExecUpsert(p) ==
    LET st == upserting[p]
        g == GrantOf[st.model]
    IN  /\ st # Nil
        /\ StoreDocument(st.model, st.life)
        /\ listed' = [listed EXCEPT ![g] = List(g) \cup {st.model}]
        /\ listExpiry' = [listExpiry EXCEPT ![g] =
                            IF Extends(st.life, st.ttl) THEN now + Ms(st.life)
                            ELSE IF List(g) = {} THEN NoExpiry
                            ELSE @]
        /\ upserting' = [upserting EXCEPT ![p] = Nil]
        /\ revoking' = [r \in Revokers |-> IF revoking[r] = Nil THEN Nil
                          ELSE [revoking[r] EXCEPT !.granted = @ \ {st.model}]]
        /\ Index(st.model, st.life)
        /\ UNCHANGED now

\* A session, or a model with nothing to index: one MULTI.
Upsert(m, life) ==
    /\ MayInterleave
    /\ GrantOf[m] = Nil
    /\ StoreDocument(m, life)
    /\ Index(m, life)
    /\ UNCHANGED <<now, listed, listExpiry, requests>>

\* JSON.SET of the member "consumed": only an object has members, and on any other root the
\* command answers nil, which consume takes for success.
Consume(m) ==
    /\ MayInterleave
    /\ Findable(m)
    /\ document' = [document EXCEPT ![m].consumed = @ \/ document[m].root = "object"]
    /\ UNCHANGED <<now, modelExpiry, listed, listExpiry, index, requests, history>>

Destroy(m) ==
    /\ MayInterleave
    /\ document' = [document EXCEPT ![m] = Nil]
    /\ UNCHANGED <<now, modelExpiry, listed, listExpiry, index, requests, history>>

-----------------------------------------------------------------------------
(***************************************************************************)
(* Revoking                                                                *)
(***************************************************************************)

\* "tokens" is the answer of LRANGE.  "granted", which the code does not have, is what the
\* caller means to revoke: the tokens in store, less those stored again in the meantime.
StartRevoke(r, g) ==
    /\ MayInterleave
    /\ revoking[r] = Nil
    /\ revoking' = [revoking EXCEPT ![r] =
                      [grant |-> g, tokens |-> List(g), granted |-> TokensOf(g)]]
    /\ UNCHANGED <<now, redis, upserting, history>>

\* Mutant: only the list is deleted.
KeepDocuments(tokens) == document

WithoutDocuments(tokens) == [m \in Models |-> IF m \in tokens THEN Nil ELSE document[m]]

ExecRevoke(r) ==
    LET st == revoking[r]
    IN  /\ st # Nil
        /\ document' = WithoutDocuments(st.tokens)
        /\ listed' = [listed EXCEPT ![st.grant] = {}]
        /\ listExpiry' = [listExpiry EXCEPT ![st.grant] = 0]
        /\ revoking' = [revoking EXCEPT ![r] = Nil]
        /\ revoked' = revoked \cup st.granted
        /\ UNCHANGED <<now, modelExpiry, index, upserting, latest>>

-----------------------------------------------------------------------------
\* The clock goes on while requests are awaiting Redis.
Tick(d) ==
    /\ now + d <= MaxTime
    /\ \A p \in Upserts : upserting[p] # Nil => now + d <= upserting[p].asked + Latency
    /\ now' = now + d
    /\ UNCHANGED <<redis, requests, history>>

AdapterNext ==
    \/ \E m \in Models, life \in Lifetimes :
          Upsert(m, life) \/ \E p \in Upserts : StartUpsert(p, m, life)
    \/ \E p \in Upserts : ExecUpsert(p)
    \/ \E m \in Models : Consume(m) \/ Destroy(m)
    \/ \E r \in Revokers, g \in Grants : StartRevoke(r, g)
    \/ \E r \in Revokers : ExecRevoke(r)
    \/ \E d \in Ticks : Tick(d)

AdapterSpec == AdapterInit /\ [][AdapterNext]_adapterVars

-----------------------------------------------------------------------------
(***************************************************************************)
(* Correctness                                                             *)
(***************************************************************************)

\* What a list may lack of the life of a token: the half second TTL rounds by, and the
\* time upsert awaits TTL before the new life counts.
Slack == 500 + Latency

\* A token in store is on the list of its grant, and the list lives as long as the token
\* but for the slack: what revokeByGrantId relies on, and upsert keeps up with one EXPIRE.
ListOutlivesTokens ==
    \A m \in Models : Findable(m) /\ GrantOf[m] # Nil /\ now + Slack < modelExpiry[m] =>
        LET g == GrantOf[m]
        IN  /\ m \in List(g)
            /\ listExpiry[g] = NoExpiry \/ modelExpiry[m] <= listExpiry[g] + Slack

\* Once a grant is revoked, no token of it that was in store when revokeByGrantId was called
\* is found again unless it is stored anew, but for one about to expire: its list may have
\* expired before it.
RevokedTokensAreGone == \A m \in revoked : Findable(m) => modelExpiry[m] <= now + Slack

\* The session last stored with a uid is found by that uid for as long as it is in store:
\* the uid's entry never points to an older session, and never expires first.
UidFindsLatest ==
    \A u \in Uids : latest[u] # Nil /\ Findable(latest[u]) => FindByUid(u) = latest[u]

=============================================================================
