----------------------------- MODULE OidcProofs -----------------------------
(***************************************************************************)
(* The two halves of the OpenID provider: the store it keeps its models in *)
(* (OidcAdapter) and the interactions with the user (OidcInteractions).    *)
(*                                                                         *)
(* The store: a uid always finds the session stored last, however requests *)
(* interleave.  The list of a grant outlives its tokens, and a revocation  *)
(* reaches all of them, when requests come one at a time: only the clock   *)
(* goes on between what upsert and revokeByGrantId were answered and its   *)
(* use, and what it can spoil is bounded by the slack.                     *)
(***************************************************************************)
EXTENDS OidcAdapter, OidcInteractions, TLAPS

-----------------------------------------------------------------------------
(***************************************************************************)
(* Sessions and their uids.                                                *)
(***************************************************************************)
\* What a store that is under way is about to execute is a token of some grant.
UpsertsInv ==
    \A p \in Upserts : upserting[p] # Nil =>
        /\ upserting[p].model \in Models /\ GrantOf[upserting[p].model] # Nil
        /\ upserting[p].life \in Lifetimes

\* The uid's entry is of the session stored last, and was given its time to live.
IndexInv ==
    \A u \in Uids : latest[u] # Nil =>
        /\ latest[u] \in Models /\ index[u] # Nil
        /\ index[u].model = latest[u] /\ index[u].expiry = modelExpiry[latest[u]]
        /\ UidOf[latest[u]] = u

SessionInv ==
    /\ now \in Nat
    /\ modelExpiry \in [Models -> Nat]
    /\ DOMAIN index = Uids
    /\ upserting = [p \in Upserts |-> upserting[p]]
    /\ UpsertsInv /\ IndexInv

LEMMA StoringIndexes ==
  ASSUME SessionInv, NEW m \in Models, NEW life \in Lifetimes,
         StoreDocument(m, life), Index(m, life)
  PROVE  modelExpiry' \in [Models -> Nat] /\ DOMAIN index' = Uids /\ IndexInv'
<1> USE DEF SessionInv
<1>1. modelExpiry' = [modelExpiry EXCEPT ![m] = now + Ms(life)] /\ now + Ms(life) \in Nat
  BY AdapterAssumption DEF StoreDocument, Ms
<1>2. modelExpiry' \in [Models -> Nat]
  BY <1>1
<1>3. DOMAIN index' = Uids
  BY DEF Index, Indexed
<1>4. ASSUME NEW u \in Uids, latest'[u] # Nil
      PROVE  /\ latest'[u] \in Models /\ index'[u] # Nil
             /\ index'[u].model = latest'[u] /\ index'[u].expiry = modelExpiry'[latest'[u]]
             /\ UidOf[latest'[u]] = u
  <2>1. CASE u = UidOf[m]
    <3>1. index'[u] = [model |-> m, expiry |-> now + Ms(life)] /\ latest'[u] = m
      BY <2>1, AdapterAssumption DEF Index, Indexed
    <3>2. index'[u] \in [model : Models, expiry : Nat]
      BY <1>1, <3>1
    <3> QED  BY <1>1, <2>1, <3>1, <3>2, AdapterAssumption
  <2>2. CASE u # UidOf[m]
    <3>1. index'[u] = index[u] /\ latest'[u] = latest[u]
      BY <2>2 DEF Index, Indexed
    <3>2. latest[u] # m
      BY <1>4, <2>2, <3>1 DEF IndexInv
    <3> QED  BY <1>1, <1>4, <3>1, <3>2 DEF IndexInv
  <2> QED  BY <2>1, <2>2
<1> QED  BY <1>2, <1>3, <1>4 DEF IndexInv

LEMMA InitSessionInv == AdapterInit => SessionInv
  BY DEF AdapterInit, SessionInv, UpsertsInv, IndexInv

LEMMA SessionStep == SessionInv /\ [AdapterNext]_adapterVars => SessionInv'
<1> SUFFICES ASSUME SessionInv, [AdapterNext]_adapterVars PROVE SessionInv'
  OBVIOUS
<1> USE DEF SessionInv
<1>1. CASE \E m \in Models, life \in Lifetimes : Upsert(m, life)
  <2> PICK m \in Models, life \in Lifetimes : Upsert(m, life)
    BY <1>1
  <2>1. modelExpiry' \in [Models -> Nat] /\ DOMAIN index' = Uids /\ IndexInv'
    BY StoringIndexes DEF Upsert
  <2>2. now' \in Nat /\ upserting' = upserting
    BY DEF Upsert, requests
  <2> QED  BY <2>1, <2>2 DEF UpsertsInv
<1>2. CASE \E m \in Models, life \in Lifetimes, p \in Upserts : StartUpsert(p, m, life)
  <2> PICK m \in Models, life \in Lifetimes, p \in Upserts : StartUpsert(p, m, life)
    BY <1>2
  <2>1. UNCHANGED <<now, modelExpiry, index, latest>>
    BY DEF StartUpsert, redis, history
  <2>2. upserting' = [upserting EXCEPT ![p] =
                        [model |-> m, life |-> life, ttl |-> Ttl(GrantOf[m]), asked |-> now]]
        /\ GrantOf[m] # Nil
    BY DEF StartUpsert
  <2>3. UpsertsInv'
    BY <2>2 DEF UpsertsInv
  <2>4. upserting' = [q \in Upserts |-> upserting'[q]]
    BY <2>2
  <2> QED  BY <2>1, <2>3, <2>4 DEF IndexInv
<1>3. CASE \E p \in Upserts : ExecUpsert(p)
  <2> PICK p \in Upserts : ExecUpsert(p)
    BY <1>3
  <2> DEFINE m == upserting[p].model
             life == upserting[p].life
  <2>1. m \in Models /\ life \in Lifetimes /\ StoreDocument(m, life) /\ Index(m, life)
    BY DEF ExecUpsert, UpsertsInv
  <2>2. modelExpiry' \in [Models -> Nat] /\ DOMAIN index' = Uids /\ IndexInv'
    BY <2>1, StoringIndexes
  <2>3. now' \in Nat /\ upserting' = [upserting EXCEPT ![p] = Nil]
    BY DEF ExecUpsert
  <2>4. UpsertsInv'
    BY <2>3 DEF UpsertsInv
  <2>5. upserting' = [q \in Upserts |-> upserting'[q]]
    BY <2>3
  <2> QED  BY <2>2, <2>3, <2>4, <2>5
<1>4. CASE \/ \E m \in Models : Consume(m) \/ Destroy(m)
           \/ \E r \in Revokers, g \in Grants : StartRevoke(r, g)
           \/ \E r \in Revokers : ExecRevoke(r)
           \/ UNCHANGED adapterVars
  <2>1. UNCHANGED <<modelExpiry, index, upserting, latest>> /\ now' \in Nat
    BY <1>4 DEF Consume, Destroy, StartRevoke, ExecRevoke, redis, requests, history, adapterVars
  <2> QED  BY <2>1 DEF UpsertsInv, IndexInv
<1>5. CASE \E d \in Ticks : Tick(d)
  <2> PICK d \in Ticks : Tick(d)
    BY <1>5
  <2>1. UNCHANGED <<modelExpiry, index, upserting, latest>> /\ now' = now + d
    BY DEF Tick, redis, requests, history
  <2>2. d \in Nat
    BY AdapterAssumption
  <2>3. now' \in Nat
    BY <2>1, <2>2
  <2> QED  BY <2>1, <2>3 DEF UpsertsInv, IndexInv
<1> QED  BY <1>1, <1>2, <1>3, <1>4, <1>5, Zenon DEF AdapterNext

\* The session stored last with a uid is found by it as long as it is in store, whatever
\* stores, consumptions, removals and revocations interleave.
THEOREM UidsFindTheLatest == AdapterSpec => []UidFindsLatest
<1>1. SessionInv => UidFindsLatest
  <2> SUFFICES ASSUME SessionInv, NEW u \in Uids, latest[u] # Nil, Findable(latest[u])
               PROVE  FindByUid(u) = latest[u]
    BY DEF UidFindsLatest
  <2> QED  BY DEF SessionInv, IndexInv, FindByUid, Findable
<1> QED  BY <1>1, InitSessionInv, SessionStep, PTL DEF AdapterSpec

-----------------------------------------------------------------------------
(***************************************************************************)
(* Requests one at a time.                                                 *)
(***************************************************************************)
\* A token that has more than the slack to live is on its grant's list, which is to expire,
\* but not before the token by more than the slack.  A list that is there for ever was made
\* by the push of a token that had no more than the slack to live.
Lasts(m) == Findable(m) /\ GrantOf[m] # Nil /\ now + Slack < modelExpiry[m]

ListsCover ==
    \A m \in Models : Lasts(m) =>
        /\ m \in List(GrantOf[m]) /\ listExpiry[GrantOf[m]] \in Nat
        /\ modelExpiry[m] <= listExpiry[GrantOf[m]] + Slack

\* What TTL told p, in terms of the list as it now is: a list may expire while p awaits the
\* answer, but nobody touches it.
ToldGone(g, ttl) == ttl = -2 /\ List(g) = {}
ToldForever(g, ttl) == ttl = -1 /\ listExpiry[g] = -1
ToldLife(g, ttl, asked) ==
    /\ ttl \in Nat /\ listExpiry[g] \in Nat /\ listed[g] # {}
    /\ 1000 * ttl <= listExpiry[g] - asked + 500
    /\ listExpiry[g] - asked + 500 < 1000 * ttl + 1000

Told(g, ttl, asked) ==
    /\ asked \in Nat /\ asked <= now /\ now <= asked + Latency
    /\ ToldGone(g, ttl) \/ ToldForever(g, ttl) \/ ToldLife(g, ttl, asked)

\* What LRANGE told r: all that is on the list now, and all that was granted but what is
\* about to expire.
Listing(request) ==
    /\ request.grant \in Grants
    /\ List(request.grant) \subseteq request.tokens
    /\ request.granted \subseteq Models
    /\ \A m \in request.granted : m \in request.tokens \/ modelExpiry[m] <= now + Slack

\* A request that is under way is alone.
AloneInv ==
    /\ \A p \in Upserts : upserting[p] # Nil =>
        /\ \A q \in Upserts \ {p} : upserting[q] = Nil
        /\ \A r \in Revokers : revoking[r] = Nil
        /\ Told(GrantOf[upserting[p].model], upserting[p].ttl, upserting[p].asked)
    /\ \A r \in Revokers : revoking[r] # Nil =>
        /\ \A p \in Upserts : upserting[p] = Nil
        /\ \A q \in Revokers \ {r} : revoking[q] = Nil
        /\ Listing(revoking[r])

ListsInv ==
    /\ document = [m \in Models |-> document[m]]
    /\ listed \in [Grants -> SUBSET Models]
    /\ listExpiry \in [Grants -> Nat \cup {-1}]
    /\ revoked \subseteq Models
    /\ revoking = [r \in Revokers |-> revoking[r]]

SerialInv ==
    /\ Serial /\ SessionInv /\ ListsInv /\ AloneInv
    /\ ListsCover /\ RevokedTokensAreGone

LEMMA InitSerialInv == AdapterInit /\ Serial => SerialInv
<1> SUFFICES ASSUME AdapterInit, Serial PROVE SerialInv
  OBVIOUS
<1>1. ListsInv /\ AloneInv
  BY DEF AdapterInit, ListsInv, AloneInv
<1>2. ListsCover /\ RevokedTokensAreGone
  BY DEF AdapterInit, ListsCover, Lasts, RevokedTokensAreGone, Findable
<1> QED  BY <1>1, <1>2, InitSessionInv DEF SerialInv

\* Nothing is under way when a request may start.
LEMMA NobodyIsUnderWay ==
  ASSUME SerialInv, MayInterleave
  PROVE  /\ \A p \in Upserts : upserting[p] = Nil
         /\ \A r \in Revokers : revoking[r] = Nil
  BY DEF SerialInv, MayInterleave, Idle

\* The slack, and what the list of a grant holds, in numbers.
LEMMA Numbers ==
  ASSUME SerialInv
  PROVE  /\ Slack = 500 + Latency /\ Slack \in Nat /\ Latency \in Nat /\ now \in Nat
         /\ \A m \in Models : modelExpiry[m] \in Nat
         /\ \A g \in Grants :
               /\ List(g) = IF listExpiry[g] = -1 \/ now < listExpiry[g] THEN listed[g] ELSE {}
               /\ listExpiry[g] \in Nat \cup {-1} /\ listed[g] \subseteq Models
  BY AdapterAssumption DEF SerialInv, SessionInv, ListsInv, List, NoExpiry, Slack

\* TTL rounds to the nearest second.
LEMMA TtlTells ==
  ASSUME SerialInv, NEW g \in Grants
  PROVE  Told(g, Ttl(g), now)
<1>1. /\ Latency \in Nat /\ now \in Nat /\ listExpiry[g] \in Nat \cup {-1}
      /\ List(g) = IF listExpiry[g] = -1 \/ now < listExpiry[g] THEN listed[g] ELSE {}
  BY Numbers
<1>2. CASE List(g) = {}
  BY <1>1, <1>2 DEF Told, ToldGone, Ttl, NoKey
<1>3. CASE List(g) # {} /\ listExpiry[g] = -1
  BY <1>1, <1>3 DEF Told, ToldForever, Ttl, NoExpiry
<1>4. CASE List(g) # {} /\ listExpiry[g] # -1
  <2>1. listExpiry[g] \in Nat /\ now < listExpiry[g] /\ listed[g] # {}
    BY <1>1, <1>4
  <2>2. Ttl(g) = (listExpiry[g] - now + 500) \div 1000
    BY <1>1, <1>4 DEF Ttl, NoExpiry
  <2> HIDE DEF Ttl
  <2>3. \A x \in Nat : /\ x \div 1000 \in Nat /\ 1000 * (x \div 1000) <= x
                       /\ x < 1000 * (x \div 1000) + 1000
    OBVIOUS
  <2>4. listExpiry[g] - now + 500 \in Nat
    BY <1>1, <2>1
  <2>5. ToldLife(g, Ttl(g), now)
    BY <2>1, <2>2, <2>3, <2>4 DEF ToldLife
  <2> QED  BY <1>1, <2>5 DEF Told
<1> QED  BY <1>2, <1>3, <1>4

\* What upsert does with the life of the list: an extension lengthens it, and a list that is
\* left alone lives long enough, or is gone and the token is about to go.
LEMMA LifeOfTheList ==
  ASSUME SerialInv, NEW g \in Grants, NEW ttl, NEW asked, NEW life \in Lifetimes,
         Told(g, ttl, asked)
  PROVE  /\ life > ttl /\ List(g) # {} => listExpiry[g] < now + Ms(life)
         /\ ~(life > ttl) => /\ listExpiry[g] \in Nat
                             /\ now + Ms(life) <= listExpiry[g] + Slack
                             /\ List(g) = {} => now + Ms(life) <= now + Slack
<1>1. /\ Slack = 500 + Latency /\ Latency \in Nat /\ now \in Nat
      /\ listExpiry[g] \in Nat \cup {-1}
      /\ List(g) = IF listExpiry[g] = -1 \/ now < listExpiry[g] THEN listed[g] ELSE {}
  BY Numbers
<1>2. life \in Nat /\ life >= 1 /\ Ms(life) = 1000 * life
  BY AdapterAssumption DEF Ms
<1>3. asked \in Nat /\ asked <= now /\ now <= asked + Latency
  BY DEF Told
<1>4. CASE ToldGone(g, ttl)
  <2>1. ttl = -2 /\ List(g) = {}
    BY <1>4 DEF ToldGone
  <2>2. life > ttl
    BY <1>2, <2>1
  <2> QED  BY <2>1, <2>2
<1>5. CASE ToldForever(g, ttl)
  BY <1>1, <1>2, <1>5 DEF ToldForever
<1>6. CASE ToldLife(g, ttl, asked)
  <2>1. /\ ttl \in Nat /\ listExpiry[g] \in Nat /\ listed[g] # {}
        /\ 1000 * ttl <= listExpiry[g] - asked + 500
        /\ listExpiry[g] - asked + 500 < 1000 * ttl + 1000
    BY <1>6 DEF ToldLife
  <2>2. life > ttl => listExpiry[g] < now + 1000 * life
    BY <1>2, <1>3, <1>1, <2>1
  <2>3. ~(life > ttl) => now + 1000 * life <= listExpiry[g] + Slack
    BY <1>1, <1>2, <1>3, <2>1
  <2>4. List(g) = {} => listExpiry[g] <= now
    BY <1>1, <2>1
  <2> QED  BY <1>1, <1>2, <2>1, <2>2, <2>3, <2>4
<1> QED  BY <1>4, <1>5, <1>6 DEF Told

LEMMA SerialUpsertStep ==
  ASSUME SerialInv, NEW p \in Upserts, ExecUpsert(p)
  PROVE  ListsInv' /\ AloneInv' /\ ListsCover' /\ RevokedTokensAreGone'
<1> USE DEF SerialInv
<1>a. PICK m, life, g, ttl, asked :
        /\ m \in Models /\ life \in Lifetimes /\ g \in Grants
        /\ m = upserting[p].model /\ life = upserting[p].life /\ ttl = upserting[p].ttl
        /\ g = GrantOf[m] /\ Told(g, ttl, asked)
  BY AdapterAssumption DEF ExecUpsert, SessionInv, UpsertsInv, AloneInv
<1> DEFINE before == List(g)
           expiry == IF life > ttl THEN now + Ms(life)
                     ELSE IF before = {} THEN -1 ELSE listExpiry[g]
<1>1. /\ m \in Models /\ g \in Grants /\ life \in Nat /\ life >= 1
      /\ Ms(life) = 1000 * life /\ Ms(life) \in Nat
  BY <1>a, AdapterAssumption DEF Ms
<1>2. /\ before = IF listExpiry[g] = -1 \/ now < listExpiry[g] THEN listed[g] ELSE {}
      /\ before \subseteq Models
      /\ listExpiry[g] \in Nat \cup {-1} /\ now \in Nat
      /\ Slack \in Nat /\ Slack = 500 + Latency
      /\ \A n \in Models : modelExpiry[n] \in Nat
  BY <1>1, Numbers
<1>3. /\ life > ttl /\ before # {} => listExpiry[g] < now + Ms(life)
      /\ ~(life > ttl) => /\ listExpiry[g] \in Nat
                          /\ now + Ms(life) <= listExpiry[g] + Slack
                          /\ before = {} => now + Ms(life) <= now + Slack
  BY <1>a, LifeOfTheList
<1>4. /\ listed' = [listed EXCEPT ![g] = before \cup {m}]
      /\ listExpiry' = [listExpiry EXCEPT ![g] = expiry]
      /\ document' = [document EXCEPT ![m] = [root |-> "string", consumed |-> FALSE]]
      /\ modelExpiry' = [modelExpiry EXCEPT ![m] = now + Ms(life)]
      /\ revoked' = revoked \ {m}
      /\ now' = now
  BY <1>a DEF ExecUpsert, StoreDocument, Extends, NoExpiry
<1>5. /\ upserting' = [upserting EXCEPT ![p] = Nil]
      /\ \A r \in Revokers : revoking'[r] = Nil
      /\ revoking' = [r \in Revokers |-> revoking'[r]]
  BY DEF ExecUpsert, AloneInv
<1>b. before = List(g)
  OBVIOUS
<1> HIDE DEF before
<1>6. /\ expiry \in Nat \cup {-1}
      /\ expiry = -1 => before = {} /\ now + Ms(life) <= now + Slack
      /\ expiry # -1 => /\ now < expiry /\ now + Ms(life) <= expiry + Slack
                        /\ (before # {} => listExpiry[g] <= expiry)
  <2>1. CASE life > ttl
    BY <1>1, <1>2, <1>3, <2>1
  <2>2. CASE ~(life > ttl) /\ before = {}
    BY <1>2, <1>3, <2>2
  <2>3. CASE ~(life > ttl) /\ before # {}
    <3>1. expiry = listExpiry[g] /\ listExpiry[g] \in Nat /\ now + Ms(life) <= listExpiry[g] + Slack
      BY <1>3, <2>3
    <3>2. now < listExpiry[g]
      BY <1>2, <2>3, <3>1
    <3> QED  BY <3>1, <3>2
  <2> QED  BY <2>1, <2>2, <2>3
<1> HIDE DEF expiry
<1>7. ListsInv'
  <2>1. listed' \in [Grants -> SUBSET Models]
    BY <1>1, <1>2, <1>4 DEF ListsInv
  <2>2. listExpiry' \in [Grants -> Nat \cup {-1}]
    BY <1>4, <1>6 DEF ListsInv
  <2>3. document' = [n \in Models |-> document'[n]] /\ revoked' \subseteq Models
    BY <1>4 DEF ListsInv
  <2> QED  BY <1>5, <2>1, <2>2, <2>3 DEF ListsInv
<1>8. AloneInv'
  <2>1. \A q \in Upserts : upserting'[q] = Nil
    BY <1>5 DEF AloneInv, ExecUpsert, SessionInv
  <2> QED  BY <1>5, <2>1 DEF AloneInv
<1>9. List(g)' = before \cup {m} /\ listExpiry'[g] = expiry
  BY <1>1, <1>2, <1>4, <1>6 DEF List, ListsInv, NoExpiry
<1>10. modelExpiry'[m] = now + Ms(life)
  BY <1>1, <1>4 DEF SessionInv
<1>11. ASSUME NEW n \in Models \ {m}
       PROVE  (Findable(n)' => Findable(n)) /\ modelExpiry'[n] = modelExpiry[n]
  BY <1>4, <1>11 DEF Findable, SessionInv, ListsInv
<1>12. Slack' = Slack
  BY DEF Slack
<1>13. ASSUME NEW n \in Models, Lasts(n)'
       PROVE  /\ n \in List(GrantOf[n])' /\ listExpiry'[GrantOf[n]] \in Nat
              /\ modelExpiry'[n] <= listExpiry'[GrantOf[n]] + Slack
  <2>0. Findable(n)' /\ GrantOf[n] # Nil /\ now + Slack < modelExpiry'[n]
    BY <1>4, <1>12, <1>13 DEF Lasts
  <2>1. CASE n = m
    <3>1. expiry # -1
      BY <1>1, <1>2, <1>6, <1>10, <2>0, <2>1
    <3>2. List(GrantOf[n])' = List(g)' /\ listExpiry'[GrantOf[n]] = expiry
      BY <1>a, <1>9, <2>1 DEF List
    <3> QED  BY <1>6, <1>9, <1>10, <2>1, <3>1, <3>2
  <2>2. CASE n # m
    <3>1. /\ n \in List(GrantOf[n]) /\ listExpiry[GrantOf[n]] \in Nat
          /\ modelExpiry[n] <= listExpiry[GrantOf[n]] + Slack
          /\ modelExpiry'[n] = modelExpiry[n]
      BY <1>11, <2>0, <2>2 DEF ListsCover, Lasts
    <3>2. CASE GrantOf[n] = g
      <4>1. n \in before /\ before # {}
        BY <1>b, <3>1, <3>2
      <4>2. expiry \in Nat /\ listExpiry[g] <= expiry
        BY <1>6, <4>1
      <4>3. List(GrantOf[n])' = before \cup {m} /\ listExpiry'[GrantOf[n]] = expiry
        BY <1>9, <3>2 DEF List
      <4>4. modelExpiry[n] \in Nat /\ listExpiry[g] \in Nat /\ Slack \in Nat
        BY <1>2, <3>1, <3>2
      <4> QED  BY <3>1, <3>2, <4>1, <4>2, <4>3, <4>4
    <3>3. CASE GrantOf[n] # g
      <4>1. GrantOf[n] \in Grants
        BY <2>0, AdapterAssumption
      <4>2. /\ listed'[GrantOf[n]] = listed[GrantOf[n]]
            /\ listExpiry'[GrantOf[n]] = listExpiry[GrantOf[n]]
        BY <1>4, <3>3, <4>1 DEF ListsInv
      <4>3. List(GrantOf[n])' = List(GrantOf[n])
        BY <1>4, <4>2 DEF List
      <4> QED  BY <3>1, <4>2, <4>3
    <3> QED  BY <3>2, <3>3
  <2> QED  BY <2>1, <2>2
<1>14. ListsCover'
  BY <1>12, <1>13 DEF ListsCover
<1>15. RevokedTokensAreGone'
  BY <1>4, <1>11, <1>12 DEF RevokedTokensAreGone, ListsInv
<1> QED  BY <1>7, <1>8, <1>14, <1>15

\* Where tokens only go, and lists and the clock stay, lists outlive tokens.
LEMMA FewerTokens ==
  ASSUME SerialInv, UNCHANGED <<now, listed, listExpiry>>,
         \A n \in Models : GrantOf[n] # Nil /\ Findable(n)' =>
            Findable(n) /\ modelExpiry'[n] = modelExpiry[n]
  PROVE  ListsCover'
<1> SUFFICES ASSUME NEW n \in Models, Lasts(n)'
             PROVE  /\ n \in List(GrantOf[n])' /\ listExpiry'[GrantOf[n]] \in Nat
                    /\ modelExpiry'[n] <= listExpiry'[GrantOf[n]] + Slack
  BY DEF ListsCover, Slack
<1>1. Lasts(n) /\ modelExpiry'[n] = modelExpiry[n]
  BY DEF Lasts, Slack
<1>2. /\ n \in List(GrantOf[n]) /\ listExpiry[GrantOf[n]] \in Nat
      /\ modelExpiry[n] <= listExpiry[GrantOf[n]] + Slack
  BY <1>1 DEF SerialInv, ListsCover
<1>3. List(GrantOf[n])' = List(GrantOf[n])
  BY DEF List
<1> QED  BY <1>1, <1>2, <1>3

\* A request that starts is alone, and keeps what Redis answers it.
LEMMA StartStep ==
  ASSUME SerialInv,
         \/ \E p \in Upserts, m \in Models, life \in Lifetimes : StartUpsert(p, m, life)
         \/ \E r \in Revokers, g \in Grants : StartRevoke(r, g)
  PROVE  ListsInv' /\ AloneInv' /\ ListsCover' /\ RevokedTokensAreGone'
<1> USE DEF SerialInv
<1>1. UNCHANGED <<now, document, modelExpiry, listed, listExpiry, index, revoked>>
  BY DEF StartUpsert, StartRevoke, redis, history
<1>2. /\ \A p \in Upserts : upserting[p] = Nil
      /\ \A r \in Revokers : revoking[r] = Nil
  BY NobodyIsUnderWay DEF StartUpsert, StartRevoke
<1>3. \A g \in Grants : \A ttl, asked : Told(g, ttl, asked) => Told(g, ttl, asked)'
  BY <1>1 DEF Told, ToldGone, ToldForever, ToldLife, List
<1>4. ListsCover' /\ RevokedTokensAreGone'
  BY <1>1, FewerTokens DEF RevokedTokensAreGone, Findable, Slack
<1>5. CASE \E p \in Upserts, m \in Models, life \in Lifetimes : StartUpsert(p, m, life)
  <2> PICK p \in Upserts, m \in Models, life \in Lifetimes : StartUpsert(p, m, life)
    BY <1>5
  <2>1. /\ upserting' = [upserting EXCEPT ![p] =
                           [model |-> m, life |-> life, ttl |-> Ttl(GrantOf[m]), asked |-> now]]
        /\ revoking' = revoking /\ GrantOf[m] \in Grants
    BY AdapterAssumption DEF StartUpsert
  <2>2. ListsInv'
    BY <1>1, <2>1 DEF ListsInv
  <2>3. \A q \in Upserts \ {p} : upserting'[q] = Nil
    BY <1>2, <2>1
  <2>4. /\ upserting'[p].model = m /\ upserting'[p].ttl = Ttl(GrantOf[m])
        /\ upserting'[p].asked = now
    BY <2>1 DEF SessionInv
  <2>5. Told(GrantOf[m], Ttl(GrantOf[m]), now)
    BY <2>1, TtlTells
  <2>6. Told(GrantOf[upserting[p].model], upserting[p].ttl, upserting[p].asked)'
    <3> DEFINE g == GrantOf[m]
               ttl == Ttl(g)
    <3>1. PICK h, t, a : /\ h = GrantOf[m] /\ t = Ttl(GrantOf[m]) /\ a = now /\ h \in Grants
                         /\ Told(h, t, a)
      BY <2>1, <2>5
    <3>2. Told(h, t, a)'
      BY <1>3, <3>1
    <3> QED  BY <2>4, <3>1, <3>2 DEF Told, ToldGone, ToldForever, ToldLife, List
  <2>7. AloneInv'
    BY <1>2, <2>1, <2>3, <2>6 DEF AloneInv
  <2> QED  BY <1>4, <2>2, <2>7
<1>6. CASE \E r \in Revokers, g \in Grants : StartRevoke(r, g)
  <2> PICK r \in Revokers, g \in Grants : StartRevoke(r, g)
    BY <1>6
  <2>1. /\ revoking' = [revoking EXCEPT ![r] =
                          [grant |-> g, tokens |-> List(g), granted |-> TokensOf(g)]]
        /\ upserting' = upserting
    BY DEF StartRevoke
  <2>2. ListsInv'
    BY <1>1, <2>1 DEF ListsInv
  <2>3. \A q \in Revokers \ {r} : revoking'[q] = Nil
    BY <1>2, <2>1
  <2>4. /\ revoking'[r].grant = g /\ revoking'[r].tokens = List(g)
        /\ revoking'[r].granted = TokensOf(g)
    BY <2>1 DEF ListsInv
  <2>5. List(revoking[r].grant)' = List(g)
    BY <1>1, <2>4 DEF List
  <2>6. ASSUME NEW m \in TokensOf(g)
        PROVE  m \in Models /\ (m \in List(g) \/ modelExpiry[m] <= now + Slack)
    <3>1. m \in Models /\ GrantOf[m] = g /\ Findable(m) /\ g # Nil
      BY AdapterAssumption DEF TokensOf
    <3>2. now + Slack < modelExpiry[m] => m \in List(g)
      BY <3>1 DEF ListsCover, Lasts
    <3> QED  BY <3>1, <3>2, Numbers
  <2>7. Listing(revoking[r])'
    BY <1>1, <2>4, <2>5, <2>6 DEF Listing, Slack
  <2>8. AloneInv'
    BY <1>2, <2>1, <2>3, <2>7 DEF AloneInv
  <2> QED  BY <1>4, <2>2, <2>8
<1> QED  BY <1>5, <1>6

\* What is done in one command leaves no token that its list does not hold.
LEMMA CommandStep ==
  ASSUME SerialInv,
         \/ \E m \in Models, life \in Lifetimes : Upsert(m, life)
         \/ \E m \in Models : Consume(m) \/ Destroy(m)
  PROVE  ListsInv' /\ AloneInv' /\ ListsCover' /\ RevokedTokensAreGone'
<1> USE DEF SerialInv
<1>1. UNCHANGED <<now, listed, listExpiry, upserting, revoking>>
  BY DEF Upsert, Consume, Destroy, requests
<1>2. AloneInv'
  BY <1>1, NobodyIsUnderWay DEF Upsert, Consume, Destroy, AloneInv
<1>3. document' = [m \in Models |-> document'[m]] /\ revoked' \subseteq Models
  BY DEF Upsert, Consume, Destroy, StoreDocument, ListsInv, history
<1>4. ListsInv'
  BY <1>1, <1>3 DEF ListsInv
<1>5. CASE \E m \in Models, life \in Lifetimes : Upsert(m, life)
  <2> PICK m \in Models, life \in Lifetimes : Upsert(m, life)
    BY <1>5
  <2>1. \A n \in Models \ {m} : document'[n] = document[n] /\ modelExpiry'[n] = modelExpiry[n]
    BY DEF Upsert, StoreDocument, ListsInv, SessionInv
  <2>2. revoked' = revoked \ {m} /\ GrantOf[m] = Nil
    BY DEF Upsert, StoreDocument
  <2>3. ListsCover'
    BY <1>1, <2>1, <2>2, FewerTokens DEF Findable
  <2>4. RevokedTokensAreGone'
    <3> SUFFICES ASSUME NEW n \in revoked', Findable(n)'
                 PROVE  modelExpiry'[n] <= now' + Slack
      BY DEF RevokedTokensAreGone, Slack
    <3>1. n \in Models \ {m} /\ n \in revoked
      BY <2>2 DEF ListsInv
    <3>2. Findable(n) /\ modelExpiry'[n] = modelExpiry[n]
      BY <1>1, <2>1, <3>1 DEF Findable
    <3> QED  BY <1>1, <3>1, <3>2 DEF RevokedTokensAreGone
  <2> QED  BY <1>2, <1>4, <2>3, <2>4
<1>6. CASE \E m \in Models : Consume(m) \/ Destroy(m)
  <2>1. modelExpiry' = modelExpiry /\ revoked' = revoked
    BY <1>6 DEF Consume, Destroy, history
  <2>2. ASSUME NEW n \in Models, document'[n] # Nil PROVE document[n] # Nil
    <3>1. PICK m \in Models : Consume(m) \/ Destroy(m)
      BY <1>6
    <3>2. CASE n = m
      <4>1. Consume(m) => document[m] # Nil
        BY DEF Consume, Findable
      <4>2. Destroy(m) => document'[m] = Nil
        BY DEF Destroy, ListsInv
      <4> QED  BY <2>2, <3>1, <3>2, <4>1, <4>2
    <3>3. CASE n # m
      <4>1. document'[n] = document[n]
        BY <3>1, <3>3 DEF Consume, Destroy, ListsInv
      <4> QED  BY <2>2, <4>1
    <3> QED  BY <3>2, <3>3
  <2>3. \A n \in Models : Findable(n)' => Findable(n)
    BY <1>1, <2>1, <2>2 DEF Findable
  <2>4. ListsCover'
    BY <1>1, <2>1, <2>3, FewerTokens
  <2>5. RevokedTokensAreGone'
    BY <1>1, <2>1, <2>3 DEF RevokedTokensAreGone, ListsInv, Slack
  <2> QED  BY <1>2, <1>4, <2>4, <2>5
<1> QED  BY <1>5, <1>6

\* The revocation deletes what LRANGE listed, which holds all tokens of the grant but those
\* that are about to expire.
LEMMA SerialRevokeStep ==
  ASSUME SerialInv, NEW r \in Revokers, ExecRevoke(r)
  PROVE  ListsInv' /\ AloneInv' /\ ListsCover' /\ RevokedTokensAreGone'
<1> USE DEF SerialInv
<1>a. PICK g, tokens, granted :
        /\ g \in Grants /\ g = revoking[r].grant /\ tokens = revoking[r].tokens
        /\ granted = revoking[r].granted
        /\ List(g) \subseteq tokens /\ granted \subseteq Models
        /\ \A m \in granted : m \in tokens \/ modelExpiry[m] <= now + Slack
  BY DEF ExecRevoke, AloneInv, Listing
<1>1. /\ document' = [m \in Models |-> IF m \in tokens THEN Nil ELSE document[m]]
      /\ listed' = [listed EXCEPT ![g] = {}] /\ listExpiry' = [listExpiry EXCEPT ![g] = 0]
      /\ revoking' = [revoking EXCEPT ![r] = Nil]
      /\ revoked' = revoked \cup granted
      /\ UNCHANGED <<now, modelExpiry, upserting>>
  BY <1>a DEF ExecRevoke, WithoutDocuments
<1>2. ListsInv'
  BY <1>a, <1>1 DEF ListsInv
<1>3. AloneInv'
  <2>1. \A q \in Revokers : revoking'[q] = Nil
    BY <1>1 DEF AloneInv, ExecRevoke, ListsInv
  <2>2. \A p \in Upserts : upserting'[p] = Nil
    BY <1>1 DEF AloneInv, ExecRevoke
  <2> QED  BY <2>1, <2>2 DEF AloneInv
<1>4. \A n \in Models : Findable(n)' => Findable(n) /\ n \notin tokens
  BY <1>1 DEF Findable
<1>5. ASSUME NEW n \in Models, Lasts(n)'
      PROVE  /\ n \in List(GrantOf[n])' /\ listExpiry'[GrantOf[n]] \in Nat
             /\ modelExpiry'[n] <= listExpiry'[GrantOf[n]] + Slack
  <2>1. Lasts(n) /\ n \notin tokens
    BY <1>1, <1>4, <1>5 DEF Lasts, Slack
  <2>2. /\ n \in List(GrantOf[n]) /\ listExpiry[GrantOf[n]] \in Nat
        /\ modelExpiry[n] <= listExpiry[GrantOf[n]] + Slack
    BY <2>1 DEF ListsCover
  <2>3. GrantOf[n] # g /\ GrantOf[n] \in Grants
    BY <1>a, <2>1, <2>2, AdapterAssumption DEF Lasts
  <2>4. /\ listed'[GrantOf[n]] = listed[GrantOf[n]]
        /\ listExpiry'[GrantOf[n]] = listExpiry[GrantOf[n]]
    BY <1>1, <2>3 DEF ListsInv
  <2>5. List(GrantOf[n])' = List(GrantOf[n])
    BY <1>1, <2>4 DEF List
  <2> QED  BY <1>1, <2>2, <2>4, <2>5
<1>6. ListsCover'
  BY <1>5 DEF ListsCover, Slack
<1>7. RevokedTokensAreGone'
  <2> SUFFICES ASSUME NEW n \in revoked', Findable(n)'
               PROVE  modelExpiry'[n] <= now' + Slack
    BY DEF RevokedTokensAreGone, Slack
  <2>1. CASE n \in granted
    BY <1>a, <1>1, <1>4, <2>1
  <2>2. CASE n \in revoked
    BY <1>1, <1>4, <2>2 DEF RevokedTokensAreGone, ListsInv
  <2> QED  BY <1>1, <2>1, <2>2
<1> QED  BY <1>2, <1>3, <1>6, <1>7

\* Time only takes: a list that expires before a token of it does so when the token has no
\* more than the slack left.
LEMMA SerialTickStep ==
  ASSUME SerialInv, NEW d \in Ticks, Tick(d)
  PROVE  ListsInv' /\ AloneInv' /\ ListsCover' /\ RevokedTokensAreGone'
<1> USE DEF SerialInv
<1>1. /\ UNCHANGED <<document, modelExpiry, listed, listExpiry, upserting, revoking, revoked>>
      /\ now' = now + d
      /\ \A p \in Upserts : upserting[p] # Nil => now' <= upserting[p].asked + Latency
  BY DEF Tick, redis, requests, history
<1>2. /\ d \in Nat /\ now \in Nat /\ now' \in Nat /\ now <= now'
      /\ Slack \in Nat /\ Slack' = Slack
      /\ \A m \in Models : modelExpiry[m] \in Nat
  <2>1. d \in Nat
    BY AdapterAssumption
  <2>2. Slack' = Slack
    BY DEF Slack
  <2>3. now \in Nat /\ Slack \in Nat /\ \A m \in Models : modelExpiry[m] \in Nat
    BY Numbers
  <2> QED  BY <1>1, <2>1, <2>2, <2>3
<1>3. ListsInv'
  BY <1>1 DEF ListsInv
<1>4. ASSUME NEW g \in Grants PROVE List(g)' \subseteq List(g)
  <2>1. listExpiry[g] \in Nat \cup {-1}
    BY Numbers
  <2> QED  BY <1>1, <1>2, <2>1 DEF List, NoExpiry
<1>5. \A m \in Models : modelExpiry[m] <= now + Slack => modelExpiry[m] <= now' + Slack
  BY <1>2
<1>6. AloneInv'
  <2>1. ASSUME NEW p \in Upserts, upserting'[p] # Nil
        PROVE  Told(GrantOf[upserting[p].model], upserting[p].ttl, upserting[p].asked)'
    <3>1. PICK g, ttl, asked :
            /\ g = GrantOf[upserting[p].model] /\ ttl = upserting[p].ttl
            /\ asked = upserting[p].asked /\ g \in Grants /\ Told(g, ttl, asked)
      BY <1>1, <2>1, AdapterAssumption DEF AloneInv, SessionInv, UpsertsInv
    <3>2. asked \in Nat /\ asked <= now' /\ now' <= asked + Latency
      BY <1>1, <1>2, <2>1, <3>1 DEF Told
    <3>3. ToldGone(g, ttl) => ToldGone(g, ttl)'
      BY <1>4, <3>1 DEF ToldGone
    <3>4. /\ ToldForever(g, ttl) => ToldForever(g, ttl)'
          /\ ToldLife(g, ttl, asked) => ToldLife(g, ttl, asked)'
      BY <1>1 DEF ToldForever, ToldLife
    <3>5. Told(g, ttl, asked)'
      BY <3>1, <3>2, <3>3, <3>4 DEF Told
    <3>6. /\ g = GrantOf[upserting'[p].model] /\ ttl = upserting'[p].ttl
          /\ asked = upserting'[p].asked
      BY <1>1, <3>1
    <3> QED  BY <3>5, <3>6 DEF Told, ToldGone, ToldForever, ToldLife, List
  <2>2. ASSUME NEW r \in Revokers, revoking'[r] # Nil
        PROVE  Listing(revoking[r])'
    <3>1. Listing(revoking[r])
      BY <1>1, <2>2 DEF AloneInv
    <3>2. List(revoking[r].grant)' \subseteq revoking[r].tokens
      <4>1. PICK g \in Grants : g = revoking[r].grant /\ List(g) \subseteq revoking[r].tokens
        BY <3>1 DEF Listing
      <4>2. List(revoking[r].grant)' = List(g)'
        BY <1>1, <4>1 DEF List
      <4> QED  BY <1>4, <4>1, <4>2
    <3> QED  BY <1>1, <1>2, <1>5, <3>1, <3>2 DEF Listing
  <2> QED  BY <1>1, <2>1, <2>2 DEF AloneInv
<1>7. ASSUME NEW n \in Models, Lasts(n)'
      PROVE  /\ n \in List(GrantOf[n])' /\ listExpiry'[GrantOf[n]] \in Nat
             /\ modelExpiry'[n] <= listExpiry'[GrantOf[n]] + Slack
  <2>1. Lasts(n) /\ now' + Slack < modelExpiry[n]
    BY <1>1, <1>2, <1>7 DEF Lasts, Findable
  <2>2. PICK g \in Grants : g = GrantOf[n]
    BY <2>1, AdapterAssumption DEF Lasts
  <2>3. n \in List(g) /\ listExpiry[g] \in Nat /\ modelExpiry[n] <= listExpiry[g] + Slack
    BY <2>1, <2>2 DEF ListsCover
  <2>4. now' < listExpiry[g]
    BY <1>2, <2>1, <2>3
  <2>5. n \in listed[g]
    BY <2>3 DEF List
  <2>6. n \in List(g)'
    BY <1>1, <2>4, <2>5 DEF List
  <2>7. List(GrantOf[n])' = List(g)'
    BY <2>2 DEF List
  <2> QED  BY <1>1, <2>2, <2>3, <2>6, <2>7
<1>8. ListsCover'
  BY <1>2, <1>7 DEF ListsCover
<1>9. RevokedTokensAreGone'
  <2> SUFFICES ASSUME NEW n \in revoked, Findable(n)' PROVE modelExpiry[n] <= now' + Slack
    BY <1>1, <1>2 DEF RevokedTokensAreGone
  <2>1. n \in Models /\ Findable(n)
    BY <1>1, <1>2 DEF Findable, ListsInv
  <2> QED  BY <1>5, <2>1 DEF RevokedTokensAreGone
<1> QED  BY <1>3, <1>6, <1>8, <1>9

LEMMA SerialStep == SerialInv /\ [AdapterNext]_adapterVars => SerialInv'
<1> SUFFICES ASSUME SerialInv, [AdapterNext]_adapterVars PROVE SerialInv'
  OBVIOUS
<1>1. Serial' /\ SessionInv'
  BY SessionStep DEF SerialInv
<1>2. CASE \E p \in Upserts : ExecUpsert(p)
  BY <1>1, <1>2, SerialUpsertStep DEF SerialInv
<1>3. CASE \/ \E p \in Upserts, m \in Models, life \in Lifetimes : StartUpsert(p, m, life)
           \/ \E r \in Revokers, g \in Grants : StartRevoke(r, g)
  BY <1>1, <1>3, StartStep DEF SerialInv
<1>4. CASE \/ \E m \in Models, life \in Lifetimes : Upsert(m, life)
           \/ \E m \in Models : Consume(m) \/ Destroy(m)
  BY <1>1, <1>4, CommandStep DEF SerialInv
<1>5. CASE \E r \in Revokers : ExecRevoke(r)
  BY <1>1, <1>5, SerialRevokeStep DEF SerialInv
<1>6. CASE \E d \in Ticks : Tick(d)
  BY <1>1, <1>6, SerialTickStep DEF SerialInv
<1>7. CASE UNCHANGED adapterVars
  <2> USE DEF SerialInv, adapterVars, redis, requests, history
  <2>1. ListsInv' /\ RevokedTokensAreGone'
    BY <1>7 DEF ListsInv, RevokedTokensAreGone, Findable, Slack
  <2>2. ListsCover'
    BY <1>7, FewerTokens DEF Findable
  <2>3. AloneInv'
    BY <1>7 DEF AloneInv, Told, ToldGone, ToldForever, ToldLife, Listing, List, Slack
  <2> QED  BY <1>1, <2>1, <2>2, <2>3
<1> QED
  BY <1>2, <1>3, <1>4, <1>5, <1>6, <1>7, Zenon DEF AdapterNext

LEMMA SerialIsInv == AdapterSpec /\ Serial => []SerialInv
  BY InitSerialInv, SerialStep, PTL DEF AdapterSpec

\* With requests one at a time, the list of a grant holds every token of it that has more
\* than the slack to live, and lives as long as they do but for the slack: half a second for
\* the rounding of TTL, and the time its answer takes.
THEOREM ListsOutliveTokens == AdapterSpec /\ Serial => []ListOutlivesTokens
<1>1. SerialInv => ListOutlivesTokens
  BY DEF SerialInv, ListsCover, Lasts, ListOutlivesTokens
<1> QED  BY <1>1, SerialIsInv, PTL

\* With requests one at a time, no token of a revoked grant is found again, unless it is
\* stored anew or had no more than the slack left to live.
THEOREM RevokedTokensStayGone == AdapterSpec /\ Serial => []RevokedTokensAreGone
<1>1. SerialInv => RevokedTokensAreGone
  BY DEF SerialInv
<1> QED  BY <1>1, SerialIsInv, PTL

-----------------------------------------------------------------------------
(***************************************************************************)
(* Codes are only issued for what was consented to since the last logout,  *)
(* and for OpenID scopes that were on the pages.  The controller writes grants with an await between reading and *)
(* saving, and a logout may come in between, so the invariant speaks of    *)
(* the grants the requests hold and not only of the session's:             *)
(*                                                                         *)
(*   - a grant of the session, or of a request that was asked since the    *)
(*     last logout (a current one), is stored and adds up to no more than  *)
(*     what the user consented to since then;                              *)
(*   - a request that was asked before the last logout holds no current    *)
(*     grant, so whatever it saves now goes into a grant nobody will use;  *)
(*   - what a request is about to save into a current grant was consented  *)
(*     to;                                                                 *)
(*   - a consent page that is shown asks for every OpenID scope that is    *)
(*     missing, so that what was consented to was seen.                    *)
(*                                                                         *)
(* A second invariant, at the end, follows a request no other one          *)
(* overtakes from the prompt to its code.                                  *)
(***************************************************************************)
IdsOf(request) == {request.grantId, request.newGrant}

IsCurrent(g) ==
    \/ g = session.grant
    \/ \E f \in Flows : flow[f].during = session.logouts /\ g \in IdsOf(flow[f])

CurrentIsConsentedTo ==
    \A g \in GrantIds : IsCurrent(g) => grants[g] # None /\ grants[g] \subseteq consented

OldIsNotCurrent ==
    \A f \in Flows, g \in GrantIds :
        flow[f].during # session.logouts /\ g \in IdsOf(flow[f]) => ~IsCurrent(g)

FlowOK(request, ses, agreed) ==
    /\ request.during <= ses.logouts
    /\ request.newGrant # None => request.prompt = "consent"
    /\ request.pc \in {"finishing", "resuming"} => request.result # None
    /\ request.pc = "granting" => request.prompt = "consent"
    /\ request.pc = "shown" /\ request.prompt = "consent"
            => request.page = Page(request.missing)
    /\ request.pc = "granting" /\ request.during = ses.logouts
            => Extended(request) \subseteq agreed

InteractionsInv ==
    /\ TypeOK /\ Page(consented) \subseteq seen
    /\ CurrentIsConsentedTo /\ OldIsNotCurrent
    /\ \A f \in Flows : FlowOK(flow[f], session, consented)

-----------------------------------------------------------------------------
\* A request is changed and the others are not.
LEMMA OneRequestMoves ==
    ASSUME flow \in [Flows -> Flow], NEW f \in Flows, NEW p \in Flow,
           flow' = [flow EXCEPT ![f] = p]
    PROVE  /\ flow' \in [Flows -> Flow] /\ flow'[f] = p
           /\ \A e \in Flows : e # f => flow'[e] = flow[e]
  OBVIOUS

\* A request that keeps its grants, and comes to nothing it must not, keeps the invariant.
LEMMA Moves ==
    ASSUME InteractionsInv, NEW f \in Flows, NEW p \in Flow,
           flow' = [flow EXCEPT ![f] = p],
           UNCHANGED <<grants, session>>,
           overtaken' \subseteq Flows,
           consented \subseteq consented', consented' \subseteq Permissions,
           seen' \subseteq Permissions, Page(consented') \subseteq seen',
           p.during = flow[f].during, p.grantId = flow[f].grantId,
           p.newGrant = flow[f].newGrant,
           FlowOK(p, session, consented')
    PROVE  InteractionsInv'
<1>1. /\ flow' \in [Flows -> Flow] /\ flow'[f] = p
      /\ \A e \in Flows : e # f => flow'[e] = flow[e]
  BY OneRequestMoves DEF InteractionsInv, TypeOK
<1>2. \A e \in Flows : /\ flow'[e].during = flow[e].during
                       /\ IdsOf(flow'[e]) = IdsOf(flow[e])
  BY <1>1 DEF IdsOf
<1>3. \A e \in Flows : FlowOK(flow'[e], session, consented')
  BY <1>1 DEF InteractionsInv, FlowOK
<1>4. \A g \in GrantIds : IsCurrent(g)' <=> IsCurrent(g)
  BY <1>2 DEF IsCurrent
<1>5. CurrentIsConsentedTo' /\ OldIsNotCurrent'
  BY <1>2, <1>4 DEF InteractionsInv, CurrentIsConsentedTo, OldIsNotCurrent
<1>6. TypeOK'
  <2>1. \A e \in Flows : flow'[e].pc = "resuming" => flow'[e].result # None
    BY <1>3 DEF FlowOK
  <2> QED  BY <1>1, <2>1 DEF InteractionsInv, TypeOK
<1> QED  BY <1>3, <1>5, <1>6 DEF InteractionsInv

\* what comes of a request that is looked at under a session
LEMMA EvaluatedIs ==
    ASSUME TypeOK, NEW f \in Flows, NEW ses \in Session
    PROVE  /\ Evaluated(f, ses) \in Flow
           /\ Evaluated(f, ses).pc \in {"prompted", "code"}
           /\ Evaluated(f, ses).pc = "code" => Asked[f] \subseteq HeldBy(ses.grant)
           /\ Evaluated(f, ses).grantId = ses.grant
           /\ Evaluated(f, ses).during = ses.logouts
           /\ Evaluated(f, ses).newGrant = None
<1> DEFINE missing == Asked[f] \ HeldBy(ses.grant)
           asked == [flow[f] EXCEPT !.pc = "prompted", !.grantId = ses.grant,
                       !.missing = missing, !.page = {}, !.during = ses.logouts, !.copy = {},
                       !.result = None, !.newGrant = None]
<1>1. flow[f] \in Flow /\ missing \subseteq Permissions /\ {} \subseteq Permissions
  BY DEF TypeOK, Permissions
<1>2. ses.grant \in GrantIds \cup {None} /\ ses.logouts \in 0 .. MaxLogouts
      /\ ses.loggedIn \in BOOLEAN
  BY DEF Session
<1>3. PICK p : /\ p = Evaluated(f, ses)
               /\ \/ p = [asked EXCEPT !.prompt = "login"]
                  \/ p = [asked EXCEPT !.prompt = "consent"]
                  \/ missing = {} /\ p = [asked EXCEPT !.pc = "code", !.prompt = None]
  <2>1. CASE ~ses.loggedIn
    BY <2>1 DEF Evaluated
  <2>2. CASE ses.loggedIn /\ missing # {}
    BY <2>2 DEF Evaluated
  <2>3. CASE ses.loggedIn /\ missing = {}
    BY <2>3 DEF Evaluated
  <2> QED  BY <1>2, <2>1, <2>2, <2>3
<1> HIDE DEF missing
<1>4. PICK a : a = asked
  OBVIOUS
<1>5. /\ a \in Flow /\ a.pc = "prompted" /\ a.grantId = ses.grant
      /\ a.during = ses.logouts /\ a.newGrant = None
  BY <1>1, <1>2, <1>4 DEF Flow
<1>6. \/ p = [a EXCEPT !.prompt = "login"]
      \/ p = [a EXCEPT !.prompt = "consent"]
      \/ missing = {} /\ p = [a EXCEPT !.pc = "code", !.prompt = None]
  BY <1>3, <1>4
<1> HIDE DEF asked
<1>7. /\ p \in Flow /\ p.pc \in {"prompted", "code"}
      /\ p.pc = "code" => missing = {}
      /\ p.grantId = ses.grant /\ p.during = ses.logouts /\ p.newGrant = None
  BY <1>5, <1>6, ZenonT(40) DEF Flow
<1>8. missing = {} => Asked[f] \subseteq HeldBy(ses.grant)
  BY DEF missing
<1> QED  BY <1>3, <1>7, <1>8

\* A request that is looked at under a session of current grants keeps the invariant.
LEMMA Evaluates ==
    ASSUME InteractionsInv, NEW f \in Flows, NEW ses \in Session,
           ses.logouts = session.logouts,
           ses.grant # None => IsCurrent(ses.grant),
           flow' = [flow EXCEPT ![f] = Evaluated(f, ses)], session' = ses,
           UNCHANGED <<grants, consented, seen>>, overtaken' \subseteq Flows
    PROVE  InteractionsInv'
<1> DEFINE p == Evaluated(f, ses)
<1>1. /\ p \in Flow /\ p.pc \in {"prompted", "code"} /\ p.grantId = ses.grant
      /\ p.during = ses.logouts /\ p.newGrant = None
  BY EvaluatedIs DEF InteractionsInv
<1>2. flow' = [flow EXCEPT ![f] = p]
  OBVIOUS
<1> HIDE DEF p
<1>3. /\ flow' \in [Flows -> Flow] /\ flow'[f] = p
      /\ \A e \in Flows : e # f => flow'[e] = flow[e]
  BY <1>1, <1>2, OneRequestMoves DEF InteractionsInv, TypeOK
<1>4. \A g \in GrantIds : IsCurrent(g)' => IsCurrent(g)
  <2> SUFFICES ASSUME NEW g \in GrantIds, IsCurrent(g)' PROVE IsCurrent(g)
    OBVIOUS
  <2>1. g # None
    BY OidcInteractionsAssumption
  <2>2. CASE g = ses.grant
    BY <2>1, <2>2
  <2>3. CASE \E e \in Flows : flow'[e].during = ses.logouts /\ g \in IdsOf(flow'[e])
    <3>1. PICK e \in Flows : flow'[e].during = ses.logouts /\ g \in IdsOf(flow'[e])
      BY <2>3
    <3>2. CASE e = f
      BY <1>1, <1>3, <2>1, <3>1, <3>2 DEF IdsOf
    <3>3. CASE e # f
      BY <1>3, <3>1, <3>3 DEF IsCurrent
    <3> QED  BY <3>2, <3>3
  <2> QED  BY <2>2, <2>3 DEF IsCurrent
<1>5. CurrentIsConsentedTo'
  BY <1>4 DEF InteractionsInv, CurrentIsConsentedTo
<1>6. OldIsNotCurrent'
  <2> SUFFICES ASSUME NEW e \in Flows, NEW g \in GrantIds,
                      flow'[e].during # ses.logouts, g \in IdsOf(flow'[e]), IsCurrent(g)'
               PROVE  FALSE
    BY DEF OldIsNotCurrent
  <2>1. e # f
    BY <1>1, <1>3
  <2>2. flow'[e] = flow[e]
    BY <1>3, <2>1
  <2> QED  BY <1>4, <2>2 DEF InteractionsInv, OldIsNotCurrent
<1>7. \A e \in Flows : FlowOK(flow'[e], ses, consented)
  <2>1. FlowOK(p, ses, consented)
    BY <1>1 DEF FlowOK, Session
  <2>2. \A e \in Flows : FlowOK(flow[e], ses, consented)
    BY DEF InteractionsInv, FlowOK
  <2> QED  BY <1>3, <2>1, <2>2
<1>8. TypeOK'
  <2>1. \A e \in Flows : flow'[e].pc = "resuming" => flow'[e].result # None
    BY <1>7 DEF FlowOK
  <2> QED  BY <1>3, <2>1 DEF InteractionsInv, TypeOK
<1> QED  BY <1>5, <1>6, <1>7, <1>8 DEF InteractionsInv

-----------------------------------------------------------------------------
LEMMA InteractionsInit == Init => InteractionsInv
<1> SUFFICES ASSUME Init PROVE InteractionsInv
  OBVIOUS
<1>1. \A f \in Flows : /\ flow[f] \in Flow /\ flow[f].pc = "idle" /\ flow[f].during = 0
                       /\ IdsOf(flow[f]) = {None} /\ flow[f].newGrant = None
  BY OidcInteractionsAssumption DEF Init, Flow, IdsOf
<1>2. TypeOK
  <2>1. flow \in [Flows -> Flow]
    BY <1>1 DEF Init
  <2>2. session \in Session /\ overtaken \subseteq Flows
        /\ consented \subseteq Permissions /\ seen \subseteq Permissions
    BY OidcInteractionsAssumption DEF Init, Session
  <2>3. grants \in [GrantIds -> (SUBSET Permissions) \cup {None}]
    BY DEF Init
  <2> QED  BY <1>1, <2>1, <2>2, <2>3 DEF TypeOK
<1>3. \A g \in GrantIds : ~IsCurrent(g)
  BY <1>1, OidcInteractionsAssumption DEF Init, IsCurrent
<1>4. \A f \in Flows : FlowOK(flow[f], session, consented)
  BY <1>1 DEF Init, FlowOK
<1>5. Page(consented) \subseteq seen
  BY DEF Init, Page
<1> QED
  BY <1>2, <1>3, <1>4, <1>5 DEF InteractionsInv, CurrentIsConsentedTo, OldIsNotCurrent

LEMMA AuthorizeStep ==
    ASSUME InteractionsInv, NEW f \in Flows, Authorize(f) PROVE InteractionsInv'
<1>1. session \in Session /\ IsCurrent(session.grant) /\ overtaken' \subseteq Flows
  BY DEF InteractionsInv, TypeOK, IsCurrent, Authorize
<1> QED  BY <1>1, Evaluates DEF Authorize

\* the session a request resumes under
Resumed(f) ==
    [session EXCEPT !.loggedIn = @ \/ flow[f].result = "login",
                    !.grant = IF flow[f].newGrant # None THEN flow[f].newGrant ELSE @]

\* A grant that is passed on with a consent is current, for the consents of
\* before a logout are lost.
LEMMA ResumedIs ==
    ASSUME InteractionsInv, NEW f \in Flows,
           ~(flow[f].prompt = "consent" /\ flow[f].during # session.logouts)
    PROVE  /\ Resumed(f) \in Session /\ Resumed(f).logouts = session.logouts
           /\ Resumed(f).grant # None => IsCurrent(Resumed(f).grant)
<1>1. /\ session \in Session /\ flow[f] \in Flow /\ FlowOK(flow[f], session, consented)
  BY DEF InteractionsInv, TypeOK
<1>2. Resumed(f).grant = IF flow[f].newGrant # None THEN flow[f].newGrant ELSE session.grant
  BY <1>1 DEF Resumed, Session
<1>3. Resumed(f) \in Session /\ Resumed(f).logouts = session.logouts
  BY <1>1 DEF Resumed, Session, Flow
<1>4. flow[f].newGrant # None => IsCurrent(flow[f].newGrant)
  BY <1>1 DEF FlowOK, IsCurrent, IdsOf
<1> QED  BY <1>2, <1>3, <1>4 DEF IsCurrent

\* where a resumed request goes
LEMMA ResumeCases ==
    ASSUME NEW f \in Flows, Resume(f)
    PROVE  /\ flow[f].pc = "resuming" /\ UNCHANGED <<grants, consented, seen>>
           /\ \/ /\ UNCHANGED <<session, overtaken>>
                 /\ \E pc \in {"denied", "lost"} : flow' = [flow EXCEPT ![f].pc = pc]
              \/ /\ ~(flow[f].prompt = "consent" /\ flow[f].during # session.logouts)
                 /\ flow' = [flow EXCEPT ![f] = Evaluated(f, Resumed(f))]
                 /\ session' = Resumed(f)
                 /\ overtaken' = (IF Resumed(f).grant = session.grant THEN overtaken ELSE Flows)
                                   \ {f}
  BY DEF Resume, Resumed

\* A request that ends without a code keeps the invariant.
LEMMA EndsWithout ==
    ASSUME InteractionsInv, NEW f \in Flows, NEW pc \in {"denied", "lost"},
           flow' = [flow EXCEPT ![f].pc = pc],
           UNCHANGED <<grants, session, consented, seen, overtaken>>
    PROVE  InteractionsInv'
<1> DEFINE p == [flow[f] EXCEPT !.pc = pc]
<1>1. flow[f] \in Flow /\ FlowOK(flow[f], session, consented)
  BY DEF InteractionsInv, TypeOK
<1>2. /\ p \in Flow /\ p.pc = pc /\ p.during = flow[f].during /\ p.grantId = flow[f].grantId
      /\ p.newGrant = flow[f].newGrant /\ p.prompt = flow[f].prompt
  BY <1>1 DEF Flow
<1>3. flow' = [flow EXCEPT ![f] = p]
  OBVIOUS
<1> HIDE DEF p
<1>4. FlowOK(p, session, consented)
  BY <1>1, <1>2 DEF FlowOK
<1> QED  BY <1>2, <1>3, <1>4, Moves DEF InteractionsInv, TypeOK

LEMMA ResumeStep ==
    ASSUME InteractionsInv, NEW f \in Flows, Resume(f) PROVE InteractionsInv'
<1>1. CASE /\ UNCHANGED <<session, overtaken>>
           /\ \E pc \in {"denied", "lost"} : flow' = [flow EXCEPT ![f].pc = pc]
  BY <1>1, ResumeCases, EndsWithout
<1>2. CASE /\ ~(flow[f].prompt = "consent" /\ flow[f].during # session.logouts)
           /\ flow' = [flow EXCEPT ![f] = Evaluated(f, Resumed(f))]
           /\ session' = Resumed(f)
           /\ overtaken' = (IF Resumed(f).grant = session.grant THEN overtaken ELSE Flows) \ {f}
  <2>1. overtaken' \subseteq Flows
    BY <1>2 DEF InteractionsInv, TypeOK
  <2> QED  BY <1>2, <2>1, ResumeCases, ResumedIs, Evaluates
<1> QED  BY <1>1, <1>2, ResumeCases

LEMMA ExpireStep ==
    ASSUME InteractionsInv, NEW f \in Flows, Expire(f) PROVE InteractionsInv'
  BY EndsWithout DEF Expire

-----------------------------------------------------------------------------
\* A request keeps its grants and its prompt.
Keeps(p, request) ==
    /\ p \in Flow /\ p.during = request.during /\ p.grantId = request.grantId
    /\ p.newGrant = request.newGrant /\ p.prompt = request.prompt

LEMMA StepsOn ==
    ASSUME InteractionsInv, NEW f \in Flows, NEW p, Keeps(p, flow[f]), Steps(f, p),
           p.pc # "granting", p.pc \in {"finishing", "resuming"} => p.result # None,
           p.pc = "shown" /\ p.prompt = "consent" => p.page = Page(p.missing),
           UNCHANGED <<grants, consented, seen>>, overtaken' \subseteq Flows
    PROVE  InteractionsInv'
<1>1. /\ FlowOK(flow[f], session, consented) /\ consented \subseteq Permissions
      /\ seen \subseteq Permissions /\ Page(consented) \subseteq seen
  BY DEF InteractionsInv, TypeOK
<1>2. FlowOK(p, session, consented)
  BY <1>1 DEF FlowOK, Keeps
<1> QED  BY <1>1, <1>2, Moves DEF Keeps, Steps

LEMMA FinishesWithIs ==
    ASSUME TypeOK, NEW f \in Flows, NEW result \in Results
    PROVE  /\ Keeps(FinishesWith(f, result), flow[f])
           /\ FinishesWith(f, result).pc = "finishing"
           /\ FinishesWith(f, result).result = result
<1>1. flow[f] \in Flow
  BY DEF TypeOK
<1>2. PICK p : p = FinishesWith(f, result)
  OBVIOUS
<1>3. p = [flow[f] EXCEPT !.pc = "finishing", !.result = result]
  BY <1>2 DEF FinishesWith
<1>4. Keeps(p, flow[f]) /\ p.pc = "finishing" /\ p.result = result
  BY <1>1, <1>3 DEF Flow, Keeps
<1> QED  BY <1>2, <1>4

\* A request that finishes with a result keeps the invariant.
LEMMA Finishes ==
    ASSUME InteractionsInv, NEW f \in Flows, NEW result \in Results,
           Steps(f, FinishesWith(f, result)),
           UNCHANGED <<grants, consented, seen>>, overtaken' \subseteq Flows
    PROVE  InteractionsInv'
<1>1. None # result
  BY OidcInteractionsAssumption
<1> QED
  BY <1>1, FinishesWithIs, StepsOn DEF InteractionsInv

\* what showing a request, and storing its result, make of it
LEMMA PassedIs ==
    ASSUME TypeOK, NEW f \in Flows, NEW pc \in {"shown", "resuming"}
    PROVE  LET p == [flow[f] EXCEPT !.pc = pc]
           IN  /\ Keeps(p, flow[f]) /\ p.pc = pc /\ p.result = flow[f].result
               /\ p.missing = flow[f].missing
  BY DEF TypeOK, Flow, Keeps

LEMMA ShownIs ==
    ASSUME TypeOK, NEW f \in Flows
    PROVE  LET p == [flow[f] EXCEPT !.pc = "shown", !.page = Page(flow[f].missing)]
           IN  /\ Keeps(p, flow[f]) /\ p.pc = "shown"
               /\ p.missing = flow[f].missing /\ p.page = Page(p.missing)
<1>1. flow[f] \in Flow /\ Page(flow[f].missing) \subseteq Permissions
  BY DEF TypeOK, Flow, Page
<1>2. PICK page \in SUBSET Permissions : page = Page(flow[f].missing)
  BY <1>1
<1>3. PICK p : p = [flow[f] EXCEPT !.pc = "shown", !.page = page]
  OBVIOUS
<1>4. /\ Keeps(p, flow[f]) /\ p.pc = "shown" /\ p.missing = flow[f].missing /\ p.page = page
  BY <1>1, <1>3 DEF Flow, Keeps
<1> QED  BY <1>2, <1>3, <1>4

\* how a request comes to be shown, or to an end
LEMMA ShowCases ==
    ASSUME NEW f \in Flows, Show(f)
    PROVE  /\ flow[f].pc = "prompted" /\ UNCHANGED <<grants, consented, seen, overtaken>>
           /\ \/ flow[f].prompt = "login" /\ Steps(f, [flow[f] EXCEPT !.pc = "shown"])
              \/ Steps(f, [flow[f] EXCEPT !.pc = "shown", !.page = Page(flow[f].missing)])
              \/ \E result \in Results \ {"consent"} : Steps(f, FinishesWith(f, result))
  BY DEF Show, Results

LEMMA ShowStep ==
    ASSUME InteractionsInv, NEW f \in Flows, Show(f) PROVE InteractionsInv'
<1>1. TypeOK /\ overtaken \subseteq Flows
  BY DEF InteractionsInv, TypeOK
<1>2. CASE flow[f].prompt = "login" /\ Steps(f, [flow[f] EXCEPT !.pc = "shown"])
  <2>1. PICK p : p = [flow[f] EXCEPT !.pc = "shown"]
    OBVIOUS
  <2>2. Keeps(p, flow[f]) /\ p.pc = "shown" /\ Steps(f, p) /\ p.prompt = "login"
    BY <1>1, <1>2, <2>1, PassedIs DEF Keeps
  <2> QED  BY <1>1, <2>2, ShowCases, StepsOn
<1>3. CASE Steps(f, [flow[f] EXCEPT !.pc = "shown", !.page = Page(flow[f].missing)])
  <2>1. PICK p : p = [flow[f] EXCEPT !.pc = "shown", !.page = Page(flow[f].missing)]
    OBVIOUS
  <2>2. Keeps(p, flow[f]) /\ p.pc = "shown" /\ Steps(f, p) /\ p.page = Page(p.missing)
    BY <1>1, <1>3, <2>1, ShownIs
  <2> QED  BY <1>1, <2>2, ShowCases, StepsOn
<1>4. CASE \E result \in Results : Steps(f, FinishesWith(f, result))
  BY <1>1, <1>4, ShowCases, Finishes
<1> QED  BY <1>2, <1>3, <1>4, ShowCases

LEMMA LogInStep ==
    ASSUME InteractionsInv, NEW f \in Flows, LogIn(f) PROVE InteractionsInv'
<1>1. \E result \in Results : Steps(f, FinishesWith(f, result))
  BY DEF LogIn, Results
<1> QED  BY <1>1, Finishes DEF LogIn, InteractionsInv, TypeOK

LEMMA AbortStep ==
    ASSUME InteractionsInv, NEW f \in Flows, Abort(f) PROVE InteractionsInv'
<1>1. \E result \in Results : Steps(f, FinishesWith(f, result))
  BY DEF Abort, Results
<1> QED  BY <1>1, Finishes DEF Abort, InteractionsInv, TypeOK

LEMMA FinishStep ==
    ASSUME InteractionsInv, NEW f \in Flows, Finish(f) PROVE InteractionsInv'
<1>1. FlowOK(flow[f], session, consented) /\ flow[f].pc = "finishing" /\ TypeOK
  BY DEF InteractionsInv, Finish
<1>2. PICK p : p = [flow[f] EXCEPT !.pc = "resuming"]
  OBVIOUS
<1>3. Keeps(p, flow[f]) /\ p.pc = "resuming" /\ p.result = flow[f].result /\ Steps(f, p)
  BY <1>1, <1>2, PassedIs DEF Finish
<1>4. p.result # None
  BY <1>1, <1>3 DEF FlowOK
<1> QED  BY <1>3, <1>4, StepsOn DEF Finish, InteractionsInv, TypeOK

\* The user consents to what is missing; what was read of a current grant was
\* consented to before.
LEMMA ConsentStep ==
    ASSUME InteractionsInv, NEW f \in Flows, Consent(f) PROVE InteractionsInv'
<1> DEFINE g == flow[f].grantId
<1>0. /\ TypeOK /\ flow[f] \in Flow /\ g \in GrantIds \cup {None}
      /\ grants \in [GrantIds -> (SUBSET Permissions) \cup {None}]
      /\ FlowOK(flow[f], session, consented) /\ consented \subseteq Permissions
      /\ overtaken \subseteq Flows /\ seen \subseteq Permissions
      /\ Page(consented) \subseteq seen /\ flow[f].page \subseteq Permissions
  BY DEF InteractionsInv, TypeOK, Flow
<1>1. CASE g # None /\ grants[g] = None
  <2>1. /\ Steps(f, FinishesWith(f, "invalid_request_object"))
        /\ UNCHANGED <<grants, consented, seen, overtaken>>
    BY <1>1 DEF Consent
  <2> QED  BY <1>0, <2>1, Finishes DEF Results
<1>2. CASE ~(g # None /\ grants[g] = None)
  <2>1. PICK p : p = [flow[f] EXCEPT !.pc = "granting", !.copy = HeldBy(g)]
    OBVIOUS
  <2>2. /\ Steps(f, p) /\ UNCHANGED <<grants, overtaken>>
        /\ IF flow[f].during = session.logouts
           THEN /\ consented' = consented \cup flow[f].missing
                /\ seen' = seen \cup flow[f].page
           ELSE UNCHANGED <<consented, seen>>
    BY <1>2, <2>1 DEF Consent
  <2>3. HeldBy(g) \subseteq Permissions
    BY <1>0 DEF HeldBy
  <2>4. /\ p \in Flow /\ p.pc = "granting" /\ p.during = flow[f].during
        /\ p.grantId = flow[f].grantId /\ p.newGrant = flow[f].newGrant
        /\ p.prompt = "consent" /\ p.copy = HeldBy(g) /\ p.missing = flow[f].missing
    BY <1>0, <2>1, <2>3 DEF Flow, Consent
  <2>5. /\ consented \subseteq consented' /\ consented' \subseteq Permissions
        /\ seen' \subseteq Permissions
    BY <1>0, <2>2 DEF Flow
  <2>8. Page(consented') \subseteq seen'
    <3>1. flow[f].page = Page(flow[f].missing)
      BY <1>0 DEF FlowOK, Consent
    <3> QED  BY <1>0, <2>2, <3>1 DEF Page
  <2>6. flow[f].during = session.logouts => HeldBy(g) \subseteq consented
    <3> SUFFICES ASSUME flow[f].during = session.logouts, g # None
                 PROVE  HeldBy(g) \subseteq consented
      BY DEF HeldBy
    <3>1. IsCurrent(g) /\ g \in GrantIds
      BY <1>0 DEF IsCurrent, IdsOf
    <3> QED  BY <3>1 DEF InteractionsInv, CurrentIsConsentedTo, HeldBy
  <2>7. FlowOK(p, session, consented')
    BY <1>0, <2>2, <2>4, <2>5, <2>6 DEF FlowOK, Extended
  <2> QED  BY <1>0, <2>2, <2>4, <2>5, <2>7, <2>8, Moves DEF Steps
<1> QED  BY <1>1, <1>2

\* What is saved into a current grant was consented to.  Whatever a request of before
\* the logout saves goes into a grant that is not current, and a new grant is nobody's.
LEMMA SaveGrantStep ==
    ASSUME InteractionsInv, NEW f \in Flows, SaveGrant(f) PROVE InteractionsInv'
<1> DEFINE extended == Extended(flow[f])
<1>1. /\ TypeOK /\ flow[f] \in Flow /\ flow[f].pc = "granting"
      /\ FlowOK(flow[f], session, consented)
      /\ grants \in [GrantIds -> (SUBSET Permissions) \cup {None}]
      /\ UNCHANGED <<session, consented, seen>> /\ overtaken' \subseteq Flows
  BY DEF InteractionsInv, TypeOK, SaveGrant, Steps
<1>2. PICK g \in GrantIds :
        /\ IF flow[f].grantId # None THEN g = flow[f].grantId ELSE g \in NewIds
        /\ grants' = [grants EXCEPT ![g] = extended]
        /\ Steps(f, [FinishesWith(f, "consent") EXCEPT !.newGrant = ConsentGrantId(flow[f], g)])
  BY DEF SaveGrant
<1>3. PICK p : p = [FinishesWith(f, "consent") EXCEPT !.newGrant = ConsentGrantId(flow[f], g)]
  OBVIOUS
<1>4. extended \subseteq Permissions /\ extended # None
  BY <1>1, OidcInteractionsAssumption DEF Extended, Flow
<1> HIDE DEF extended
<1>5. /\ p \in Flow /\ p.during = flow[f].during /\ p.pc = "finishing" /\ p.result = "consent"
      /\ p.prompt = flow[f].prompt
      /\ \A i \in GrantIds : i \in IdsOf(p) => i = g
  <2>1. PICK r : r = FinishesWith(f, "consent")
    OBVIOUS
  <2>2. /\ r \in Flow /\ r.during = flow[f].during /\ r.prompt = flow[f].prompt
        /\ r.grantId = flow[f].grantId /\ r.pc = "finishing" /\ r.result = "consent"
    BY <1>1, <2>1, FinishesWithIs DEF Keeps, Results
  <2>3. PICK new \in GrantIds \cup {None} :
            /\ new = ConsentGrantId(flow[f], g)
            /\ flow[f].grantId # None => new = None
            /\ new # None => new = g
    BY <1>2 DEF ConsentGrantId
  <2>4. p = [r EXCEPT !.newGrant = new]
    BY <1>3, <2>1, <2>3
  <2>5. /\ p \in Flow /\ p.during = flow[f].during /\ p.prompt = flow[f].prompt
        /\ p.pc = "finishing" /\ p.result = "consent"
        /\ p.grantId = flow[f].grantId /\ p.newGrant = new
    BY <2>2, <2>4 DEF Flow
  <2>6. \A i \in GrantIds : i # None
    BY OidcInteractionsAssumption
  <2> QED  BY <1>2, <2>3, <2>5, <2>6 DEF IdsOf
<1>6. /\ flow' \in [Flows -> Flow] /\ flow'[f] = p
      /\ \A e \in Flows : e # f => flow'[e] = flow[e]
  BY <1>1, <1>2, <1>3, <1>5, OneRequestMoves DEF Steps, TypeOK
<1>7. /\ grants' \in [GrantIds -> (SUBSET Permissions) \cup {None}] /\ grants'[g] = extended
      /\ \A i \in GrantIds : i # g => grants'[i] = grants[i]
  BY <1>1, <1>2, <1>4
<1>8. \A i \in GrantIds :
        IsCurrent(i)' => IsCurrent(i) \/ (i = g /\ flow[f].during = session.logouts)
  BY <1>1, <1>5, <1>6 DEF IsCurrent
<1>9. flow[f].during # session.logouts => ~IsCurrent(g)
  <2>1. CASE flow[f].grantId # None
    BY <1>2, <2>1 DEF InteractionsInv, OldIsNotCurrent, IdsOf
  <2>2. CASE flow[f].grantId = None
    BY <1>2, <2>2 DEF InteractionsInv, CurrentIsConsentedTo, NewIds
  <2> QED  BY <2>1, <2>2
<1>10. CurrentIsConsentedTo'
  <2> SUFFICES ASSUME NEW i \in GrantIds, IsCurrent(i)'
               PROVE  grants'[i] # None /\ grants'[i] \subseteq consented
    BY <1>1 DEF CurrentIsConsentedTo
  <2>1. CASE i = g
    <3>1. flow[f].during = session.logouts
      BY <1>8, <1>9, <2>1
    <3> QED  BY <1>1, <1>4, <1>7, <2>1, <3>1 DEF FlowOK, extended
  <2>2. CASE i # g
    BY <1>7, <1>8, <2>2 DEF InteractionsInv, CurrentIsConsentedTo
  <2> QED  BY <2>1, <2>2
<1>11. OldIsNotCurrent'
  <2> SUFFICES ASSUME NEW e \in Flows, NEW i \in GrantIds,
                      flow'[e].during # session.logouts, i \in IdsOf(flow'[e]), IsCurrent(i)'
               PROVE  FALSE
    BY <1>1 DEF OldIsNotCurrent
  <2>1. CASE e = f
    BY <1>5, <1>6, <1>8, <1>9, <2>1
  <2>2. CASE e # f
    <3>1. flow[e].during # session.logouts /\ i \in IdsOf(flow[e]) /\ ~IsCurrent(i)
      BY <1>6, <2>2 DEF InteractionsInv, OldIsNotCurrent
    <3>2. i = g /\ flow[f].during = session.logouts
      BY <1>8, <3>1
    <3>3. CASE flow[f].grantId # None
      BY <1>2, <3>1, <3>2, <3>3 DEF IsCurrent, IdsOf
    <3>4. CASE flow[f].grantId = None
      BY <1>2, <3>1, <3>2, <3>4 DEF NewIds, IdsOf
    <3> QED  BY <3>3, <3>4
  <2> QED  BY <2>1, <2>2
<1>12. \A e \in Flows : FlowOK(flow'[e], session, consented)
  <2>1. FlowOK(p, session, consented)
    BY <1>1, <1>5, OidcInteractionsAssumption DEF FlowOK, Results
  <2> QED  BY <1>6, <2>1 DEF InteractionsInv
<1>13. TypeOK'
  <2>1. \A e \in Flows : flow'[e].pc = "resuming" => flow'[e].result # None
    BY <1>12 DEF FlowOK
  <2> QED  BY <1>1, <1>6, <1>7, <2>1 DEF TypeOK
<1> QED  BY <1>1, <1>10, <1>11, <1>12, <1>13 DEF InteractionsInv

\* After a logout no grant is current.
LEMMA LogoutStep == ASSUME InteractionsInv, Logout PROVE InteractionsInv'
<1>1. /\ TypeOK /\ session \in Session /\ session.logouts \in Nat /\ MaxLogouts \in Nat
      /\ UNCHANGED <<flow, overtaken>> /\ consented' = {} /\ seen' = {}
      /\ session'.logouts = session.logouts + 1 /\ session'.grant = None
      /\ session' \in Session
  BY OidcInteractionsAssumption DEF InteractionsInv, TypeOK, Logout, Session
<1>2. \A f \in Flows : FlowOK(flow[f], session, consented) /\ flow[f].during \in Nat
  BY <1>1 DEF InteractionsInv, TypeOK, Flow
<1>3. \A f \in Flows : flow[f].during # session'.logouts
  BY <1>1, <1>2 DEF FlowOK
<1>4. \A g \in GrantIds : ~IsCurrent(g)'
  BY <1>1, <1>3, OidcInteractionsAssumption DEF IsCurrent
<1>5. \A f \in Flows : FlowOK(flow[f], session', consented')
  BY <1>1, <1>2, <1>3 DEF FlowOK
<1>6. TypeOK'
  <2>1. grants' \in [GrantIds -> (SUBSET Permissions) \cup {None}]
    BY <1>1 DEF Logout, TypeOK
  <2> QED  BY <1>1, <2>1 DEF TypeOK
<1> QED
  BY <1>1, <1>4, <1>5, <1>6
     DEF InteractionsInv, CurrentIsConsentedTo, OldIsNotCurrent, Page

LEMMA InteractionsStep == InteractionsInv /\ [Next]_vars => InteractionsInv'
<1> SUFFICES ASSUME InteractionsInv, [Next]_vars PROVE InteractionsInv'
  OBVIOUS
<1>1. CASE UNCHANGED vars
  BY <1>1 DEF vars, InteractionsInv, TypeOK, CurrentIsConsentedTo, OldIsNotCurrent,
              IsCurrent, FlowOK
<1>2. CASE Logout
  BY <1>2, LogoutStep
<1>3. ASSUME NEW f \in Flows,
             \/ Authorize(f) \/ Resume(f) \/ Expire(f)
             \/ Show(f) \/ LogIn(f) \/ Abort(f) \/ Consent(f) \/ SaveGrant(f) \/ Finish(f)
      PROVE  InteractionsInv'
  BY <1>3, AuthorizeStep, ResumeStep, ExpireStep, ShowStep, LogInStep, AbortStep,
     ConsentStep, SaveGrantStep, FinishStep
<1> QED  BY <1>1, <1>2, <1>3 DEF Next

\* However consents, logouts and requests interleave, the invariant holds.
THEOREM InteractionsInvariant == Spec => []InteractionsInv
  BY InteractionsInit, InteractionsStep, PTL DEF Spec

-----------------------------------------------------------------------------
LEMMA CurrentHeld ==
    ASSUME InteractionsInv, NEW g \in GrantIds \cup {None}, g # None => IsCurrent(g)
    PROVE  HeldBy(g) \subseteq consented
  BY DEF InteractionsInv, CurrentIsConsentedTo, HeldBy

\* No code is issued for anything that was not consented to since the last logout, nor
\* for an OpenID scope that no page of such a consent asked for.
THEOREM CodesAreAlwaysConsentedTo == Spec => CodesAreConsentedTo
<1>1. InteractionsInv /\ [Next]_vars
        => [\A f \in Flows : flow[f].pc # "code" /\ flow'[f].pc = "code"
                => /\ Asked[f] \subseteq consented
                   /\ (Asked[f] \cap OidcScopes) \ {OpenId} \subseteq seen]_vars
  <2> SUFFICES ASSUME InteractionsInv, [Next]_vars,
                      NEW f \in Flows, flow[f].pc # "code", flow'[f].pc = "code"
               PROVE  /\ Asked[f] \subseteq consented
                      /\ (Asked[f] \cap OidcScopes) \ {OpenId} \subseteq seen
    OBVIOUS
  <2> SUFFICES Asked[f] \subseteq consented
    BY DEF InteractionsInv, Page
  <2>0. flow \in [Flows -> Flow] /\ TypeOK /\ session \in Session
    BY DEF InteractionsInv, TypeOK
  <2>1. ASSUME NEW ses \in Session, ses.grant # None => IsCurrent(ses.grant),
               NEW e \in Flows, flow' = [flow EXCEPT ![e] = Evaluated(e, ses)]
        PROVE  Asked[f] \subseteq consented
    <3>1. e = f /\ flow'[f] = Evaluated(f, ses)
      BY <2>0, <2>1
    <3>2. Asked[f] \subseteq HeldBy(ses.grant)
      BY <2>0, <3>1, EvaluatedIs
    <3> QED  BY <2>1, <3>2, CurrentHeld DEF Session
  <2>2. ASSUME NEW e \in Flows, Authorize(e) PROVE Asked[f] \subseteq consented
    BY <2>0, <2>1, <2>2 DEF Authorize, IsCurrent
  <2>3. ASSUME NEW e \in Flows, Resume(e) PROVE Asked[f] \subseteq consented
    <3>1. CASE \E pc \in {"denied", "lost"} : flow' = [flow EXCEPT ![e].pc = pc]
      <4>1. PICK pc \in {"denied", "lost"} :
                flow' = [flow EXCEPT ![e] = [flow[e] EXCEPT !.pc = pc]]
        BY <3>1
      <4> QED  BY <2>0, <4>1 DEF Flow
    <3>2. CASE /\ ~(flow[e].prompt = "consent" /\ flow[e].during # session.logouts)
               /\ flow' = [flow EXCEPT ![e] = Evaluated(e, Resumed(e))]
      BY <2>1, <3>2, ResumedIs
    <3> QED  BY <2>3, <3>1, <3>2, ResumeCases
  <2>4. ASSUME NEW e \in Flows, NEW p, flow' = [flow EXCEPT ![e] = p], p.pc # "code"
        PROVE  FALSE
    BY <2>0, <2>4
  <2>5. ASSUME NEW e \in Flows, NEW result, Steps(e, FinishesWith(e, result)) PROVE FALSE
    <3>1. PICK p : p = FinishesWith(e, result)
      OBVIOUS
    <3> QED  BY <2>0, <2>4, <2>5, <3>1 DEF Steps, FinishesWith, Flow
  <2>6. ASSUME NEW e \in Flows, Expire(e) \/ Show(e) \/ LogIn(e) \/ Abort(e) \/ Finish(e)
        PROVE  FALSE
    <3>1. CASE Expire(e)
      <4>1. PICK p : p = [flow[e] EXCEPT !.pc = "lost"]
        OBVIOUS
      <4> QED  BY <2>0, <2>4, <3>1, <4>1 DEF Expire, Flow
    <3>2. ASSUME NEW result, Steps(e, FinishesWith(e, result)) PROVE FALSE
      BY <2>5, <3>2
    <3>3. ASSUME NEW pc \in {"shown", "resuming"}, Steps(e, [flow[e] EXCEPT !.pc = pc]) PROVE FALSE
      <4>1. PICK p : p = [flow[e] EXCEPT !.pc = pc]
        OBVIOUS
      <4> QED  BY <2>0, <2>4, <3>3, <4>1 DEF Steps, Flow
    <3>4. CASE Show(e)
      <4>1. PICK page : page = Page(flow[e].missing)
        OBVIOUS
      <4>2. CASE Steps(e, [flow[e] EXCEPT !.pc = "shown", !.page = page])
        <5>1. PICK p : p = [flow[e] EXCEPT !.pc = "shown", !.page = page]
          OBVIOUS
        <5> QED  BY <2>0, <2>4, <4>2, <5>1 DEF Steps, Flow
      <4> QED  BY <3>2, <3>3, <3>4, <4>1, <4>2, ShowCases
    <3>5. CASE LogIn(e) \/ Abort(e)
      BY <3>2, <3>5 DEF LogIn, Abort
    <3>6. CASE Finish(e)
      BY <3>3, <3>6 DEF Finish
    <3> QED  BY <2>6, <3>1, <3>4, <3>5, <3>6
  <2>7. ASSUME NEW e \in Flows, Consent(e) \/ SaveGrant(e) PROVE FALSE
    <3>1. CASE Steps(e, FinishesWith(e, "invalid_request_object"))
      BY <2>5, <3>1
    <3>2. ASSUME NEW copy, Steps(e, [flow[e] EXCEPT !.pc = "granting", !.copy = copy])
          PROVE  FALSE
      <4>1. PICK p : p = [flow[e] EXCEPT !.pc = "granting", !.copy = copy]
        OBVIOUS
      <4> QED  BY <2>0, <2>4, <3>2, <4>1 DEF Steps, Flow
    <3>3. ASSUME NEW g, Steps(e, [FinishesWith(e, "consent") EXCEPT !.newGrant = g])
          PROVE  FALSE
      <4>1. PICK p : p = [FinishesWith(e, "consent") EXCEPT !.newGrant = g]
        OBVIOUS
      <4> QED  BY <2>0, <2>4, <3>3, <4>1 DEF Steps, FinishesWith, Flow
    <3> QED  BY <2>7, <3>1, <3>2, <3>3 DEF Consent, SaveGrant
  <2>8. ~Logout /\ ~UNCHANGED vars
    BY DEF Logout, vars
  <2> QED  BY <2>2, <2>3, <2>6, <2>7, <2>8 DEF Next
<1> QED  BY <1>1, InteractionsInvariant, PTL DEF Spec, CodesAreConsentedTo

-----------------------------------------------------------------------------
(***************************************************************************)
(* A consent nobody interferes with is enough.  As long as a request is    *)
(* not overtaken its grant is the session's, and what it found missing,    *)
(* with what is in the grant, is all it asks for.                          *)
(***************************************************************************)
Asking == {"prompted", "shown", "granting", "finishing", "resuming"}

\* the grant the request goes on with
Saved(request) == IF request.newGrant # None THEN request.newGrant ELSE request.grantId

Holds(gs, g) == IF g = None \/ gs[g] = None THEN {} ELSE gs[g]

Enough(request, scopes, ses, gs) ==
    /\ ses.loggedIn /\ ses.grant = request.grantId
    /\ request.pc \in {"prompted", "shown"}
            => scopes \subseteq request.missing \cup Holds(gs, request.grantId)
    /\ request.pc = "granting" => scopes \subseteq Extended(request)
    /\ request.pc \in {"finishing", "resuming"} /\ request.result = "consent"
            => scopes \subseteq Holds(gs, Saved(request))

EnoughOK(f, request, late, ses, gs) ==
    /\ request.pc \in {"finishing", "resuming"} /\ request.result = "consent"
            => request.prompt = "consent"
    /\ (/\ f \notin late /\ request.prompt = "consent"
        /\ request.during = ses.logouts /\ request.pc \in Asking)
            => Enough(request, Asked[f], ses, gs)

EnoughInv == \A f \in Flows : EnoughOK(f, flow[f], overtaken, session, grants)

\* One request moves, and those it does not overtake find their grants as they were.
LEMMA EnoughForAll ==
    ASSUME InteractionsInv, EnoughInv, NEW f \in Flows, NEW p \in Flow,
           flow' = [flow EXCEPT ![f] = p],
           EnoughOK(f, p, overtaken', session', grants'),
           session'.logouts = session.logouts, session.loggedIn => session'.loggedIn,
           \A e \in Flows \ {f} : e \notin overtaken' =>
                /\ e \notin overtaken /\ session'.grant = session.grant
                /\ \A g \in IdsOf(flow[e]) : Holds(grants', g) = Holds(grants, g)
    PROVE  EnoughInv'
<1>1. /\ flow' \in [Flows -> Flow] /\ flow'[f] = p
      /\ \A e \in Flows : e # f => flow'[e] = flow[e]
  BY OneRequestMoves DEF InteractionsInv, TypeOK
<1> SUFFICES ASSUME NEW e \in Flows, e # f
             PROVE  EnoughOK(e, flow[e], overtaken', session', grants')
  BY <1>1 DEF EnoughInv
<1>2. PICK q : q = flow[e]
  OBVIOUS
<1>3. EnoughOK(e, q, overtaken, session, grants)
  BY <1>2 DEF EnoughInv
<1>4. e \notin overtaken' =>
        /\ e \notin overtaken /\ session'.grant = session.grant
        /\ Holds(grants', q.grantId) = Holds(grants, q.grantId)
        /\ Holds(grants', Saved(q)) = Holds(grants, Saved(q))
  BY <1>2 DEF Saved, IdsOf
<1>5. Enough(q, Asked[e], session, grants) /\ e \notin overtaken'
        => Enough(q, Asked[e], session', grants')
  BY <1>4 DEF Enough
<1>6. EnoughOK(e, q, overtaken', session', grants')
  BY <1>3, <1>4, <1>5 DEF EnoughOK
<1> QED  BY <1>2, <1>6

\* A request that only goes on keeps what it knows.
LEMMA EnoughGoesOn ==
    ASSUME InteractionsInv, EnoughInv, NEW f \in Flows, NEW p \in Flow,
           flow' = [flow EXCEPT ![f] = p], UNCHANGED <<grants, session, overtaken>>,
           EnoughOK(f, p, overtaken, session, grants)
    PROVE  EnoughInv'
  BY EnoughForAll

\* what a request finds that is looked at
LEMMA EvaluatedAsks ==
    ASSUME TypeOK, NEW f \in Flows, NEW ses \in Session, NEW late
    PROVE  EnoughOK(f, Evaluated(f, ses), late, ses, grants)
<1> DEFINE missing == Asked[f] \ HeldBy(ses.grant)
           asked == [flow[f] EXCEPT !.pc = "prompted", !.grantId = ses.grant,
                       !.missing = missing, !.page = {}, !.during = ses.logouts, !.copy = {},
                       !.result = None, !.newGrant = None]
<1>1. flow[f] \in Flow /\ missing \subseteq Permissions /\ {} \subseteq Permissions
  BY DEF TypeOK, Permissions
<1>2. ses.grant \in GrantIds \cup {None} /\ ses.logouts \in 0 .. MaxLogouts
      /\ ses.loggedIn \in BOOLEAN
  BY DEF Session
<1>3. PICK p : /\ p = Evaluated(f, ses)
               /\ \/ p = [asked EXCEPT !.prompt = "login"]
                  \/ ses.loggedIn /\ p = [asked EXCEPT !.prompt = "consent"]
                  \/ p = [asked EXCEPT !.pc = "code", !.prompt = None]
  <2>1. CASE ~ses.loggedIn
    BY <2>1 DEF Evaluated
  <2>2. CASE ses.loggedIn /\ missing # {}
    BY <2>2 DEF Evaluated
  <2>3. CASE ses.loggedIn /\ missing = {}
    BY <2>3 DEF Evaluated
  <2> QED  BY <1>2, <2>1, <2>2, <2>3
<1>4. Asked[f] \subseteq missing \cup Holds(grants, ses.grant)
  BY DEF Holds, HeldBy
<1> HIDE DEF missing
<1>5. PICK a : a = asked
  OBVIOUS
<1>6. a \in Flow /\ a.pc = "prompted" /\ a.grantId = ses.grant /\ a.missing = missing
  BY <1>1, <1>2, <1>5 DEF Flow
<1>7. \/ p = [a EXCEPT !.prompt = "login"]
      \/ ses.loggedIn /\ p = [a EXCEPT !.prompt = "consent"]
      \/ p = [a EXCEPT !.pc = "code", !.prompt = None]
  BY <1>3, <1>5
<1> HIDE DEF asked
<1>8. /\ p.pc \in {"prompted", "code"} /\ p.grantId = ses.grant /\ p.missing = missing
      /\ p.pc = "prompted" /\ p.prompt = "consent" => ses.loggedIn
  BY <1>6, <1>7, OidcInteractionsAssumption, ZenonT(40) DEF Flow
<1>9. EnoughOK(f, p, late, ses, grants)
  BY <1>4, <1>8 DEF EnoughOK, Enough, Asking
<1> QED  BY <1>3, <1>9

LEMMA InitEnough == Init => EnoughInv
<1> SUFFICES ASSUME Init, NEW f \in Flows
             PROVE  EnoughOK(f, flow[f], overtaken, session, grants)
  BY DEF EnoughInv
<1>1. flow[f].pc = "idle"
  BY DEF Init
<1> QED  BY <1>1 DEF EnoughOK, Asking

LEMMA AuthorizeEnough ==
    ASSUME InteractionsInv, EnoughInv, NEW f \in Flows, Authorize(f) PROVE EnoughInv'
<1>1. TypeOK /\ session \in Session
  BY DEF InteractionsInv, TypeOK
<1>2. PICK p : p = Evaluated(f, session)
  OBVIOUS
<1>3. p \in Flow /\ EnoughOK(f, p, overtaken', session, grants)
  BY <1>1, <1>2, EvaluatedIs, EvaluatedAsks
<1>4. /\ flow' = [flow EXCEPT ![f] = p] /\ session' = session /\ grants' = grants
      /\ overtaken' = overtaken \ {f}
  BY <1>2 DEF Authorize
<1> QED  BY <1>3, <1>4, EnoughForAll

\* A request that ends is asked nothing any more.
LEMMA EndsEnough ==
    ASSUME InteractionsInv, EnoughInv, NEW f \in Flows, NEW pc \in {"denied", "lost"},
           flow' = [flow EXCEPT ![f].pc = pc], UNCHANGED <<grants, session, overtaken>>
    PROVE  EnoughInv'
<1>1. PICK p : p = [flow[f] EXCEPT !.pc = pc]
  OBVIOUS
<1>2. flow[f] \in Flow
  BY DEF InteractionsInv, TypeOK
<1>3. p \in Flow /\ p.pc = pc
  BY <1>1, <1>2 DEF Flow
<1>4. EnoughOK(f, p, overtaken, session, grants)
  BY <1>3 DEF EnoughOK, Asking
<1> QED  BY <1>1, <1>3, <1>4, EnoughGoesOn

LEMMA ResumeEnough ==
    ASSUME InteractionsInv, EnoughInv, NEW f \in Flows, Resume(f) PROVE EnoughInv'
<1>1. CASE /\ UNCHANGED <<session, overtaken>>
           /\ \E pc \in {"denied", "lost"} : flow' = [flow EXCEPT ![f].pc = pc]
  BY <1>1, ResumeCases, EndsEnough
<1>2. CASE /\ ~(flow[f].prompt = "consent" /\ flow[f].during # session.logouts)
           /\ flow' = [flow EXCEPT ![f] = Evaluated(f, Resumed(f))]
           /\ session' = Resumed(f)
           /\ overtaken' = (IF Resumed(f).grant = session.grant THEN overtaken ELSE Flows) \ {f}
  <2>1. /\ TypeOK /\ Resumed(f) \in Session /\ grants' = grants
        /\ Resumed(f).logouts = session.logouts
    BY <1>2, ResumedIs, ResumeCases DEF InteractionsInv
  <2>2. PICK p : p = Evaluated(f, Resumed(f))
    OBVIOUS
  <2>3. p \in Flow /\ EnoughOK(f, p, overtaken', session', grants')
    BY <1>2, <2>1, <2>2, EvaluatedIs, EvaluatedAsks
  <2>4. session.loggedIn => session'.loggedIn
    BY <1>2, <2>1 DEF Resumed, Session, TypeOK
  <2>5. \A e \in Flows \ {f} : e \notin overtaken'
            => e \notin overtaken /\ session'.grant = session.grant
    BY <1>2
  <2> QED  BY <1>2, <2>1, <2>2, <2>3, <2>4, <2>5, EnoughForAll
<1> QED  BY <1>1, <1>2, ResumeCases

\* Whoever finishes with anything but a consent has none to lose.
LEMMA FinishesEnough ==
    ASSUME InteractionsInv, EnoughInv, NEW f \in Flows, flow[f].pc \in {"prompted", "shown"},
           NEW result \in Results \ {"consent"}, Steps(f, FinishesWith(f, result)),
           UNCHANGED <<grants, overtaken>>
    PROVE  EnoughInv'
<1>1. PICK p : p = FinishesWith(f, result)
  OBVIOUS
<1>2. Keeps(p, flow[f]) /\ p.pc = "finishing" /\ p.result = result
  BY <1>1, FinishesWithIs DEF InteractionsInv
<1>3. EnoughOK(f, flow[f], overtaken, session, grants)
  BY DEF EnoughInv
<1>4. EnoughOK(f, p, overtaken, session, grants)
  BY <1>2, <1>3 DEF EnoughOK, Enough, Keeps, Asking
<1> QED  BY <1>1, <1>2, <1>4, EnoughGoesOn DEF Steps, Keeps

\* Being shown, and having the result stored, change nothing a request knows.
LEMMA PassesEnough ==
    ASSUME InteractionsInv, EnoughInv, NEW f \in Flows, NEW pc \in {"shown", "resuming"},
           flow[f].pc = IF pc = "shown" THEN "prompted" ELSE "finishing",
           Steps(f, [flow[f] EXCEPT !.pc = pc]), UNCHANGED <<grants, overtaken>>
    PROVE  EnoughInv'
<1>1. PICK p : p = [flow[f] EXCEPT !.pc = pc]
  OBVIOUS
<1>2. flow[f] \in Flow
  BY DEF InteractionsInv, TypeOK
<1>3. Keeps(p, flow[f]) /\ p.pc = pc /\ p.result = flow[f].result
      /\ p.missing = flow[f].missing
  BY <1>1, <1>2 DEF Flow, Keeps
<1>4. EnoughOK(f, flow[f], overtaken, session, grants)
  BY DEF EnoughInv
<1>5. EnoughOK(f, p, overtaken, session, grants)
  BY <1>3, <1>4 DEF EnoughOK, Enough, Keeps, Asking, Saved
<1> QED  BY <1>1, <1>3, <1>5, EnoughGoesOn DEF Steps, Keeps

LEMMA PageEnough ==
    ASSUME InteractionsInv, EnoughInv, NEW f \in Flows, flow[f].pc = "prompted",
           Steps(f, [flow[f] EXCEPT !.pc = "shown", !.page = Page(flow[f].missing)]),
           UNCHANGED <<grants, overtaken>>
    PROVE  EnoughInv'
<1>1. PICK p : p = [flow[f] EXCEPT !.pc = "shown", !.page = Page(flow[f].missing)]
  OBVIOUS
<1>2. Keeps(p, flow[f]) /\ p.pc = "shown" /\ p.missing = flow[f].missing
  BY <1>1, ShownIs DEF InteractionsInv
<1>3. EnoughOK(f, flow[f], overtaken, session, grants)
  BY DEF EnoughInv
<1>4. EnoughOK(f, p, overtaken, session, grants)
  BY <1>2, <1>3 DEF EnoughOK, Enough, Keeps, Asking
<1> QED  BY <1>1, <1>2, <1>4, EnoughGoesOn DEF Steps, Keeps

LEMMA PromptsEnough ==
    ASSUME InteractionsInv, EnoughInv, NEW f \in Flows,
           Show(f) \/ LogIn(f) \/ Abort(f) \/ Finish(f)
    PROVE  EnoughInv'
<1>1. CASE Show(f)
  <2>1. CASE Steps(f, [flow[f] EXCEPT !.pc = "shown"])
    BY <1>1, <2>1, ShowCases, PassesEnough
  <2>2. CASE Steps(f, [flow[f] EXCEPT !.pc = "shown", !.page = Page(flow[f].missing)])
    BY <1>1, <2>2, ShowCases, PageEnough
  <2>3. CASE \E result \in Results \ {"consent"} : Steps(f, FinishesWith(f, result))
    BY <1>1, <2>3, ShowCases, FinishesEnough
  <2> QED  BY <1>1, <2>1, <2>2, <2>3, ShowCases
<1>2. CASE LogIn(f) \/ Abort(f)
  BY <1>2, FinishesEnough DEF LogIn, Abort, Results
<1>3. CASE Finish(f)
  BY <1>3, PassesEnough DEF Finish
<1> QED  BY <1>1, <1>2, <1>3

\* What is read of the grant and what was found missing are all there is to ask for.
LEMMA ConsentEnough ==
    ASSUME InteractionsInv, EnoughInv, NEW f \in Flows, Consent(f) PROVE EnoughInv'
<1>1. CASE Steps(f, FinishesWith(f, "invalid_request_object"))
  BY <1>1, FinishesEnough DEF Consent, Results
<1>2. CASE Steps(f, [flow[f] EXCEPT !.pc = "granting", !.copy = HeldBy(flow[f].grantId)])
  <2>1. PICK copy : copy = Holds(grants, flow[f].grantId) /\ copy = HeldBy(flow[f].grantId)
    BY DEF Holds, HeldBy
  <2>2. PICK p : p = [flow[f] EXCEPT !.pc = "granting", !.copy = copy]
    OBVIOUS
  <2>3. /\ flow[f] \in Flow /\ grants \in [GrantIds -> (SUBSET Permissions) \cup {None}]
        /\ flow[f].pc = "shown"
    BY DEF InteractionsInv, TypeOK, Consent
  <2>4. copy \subseteq Permissions
    BY <2>1, <2>3 DEF Holds, Flow
  <2>5. /\ Keeps(p, flow[f]) /\ p.pc = "granting" /\ p.copy = copy
        /\ p.missing = flow[f].missing
    BY <2>2, <2>3, <2>4 DEF Flow, Keeps
  <2>6. EnoughOK(f, flow[f], overtaken, session, grants)
    BY DEF EnoughInv
  <2>7. EnoughOK(f, p, overtaken, session, grants)
    BY <2>1, <2>3, <2>5, <2>6 DEF EnoughOK, Enough, Keeps, Asking, Extended
  <2> QED  BY <1>2, <2>1, <2>2, <2>5, <2>7, EnoughGoesOn DEF Steps, Keeps, Consent
<1> QED  BY <1>1, <1>2 DEF Consent

\* What is saved is all there is to ask for, and whoever has the same grant is overtaken.
LEMMA SaveGrantEnough ==
    ASSUME InteractionsInv, EnoughInv, NEW f \in Flows, SaveGrant(f) PROVE EnoughInv'
<1>1. PICK g \in GrantIds :
        /\ flow[f].grantId # None => g = flow[f].grantId
        /\ grants' = [grants EXCEPT ![g] = Extended(flow[f])]
        /\ Steps(f, [FinishesWith(f, "consent") EXCEPT !.newGrant = ConsentGrantId(flow[f], g)])
        /\ overtaken' = overtaken \cup
                {e \in Flows \ {f} : g \in {flow[e].grantId, flow[e].newGrant}}
  BY DEF SaveGrant
<1>2. /\ TypeOK /\ flow[f] \in Flow /\ flow[f].pc = "granting"
      /\ FlowOK(flow[f], session, consented) /\ session' = session
      /\ grants \in [GrantIds -> (SUBSET Permissions) \cup {None}]
  BY DEF InteractionsInv, TypeOK, SaveGrant, Steps
<1>3. PICK saved : saved = Extended(flow[f]) /\ saved \subseteq Permissions /\ saved # None
  <2>1. Extended(flow[f]) \subseteq Permissions
    BY <1>2 DEF Extended, Flow
  <2>2. \A scopes \in SUBSET Permissions : scopes # None
    BY OidcInteractionsAssumption
  <2> QED  BY <2>1, <2>2
<1>4. grants' = [grants EXCEPT ![g] = saved]
  BY <1>1, <1>3
<1>5. /\ Holds(grants', g) = saved
      /\ \A i \in GrantIds \cup {None} : i # g => Holds(grants', i) = Holds(grants, i)
  BY <1>2, <1>3, <1>4, OidcInteractionsAssumption DEF Holds
<1>6. PICK p : /\ p = [FinishesWith(f, "consent") EXCEPT !.newGrant = ConsentGrantId(flow[f], g)]
               /\ p \in Flow /\ p.pc = "finishing" /\ p.during = flow[f].during
               /\ p.prompt = flow[f].prompt /\ p.grantId = flow[f].grantId /\ Saved(p) = g
  <2>1. PICK r : r = FinishesWith(f, "consent")
    OBVIOUS
  <2>2. Keeps(r, flow[f]) /\ r.pc = "finishing"
    BY <1>2, <2>1, FinishesWithIs DEF Results
  <2>3. PICK new \in GrantIds \cup {None} :
            /\ new = ConsentGrantId(flow[f], g)
            /\ IF flow[f].grantId = None THEN new = g ELSE new = None
    BY DEF ConsentGrantId
  <2>4. PICK p : p = [r EXCEPT !.newGrant = new]
    OBVIOUS
  <2>5. /\ p \in Flow /\ p.pc = "finishing" /\ p.during = flow[f].during
        /\ p.prompt = flow[f].prompt /\ p.grantId = flow[f].grantId /\ p.newGrant = new
    BY <2>2, <2>4 DEF Flow, Keeps
  <2>6. Saved(p) = g
    BY <1>1, <2>3, <2>5, OidcInteractionsAssumption DEF Saved
  <2>7. p = [FinishesWith(f, "consent") EXCEPT !.newGrant = ConsentGrantId(flow[f], g)]
    BY <2>1, <2>3, <2>4
  <2> QED  BY <2>5, <2>6, <2>7
<1>7. flow' = [flow EXCEPT ![f] = p]
  BY <1>1, <1>6 DEF Steps
<1>8. EnoughOK(f, flow[f], overtaken, session, grants)
  BY DEF EnoughInv
<1>9. f \notin overtaken' => f \notin overtaken
  BY <1>1
<1>10. EnoughOK(f, p, overtaken', session, grants')
  BY <1>2, <1>3, <1>5, <1>6, <1>8, <1>9 DEF EnoughOK, Enough, FlowOK, Asking
<1>11. ASSUME NEW e \in Flows \ {f}, e \notin overtaken'
       PROVE  e \notin overtaken /\ \A i \in IdsOf(flow[e]) : Holds(grants', i) = Holds(grants, i)
  <2>1. e \notin overtaken /\ flow[e] \in Flow /\ \A i \in IdsOf(flow[e]) : i # g
    BY <1>1, <1>2, <1>11 DEF IdsOf, TypeOK
  <2>2. IdsOf(flow[e]) \subseteq GrantIds \cup {None}
    BY <2>1 DEF IdsOf, Flow
  <2> QED  BY <1>5, <2>1, <2>2
<1> QED  BY <1>2, <1>6, <1>7, <1>10, <1>11, EnoughForAll

LEMMA LogoutEnough == ASSUME InteractionsInv, EnoughInv, Logout PROVE EnoughInv'
<1> SUFFICES ASSUME NEW f \in Flows
             PROVE  EnoughOK(f, flow'[f], overtaken', session', grants')
  BY DEF EnoughInv
<1>1. /\ EnoughOK(f, flow[f], overtaken, session, grants)
      /\ FlowOK(flow[f], session, consented) /\ session \in Session /\ flow[f] \in Flow
  BY DEF EnoughInv, InteractionsInv, TypeOK
<1>2. flow' = flow /\ session'.logouts = session.logouts + 1
  BY DEF Logout
<1>3. flow[f].during # session'.logouts
  BY <1>1, <1>2 DEF FlowOK, Session, Flow
<1> QED  BY <1>1, <1>2, <1>3 DEF EnoughOK

LEMMA EnoughStep == InteractionsInv /\ EnoughInv /\ [Next]_vars => EnoughInv'
<1> SUFFICES ASSUME InteractionsInv, EnoughInv, [Next]_vars PROVE EnoughInv'
  OBVIOUS
<1>1. CASE UNCHANGED vars
  BY <1>1 DEF vars, EnoughInv
<1>2. ASSUME NEW f \in Flows, Expire(f) PROVE EnoughInv'
  BY <1>2, EndsEnough DEF Expire
<1>3. ASSUME NEW f \in Flows,
             \/ Authorize(f) \/ Resume(f) \/ Show(f) \/ LogIn(f) \/ Abort(f)
             \/ Consent(f) \/ SaveGrant(f) \/ Finish(f)
      PROVE  EnoughInv'
  BY <1>3, AuthorizeEnough, ResumeEnough, PromptsEnough, ConsentEnough, SaveGrantEnough
<1> QED  BY <1>1, <1>2, <1>3, LogoutEnough DEF Next

\* A request that consented, and that no other one overtook, is not asked again.
THEOREM OnlyTheOvertakenAreAskedAgain == Spec => AskedAgainOnlyIfOvertaken
<1>1. InteractionsInv /\ EnoughInv /\ [Next]_vars
        => [\A f \in Flows :
              /\ flow[f].pc = "resuming" /\ flow[f].result = "consent"
              /\ flow'[f].pc = "prompted"
              => f \in overtaken]_vars
  <2> SUFFICES ASSUME InteractionsInv, EnoughInv, [Next]_vars, NEW f \in Flows,
                      flow[f].pc = "resuming", flow[f].result = "consent",
                      flow'[f].pc = "prompted", f \notin overtaken
               PROVE  FALSE
    OBVIOUS
  <2>1. /\ TypeOK /\ flow \in [Flows -> Flow] /\ session \in Session
        /\ EnoughOK(f, flow[f], overtaken, session, grants)
    BY DEF InteractionsInv, TypeOK, EnoughInv
  <2>2. Resume(f)
    <3>1. flow'[f] # flow[f]
      OBVIOUS
    <3>2. ASSUME NEW e \in Flows, NEW p, flow' = [flow EXCEPT ![e] = p], e # f PROVE FALSE
      BY <2>1, <3>1, <3>2
    <3>3. ASSUME NEW e \in Flows, e # f,
                 \/ Authorize(e) \/ Resume(e) \/ Expire(e) \/ Show(e) \/ LogIn(e)
                 \/ Abort(e) \/ Consent(e) \/ SaveGrant(e) \/ Finish(e)
          PROVE  \E p : flow' = [flow EXCEPT ![e] = p]
      BY <3>3 DEF Authorize, Resume, Expire, Show, LogIn, Abort, Consent, SaveGrant, Finish, Steps
    <3>4. ~(UNCHANGED vars \/ Logout)
      BY <3>1 DEF vars, Logout
    <3>5. ~Authorize(f) /\ ~Show(f) /\ ~LogIn(f) /\ ~Abort(f) /\ ~Consent(f)
          /\ ~SaveGrant(f) /\ ~Finish(f)
      BY DEF Authorize, Show, LogIn, Abort, Consent, SaveGrant, Finish
    <3>6. ~Expire(f)
      <4> SUFFICES ASSUME Expire(f) PROVE FALSE
        OBVIOUS
      <4>1. PICK p : p = [flow[f] EXCEPT !.pc = "lost"]
        OBVIOUS
      <4> QED  BY <2>1, <4>1 DEF Expire, Flow
    <3> QED  BY <3>2, <3>3, <3>4, <3>5, <3>6 DEF Next
  <2>3. /\ flow[f].prompt = "consent" /\ flow[f].during = session.logouts
        /\ flow' = [flow EXCEPT ![f] = Evaluated(f, Resumed(f))]
    <3>1. flow[f].prompt = "consent"
      BY <2>1 DEF EnoughOK
    <3>2. ~ \E pc \in {"denied", "lost"} : flow' = [flow EXCEPT ![f].pc = pc]
      <4> SUFFICES ASSUME NEW pc \in {"denied", "lost"}, flow' = [flow EXCEPT ![f].pc = pc]
                   PROVE  FALSE
        OBVIOUS
      <4>1. PICK p : p = [flow[f] EXCEPT !.pc = pc]
        OBVIOUS
      <4> QED  BY <2>1, <4>1 DEF Flow
    <3> QED  BY <2>2, <3>1, <3>2, ResumeCases
  <2>4. Enough(flow[f], Asked[f], session, grants)
    BY <2>1, <2>3 DEF EnoughOK, Asking
  <2>5. /\ Resumed(f) \in Session /\ Resumed(f).loggedIn
        /\ Resumed(f).grant = Saved(flow[f])
    BY <2>1, <2>3, <2>4, ResumedIs DEF Resumed, Saved, Session, Enough
  <2>6. Asked[f] \subseteq HeldBy(Resumed(f).grant)
    BY <2>4, <2>5 DEF Enough, Holds, HeldBy
  <2>7. Evaluated(f, Resumed(f)).pc = "code"
    <3>1. PICK ses : ses = Resumed(f)
      OBVIOUS
    <3>2. ses.loggedIn /\ Asked[f] \ HeldBy(ses.grant) = {}
      BY <2>5, <2>6, <3>1
    <3>3. PICK a : a = [flow[f] EXCEPT !.pc = "prompted", !.grantId = ses.grant,
                          !.missing = Asked[f] \ HeldBy(ses.grant), !.page = {},
                          !.during = ses.logouts, !.copy = {}, !.result = None,
                          !.newGrant = None]
      OBVIOUS
    <3>4. Evaluated(f, ses) = [a EXCEPT !.pc = "code", !.prompt = None]
      BY <3>2, <3>3 DEF Evaluated
    <3>5. "pc" \in DOMAIN a
      BY <2>1, <3>3 DEF Flow
    <3>6. PICK b : b = [a EXCEPT !.pc = "code", !.prompt = None]
      OBVIOUS
    <3>7. b.pc = "code"
      BY <3>5, <3>6
    <3> QED  BY <3>1, <3>4, <3>6, <3>7
  <2>8. PICK p : p = Evaluated(f, Resumed(f))
    OBVIOUS
  <2> QED  BY <2>1, <2>3, <2>7, <2>8
<1>2. Spec => []EnoughInv
  BY InitEnough, EnoughStep, InteractionsInvariant, PTL DEF Spec
<1> QED  BY <1>1, <1>2, InteractionsInvariant, PTL DEF Spec, AskedAgainOnlyIfOvertaken

=============================================================================
