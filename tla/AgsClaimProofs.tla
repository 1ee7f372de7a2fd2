--------------------------- MODULE AgsClaimProofs ---------------------------
(***************************************************************************)
(* What the query of deployments finds, and what the claim of a launch     *)
(* says, for every hierarchy of contexts.                                  *)
(*                                                                         *)
(* The query is recursive.  The natural numbers are well founded, so a set *)
(* with 1 and the successor of each of its members has them all: that is   *)
(* the induction by which the recursive function of Ascent has the values  *)
(* its definition says, never comes back to a context it passed, and so    *)
(* reaches the root before the contexts run out.  Its path is then the set *)
(* of the contexts that hold the first one, which is defined without it.   *)
(*                                                                         *)
(* The invariant relates a claim to its link, and the link to a deployment *)
(* that reaches its context: as no link of an external assignment is ever  *)
(* deleted, and no deployment with such a link, both stay.                 *)
(***************************************************************************)
EXTENDS AgsClaim, FiniteSetTheorems, WellFoundedInduction, TLAPS

-----------------------------------------------------------------------------
(***************************************************************************)
(* Induction, over sets of naturals.                                       *)
(***************************************************************************)
LEMMA LeastNatural ==
  ASSUME NEW T \in SUBSET Nat, T # {}
  PROVE  \E x \in T : \A y \in T : x <= y
<1> DEFINE Less == {pair \in Nat \X Nat : pair[1] < pair[2]}
<1>1. IsWellFoundedOn(Less, Nat)
  BY NatLessThanWellFounded DEF OpToRel
<1>2. \A x, y \in T : y < x => <<y, x>> \in Less
  OBVIOUS
<1> HIDE DEF Less
<1>3. PICK x \in T : \A y \in T : ~ (<<y, x>> \in Less)
  BY <1>1, WFMin
<1>4. \A y \in T : ~ (y < x)
  BY <1>2, <1>3
<1> QED  BY <1>4

\* A set with 1, and with the successor of each of its members, has all of 1, 2, 3, ...
LEMMA Induction ==
  ASSUME NEW S, 1 \in S, \A n \in S \cap Nat : n + 1 \in S
  PROVE  Nat \ {0} \subseteq S
<1> SUFFICES ASSUME (Nat \ {0}) \ S # {} PROVE FALSE
  OBVIOUS
<1>1. PICK n \in (Nat \ {0}) \ S : \A m \in (Nat \ {0}) \ S : n <= m
  BY LeastNatural
<1>2. n # 1 /\ n - 1 \in Nat \ {0} /\ (n - 1) + 1 = n
  BY <1>1
<1>3. n - 1 \in S
  BY <1>1, <1>2
<1> QED  BY <1>2, <1>3

\* What a function is at 1, and how it goes on until there is no next.
Follows(f, N, first, next, none) ==
    f = [n \in 1 .. N |-> IF n = 1 THEN first
                          ELSE IF f[n - 1] = none THEN none ELSE next[f[n - 1]]]

\* There is such a function, as long as one likes.
LEMMA Recursion ==
  ASSUME NEW N \in Nat, NEW first, NEW next, NEW none
  PROVE  \E f : Follows(f, N, first, next, none)
<1> USE DEF Follows
<1> DEFINE Body(f, n) == IF n = 1 THEN first
                         ELSE IF f[n - 1] = none THEN none ELSE next[f[n - 1]]
           Defined == {M \in Nat : \E f : f = [n \in 1 .. M |-> Body(f, n)]}
<1>1. 1 \in Defined
  <2> DEFINE f == [n \in 1 .. 1 |-> first]
  <2>1. f = [n \in 1 .. 1 |-> Body(f, n)]
    <3>1. \A n \in 1 .. 1 : n = 1
      OBVIOUS
    <3> QED  BY <3>1
  <2> QED  BY <2>1
<1>2. ASSUME NEW M \in Defined, M # 0 PROVE M + 1 \in Defined
  <2>1. PICK f : f = [n \in 1 .. M |-> Body(f, n)]
    OBVIOUS
  <2> DEFINE g == [n \in 1 .. M + 1 |-> IF n = M + 1 THEN Body(f, n) ELSE f[n]]
  <2>2. M \in Nat
    OBVIOUS
  <2>6. \A n \in 1 .. M : n \in 1 .. M + 1 /\ n # M + 1
    BY <2>2
  <2>7. \A n \in 1 .. M : g[n] = f[n]
    BY <2>6
  <2>3. \A n \in 1 .. M + 1 : Body(f, n) = Body(g, n)
    <3> SUFFICES ASSUME NEW n \in 1 .. M + 1, n # 1 PROVE f[n - 1] = g[n - 1]
      OBVIOUS
    <3>1. n - 1 \in 1 .. M
      BY <2>2
    <3> HIDE DEF g
    <3> QED  BY <2>7, <3>1
  <2>4. \A n \in 1 .. M + 1 : g[n] = Body(f, n)
    <3>1. \A n \in 1 .. M : f[n] = Body(f, n)
      BY <2>1
    <3>2. \A n \in 1 .. M + 1 : n = M + 1 \/ n \in 1 .. M
      BY <2>2
    <3>3. \A n \in 1 .. M + 1 : g[n] = IF n = M + 1 THEN Body(f, n) ELSE f[n]
      OBVIOUS
    <3> HIDE DEF g, Body
    <3> QED  BY <3>1, <3>2, <3>3
  <2>5. g = [n \in 1 .. M + 1 |-> Body(g, n)]
    BY <2>3, <2>4
  <2> HIDE DEF g, Body
  <2>8. \E h : h = [n \in 1 .. M + 1 |-> Body(h, n)]
    BY <2>5
  <2> QED  BY <2>2, <2>8
<1>3. CASE N = 0
  <2> DEFINE f == [n \in 1 .. 0 |-> first]
  <2>1. f = [n \in 1 .. 0 |-> Body(f, n)]
    OBVIOUS
  <2> QED  BY <1>3, <2>1
<1>4. CASE N # 0
  <2> DEFINE S == Defined \ {0}
  <2>1. 1 \in S /\ \A M \in S \cap Nat : M + 1 \in S
    BY <1>1, <1>2, SMTT(40)
  <2>2. N \in S
    <3> HIDE DEF S
    <3> QED  BY <1>4, <2>1, Induction
  <2> QED  BY <2>2
<1> QED  BY <1>3, <1>4

-----------------------------------------------------------------------------
(***************************************************************************)
(* The contexts above a context.                                           *)
(***************************************************************************)
\* No context is above itself: it is created after its parent, and keeps it.
Acyclic ==
    \E height \in [Contexts -> Nat] :
        \A c \in DOMAIN parent : parent[c] # None => height[parent[c]] < height[c]

Size == Cardinality(Contexts)

LEMMA SizeType == Size \in Nat /\ Depths = 1 .. Size
  BY TreeAssumption, FS_CardinalityType DEF Size, Depths

\* What the recursive query of findMostAppropriateDeploymentForTool goes through.
LEMMA AscentSteps ==
  ASSUME NEW c
  PROVE  \A n \in Depths :
            Ascent(c)[n] = IF n = 1 THEN (IF c \in DOMAIN parent THEN c ELSE None)
                           ELSE IF Ascent(c)[n - 1] = None THEN None
                           ELSE parent[Ascent(c)[n - 1]]
<1> DEFINE first == IF c \in DOMAIN parent THEN c ELSE None
<1>1. Ascent(c) = CHOOSE f : Follows(f, Size, first, parent, None)
  BY SizeType DEF Ascent, Follows
<1>2. Follows(Ascent(c), Size, first, parent, None)
  BY <1>1, SizeType, Recursion
<1> HIDE DEF first
<1>3. \A n \in Depths : Ascent(c)[n] = IF n = 1 THEN first
                                       ELSE IF Ascent(c)[n - 1] = None THEN None
                                       ELSE parent[Ascent(c)[n - 1]]
  <2> DEFINE A == Ascent(c)
  <2>1. A = [n \in Depths |-> IF n = 1 THEN first
                              ELSE IF A[n - 1] = None THEN None ELSE parent[A[n - 1]]]
    BY <1>2, SizeType DEF Follows
  <2> HIDE DEF A
  <2>2. \A n \in Depths : A[n] = IF n = 1 THEN first
                                ELSE IF A[n - 1] = None THEN None ELSE parent[A[n - 1]]
    BY <2>1
  <2> QED  BY <2>2 DEF A
<1> QED  BY <1>3 DEF first

LEMMA DepthsStart ==
  ASSUME TreeTypeOK, NEW c \in DOMAIN parent
  PROVE  1 \in Depths /\ Ascent(c)[1] = c /\ None \notin DOMAIN parent
<1>1. c \in Contexts /\ None \notin Contexts
  BY TreeAssumption DEF TreeTypeOK
<1>2. Size # 0
  BY <1>1, TreeAssumption, FS_EmptySet DEF Size
<1>3. 1 \in Depths
  BY <1>2, SizeType
<1> QED  BY <1>1, <1>3, AscentSteps DEF TreeTypeOK

LEMMA AscentType ==
  ASSUME TreeTypeOK, NEW c \in DOMAIN parent
  PROVE  \A n \in Depths : Ascent(c)[n] \in DOMAIN parent \cup {None}
<1> DEFINE S == {n \in Nat : n \in Depths => Ascent(c)[n] \in DOMAIN parent \cup {None}}
<1>1. 1 \in S
  BY DepthsStart
<1>2. ASSUME NEW n \in S \cap Nat, n # 0 PROVE n + 1 \in S
  <2>1. SUFFICES ASSUME n + 1 \in Depths PROVE Ascent(c)[n + 1] \in DOMAIN parent \cup {None}
    OBVIOUS
  <2>2. n \in Depths /\ n + 1 # 1 /\ (n + 1) - 1 = n
    BY <1>2, <2>1, SizeType
  <2>3. Ascent(c)[n] \in DOMAIN parent \cup {None}
    BY <2>2
  <2>4. Ascent(c)[n + 1] = IF Ascent(c)[n] = None THEN None ELSE parent[Ascent(c)[n]]
    BY <2>1, <2>2, AscentSteps
  <2> QED  BY <2>3, <2>4 DEF TreeTypeOK
<1>3. Nat \ {0} \subseteq S \ {0}
  <2> DEFINE T == S \ {0}
  <2>1. 1 \in T /\ \A n \in T \cap Nat : n + 1 \in T
    BY <1>1, <1>2
  <2> HIDE DEF T
  <2>2. Nat \ {0} \subseteq T
    BY <2>1, Induction
  <2> QED  BY <2>2 DEF T
<1> QED  BY <1>3, SizeType

Descends(height) ==
    \A c \in DOMAIN parent : parent[c] # None => height[parent[c]] < height[c]

\* The higher, the less height is left.
LEMMA AscentDescends ==
  ASSUME TreeTypeOK, NEW height \in [Contexts -> Nat], Descends(height),
         NEW c \in DOMAIN parent
  PROVE  \A m, n \in Depths : m < n /\ Ascent(c)[n] # None =>
            Ascent(c)[m] # None /\ height[Ascent(c)[n]] < height[Ascent(c)[m]]
<1> DEFINE A == Ascent(c)
           Goal(n) == \A m \in Depths : m < n /\ A[n] # None =>
                         A[m] # None /\ height[A[n]] < height[A[m]]
           S == {n \in Nat \ {0} : n \in Depths => Goal(n)}
<1> HIDE DEF A
<1>1. 1 \in S
  BY SizeType
<1>2. ASSUME NEW n \in S PROVE n + 1 \in S
  <2>1. SUFFICES ASSUME n + 1 \in Depths, NEW m \in Depths, m < n + 1, A[n + 1] # None
                 PROVE  A[m] # None /\ height[A[n + 1]] < height[A[m]]
    OBVIOUS
  <2>2. n \in Depths /\ n + 1 # 1 /\ (n + 1) - 1 = n /\ m <= n
    BY <2>1, SizeType
  <2>3. A[n] # None /\ A[n + 1] = parent[A[n]]
    BY <2>1, <2>2, AscentSteps DEF A
  <2>4. A[n] \in DOMAIN parent /\ A[n + 1] \in DOMAIN parent
    BY <2>1, <2>2, <2>3, AscentType DEF A
  <2>5. height[A[n + 1]] < height[A[n]]
    BY <2>1, <2>3, <2>4 DEF Descends
  <2>6. m < n => A[m] # None /\ height[A[n]] < height[A[m]]
    BY <2>2, <2>3
  <2>7. A[m] \in DOMAIN parent \cup {None} /\ DOMAIN parent \subseteq Contexts
    BY AscentType DEF A, TreeTypeOK
  <2>8. CASE m = n
    BY <2>3, <2>5, <2>8
  <2>9. CASE m < n
    <3>1. A[m] \in Contexts /\ A[n] \in Contexts /\ A[n + 1] \in Contexts
      BY <2>4, <2>6, <2>7, <2>9
    <3> QED  BY <2>5, <2>6, <2>9, <3>1
  <2> QED  BY <2>2, <2>8, <2>9, SizeType
<1>3. Nat \ {0} \subseteq S
  <2>1. \A n \in S \cap Nat : n + 1 \in S
    BY <1>2
  <2> HIDE DEF S
  <2> QED  BY <1>1, <2>1, Induction
<1>4. \A n \in Depths : n \in S
  BY <1>3, SizeType
<1> QED  BY <1>4 DEF A

\* The query reaches the root: a path is no longer than there are contexts.
LEMMA AscentReachesRoot ==
  ASSUME TreeTypeOK, Acyclic, NEW c \in DOMAIN parent,
         NEW n \in Depths, Ascent(c)[n] # None, parent[Ascent(c)[n]] # None
  PROVE  n + 1 \in Depths /\ Ascent(c)[n + 1] = parent[Ascent(c)[n]]
<1> DEFINE A == Ascent(c)
           f == [k \in 1 .. Size + 1 |-> IF k = Size + 1 THEN parent[A[n]] ELSE A[k]]
<1>1. PICK height \in [Contexts -> Nat] : Descends(height)
  BY DEF Acyclic, Descends
<1>2. /\ Size \in Nat /\ Depths = 1 .. Size
      /\ A[n] # None /\ A[n] \in DOMAIN parent /\ parent[A[n]] \in DOMAIN parent
      /\ DOMAIN parent \subseteq Contexts
  BY SizeType, AscentType DEF TreeTypeOK
<1>3. height[parent[A[n]]] < height[A[n]]
  BY <1>1, <1>2 DEF Descends
<1>4. \A k, m \in Depths : m < k /\ A[k] # None => A[m] # None /\ height[A[k]] < height[A[m]]
  BY <1>1, AscentDescends
<1>5. ASSUME n = Size PROVE FALSE
  <2> HIDE DEF A
  <2>1. \A k \in 1 .. Size : A[k] \in Contexts
    <3> SUFFICES ASSUME NEW k \in 1 .. Size PROVE A[k] \in Contexts
      OBVIOUS
    <3>1. A[k] # None
      BY <1>2, <1>4, <1>5
    <3>2. A[k] \in DOMAIN parent \cup {None}
      BY <1>2, AscentType DEF A
    <3> QED  BY <1>2, <3>1, <3>2
  <2>2. f \in [1 .. Size + 1 -> Contexts]
    <3>1. parent[A[n]] \in Contexts
      BY <1>2
    <3>2. \A k \in 1 .. Size + 1 : k = Size + 1 \/ k \in 1 .. Size
      BY <1>2
    <3> QED  BY <2>1, <3>1, <3>2
  <2>3. IsFiniteSet(1 .. Size + 1) /\ Cardinality(1 .. Size + 1) = Size + 1
    <3>1. 1 \in Int /\ Size + 1 \in Int /\ ~ (1 > Size + 1) /\ (Size + 1) - 1 + 1 = Size + 1
      BY <1>2
    <3> QED  BY <3>1, FS_Interval
  <2>4. \E x, y \in 1 .. Size + 1 : x # y /\ f[x] = f[y]
    <3>1. IsFiniteSet(Contexts) /\ Cardinality(Contexts) < Cardinality(1 .. Size + 1)
      BY <1>2, <2>3, TreeAssumption DEF Size
    <3> HIDE DEF f
    <3> QED  BY <2>2, <2>3, <3>1, FS_PigeonHole, ZenonT(40)
  <2>5. ASSUME NEW x \in 1 .. Size + 1, NEW y \in 1 .. Size + 1, x < y
        PROVE  f[x] # f[y]
    <3>1. x \in Depths /\ f[x] = A[x] /\ A[x] \in Contexts /\ A[x] # None
      BY <1>2, <1>5, <2>1, <2>5, TreeAssumption
    <3>2. CASE y = Size + 1
      <4>1. f[y] = parent[A[n]]
        BY <1>2, <3>2
      <4>2. height[A[n]] <= height[A[x]]
        BY <1>2, <1>4, <1>5, <2>5, <3>1, <3>2
      <4> QED  BY <1>2, <1>3, <3>1, <4>1, <4>2
    <3>3. CASE y # Size + 1
      <4>1. y \in Depths /\ f[y] = A[y] /\ A[y] \in Contexts /\ A[y] # None
        BY <1>2, <2>1, <3>3, TreeAssumption
      <4>2. height[A[y]] < height[A[x]]
        BY <1>4, <2>5, <3>1, <4>1
      <4> QED  BY <3>1, <4>1, <4>2
    <3> QED  BY <3>2, <3>3
  <2>6. PICK x, y \in 1 .. Size + 1 : x # y /\ f[x] = f[y]
    BY <2>4
  <2>7. x < y \/ y < x
    BY <1>2, <2>6
  <2> HIDE DEF f
  <2> QED  BY <2>5, <2>6, <2>7
<1>6. n + 1 \in Depths /\ n + 1 # 1 /\ (n + 1) - 1 = n
  BY <1>2, <1>5
<1> QED  BY <1>6, AscentSteps

-----------------------------------------------------------------------------
Ascended(c) == {Ascent(c)[n] : n \in {m \in Depths : Ascent(c)[m] # None}}

IsClosed(c, S) == c \in S /\ \A x \in S : parent[x] \in S \cup {None}

\* From a context on its path the rest of the path is above it.
LEMMA HigherIsHolder ==
  ASSUME TreeTypeOK, NEW c \in DOMAIN parent,
         NEW k \in Depths, NEW S, IsClosed(Ascent(c)[k], S),
         NEW n \in Depths, k <= n, Ascent(c)[n] # None
  PROVE  Ascent(c)[n] \in S
<1> DEFINE A == Ascent(c)
           T == {m \in Nat \ {0} : k <= m /\ m \in Depths => A[m] \in S \cup {None}}
<1> HIDE DEF A
<1>1. A[k] \in S
  BY DEF IsClosed, A
<1>2. 1 \in T
  BY <1>1, SizeType
<1>3. ASSUME NEW m \in T PROVE m + 1 \in T
  <2>1. SUFFICES ASSUME k <= m + 1, m + 1 \in Depths PROVE A[m + 1] \in S \cup {None}
    OBVIOUS
  <2>2. CASE k = m + 1
    BY <1>1, <2>2
  <2>3. CASE k # m + 1
    <3>1. k <= m /\ m \in Depths /\ m + 1 # 1 /\ (m + 1) - 1 = m
      BY <2>1, <2>3, SizeType
    <3>2. A[m] \in S \cup {None}
      BY <3>1
    <3>3. A[m + 1] = IF A[m] = None THEN None ELSE parent[A[m]]
      BY <2>1, <3>1, AscentSteps DEF A
    <3> QED  BY <3>2, <3>3 DEF IsClosed
  <2> QED  BY <2>2, <2>3
<1>4. Nat \ {0} \subseteq T
  <2>1. \A m \in T \cap Nat : m + 1 \in T
    BY <1>3
  <2> HIDE DEF T
  <2> QED  BY <1>2, <2>1, Induction
<1>5. n \in T
  BY <1>4, SizeType
<1> QED  BY <1>5 DEF A

\* The path is the contexts that hold c.
LEMMA HoldersAreAscended ==
  ASSUME TreeTypeOK, Acyclic, NEW c \in DOMAIN parent
  PROVE  Holders(c) = Ascended(c)
<1> USE DEF Ascended
<1>1. Ascended(c) \subseteq DOMAIN parent
  BY AscentType
<1>2. IsClosed(c, Ascended(c))
  <2>1. c \in Ascended(c)
    BY DepthsStart
  <2>2. ASSUME NEW x \in Ascended(c), parent[x] # None PROVE parent[x] \in Ascended(c)
    <3>1. PICK n \in Depths : Ascent(c)[n] # None /\ x = Ascent(c)[n]
      OBVIOUS
    <3>2. n + 1 \in Depths /\ Ascent(c)[n + 1] = parent[x]
      BY <2>2, <3>1, AscentReachesRoot
    <3> QED  BY <2>2, <3>2
  <2> QED  BY <2>1, <2>2 DEF IsClosed
<1>3. ASSUME NEW x \in Holders(c) PROVE x \in Ascended(c)
  BY <1>1, <1>2 DEF Holders, IsClosed
<1>4. ASSUME NEW x \in Ascended(c) PROVE x \in Holders(c)
  <2>1. PICK n \in Depths : Ascent(c)[n] # None /\ x = Ascent(c)[n]
    OBVIOUS
  <2>2. ASSUME NEW S \in SUBSET DOMAIN parent, IsClosed(c, S) PROVE x \in S
    <3>1. 1 \in Depths /\ Ascent(c)[1] = c /\ 1 <= n
      BY DepthsStart, SizeType
    <3> QED  BY <2>1, <2>2, <3>1, HigherIsHolder
  <2> QED  BY <1>1, <2>2 DEF Holders, IsClosed
<1> QED  BY <1>3, <1>4

-----------------------------------------------------------------------------
(***************************************************************************)
(* The deployment that is found.                                           *)
(***************************************************************************)
OfTool(t, S) == {d \in DOMAIN deployments :
                    deployments[d].tool = t /\ deployments[d].context \in S}

\* The rows of the query are the tool's deployments in the contexts of the path, under
\* their depth, and its global ones.
LEMMA RankedRows ==
  ASSUME TreeTypeOK, NEW t, NEW c \in DOMAIN parent
  PROVE  /\ \A row \in Ranked(t, c) :
              \/ row.id \in OfTool(t, {None}) /\ row.rank = GlobalRank
              \/ /\ row.rank \in Depths /\ Ascent(c)[row.rank] # None
                 /\ row.id \in OfTool(t, {Ascent(c)[row.rank]})
         /\ \A d \in OfTool(t, {None}) : [id |-> d, rank |-> GlobalRank] \in Ranked(t, c)
         /\ \A n \in Depths : Ascent(c)[n] # None =>
              \A d \in OfTool(t, {Ascent(c)[n]}) : [id |-> d, rank |-> n] \in Ranked(t, c)
<1> DEFINE absent == [context |-> None, depth |-> 0]
           Joined == {q \in (DOMAIN deployments) \X (ContextPath(c) \cup {absent}) :
                         /\ deployments[q[1]].tool = t
                         /\ deployments[q[1]].context = q[2].context}
<1>1. Ranked(t, c) = {[id |-> p[1], rank |-> Rank(p[1], p[2])] : p \in Joined}
  BY DEF Ranked
<1>2. ASSUME NEW row \in Ranked(t, c)
      PROVE  \/ row.id \in OfTool(t, {None}) /\ row.rank = GlobalRank
             \/ /\ row.rank \in Depths /\ Ascent(c)[row.rank] # None
                /\ row.id \in OfTool(t, {Ascent(c)[row.rank]})
  <2>1. PICK d \in DOMAIN deployments, place \in ContextPath(c) \cup {absent} :
          /\ deployments[d].tool = t /\ deployments[d].context = place.context
          /\ row = [id |-> d, rank |-> Rank(d, place)]
    BY <1>1, <1>2
  <2>2. CASE place = absent
    BY <2>1, <2>2 DEF OfTool, Rank
  <2>3. CASE place \in ContextPath(c)
    <3>1. PICK n \in Depths : /\ Ascent(c)[n] # None
                              /\ place = [context |-> Ascent(c)[n], depth |-> n]
      BY <2>3 DEF ContextPath
    <3> QED  BY <2>1, <3>1 DEF OfTool, Rank
  <2> QED  BY <2>1, <2>2, <2>3
<1>3. ASSUME NEW d \in OfTool(t, {None}) PROVE [id |-> d, rank |-> GlobalRank] \in Ranked(t, c)
  <2>1. <<d, absent>> \in Joined /\ Rank(d, absent) = GlobalRank
    BY <1>3 DEF OfTool, Rank
  <2> DEFINE pair == <<d, absent>>
  <2>2. [id |-> pair[1], rank |-> Rank(pair[1], pair[2])] \in Ranked(t, c)
    BY <1>1, <2>1
  <2> QED  BY <2>1, <2>2
<1>4. ASSUME NEW n \in Depths, Ascent(c)[n] # None, NEW d \in OfTool(t, {Ascent(c)[n]})
      PROVE  [id |-> d, rank |-> n] \in Ranked(t, c)
  <2> DEFINE place == [context |-> Ascent(c)[n], depth |-> n]
             pair == <<d, place>>
  <2>1. place \in ContextPath(c)
    BY <1>4 DEF ContextPath
  <2>2. pair \in Joined /\ Rank(d, place) = n
    BY <1>4, <2>1 DEF OfTool, Rank
  <2>3. [id |-> pair[1], rank |-> Rank(pair[1], pair[2])] \in Ranked(t, c)
    BY <1>1, <2>2
  <2> QED  BY <2>2, <2>3
<1> QED  BY <1>2, <1>3, <1>4

\* A deployment is found when there is one above the context, or a global one.
LEMMA SomethingIsFound ==
  ASSUME TreeTypeOK, Acyclic, NEW t, NEW c \in DOMAIN parent,
         OfTool(t, Holders(c) \cup {None}) # {}
  PROVE  MostAppropriate(t, c) # {}
<1> DEFINE Ranks == {row.rank : row \in Ranked(t, c)}
<1>1. PICK d \in DOMAIN deployments :
        deployments[d].tool = t /\ deployments[d].context \in Ascended(c) \cup {None}
  BY HoldersAreAscended DEF OfTool
<1>2. Ranked(t, c) # {}
  <2>1. CASE deployments[d].context = None
    <3>1. d \in OfTool(t, {None})
      BY <1>1, <2>1 DEF OfTool
    <3> QED  BY <3>1, RankedRows
  <2>2. CASE deployments[d].context \in Ascended(c)
    <3>1. PICK n \in Depths : Ascent(c)[n] # None /\ deployments[d].context = Ascent(c)[n]
      BY <2>2 DEF Ascended
    <3>2. d \in OfTool(t, {Ascent(c)[n]})
      BY <1>1, <3>1 DEF OfTool
    <3> QED  BY <3>1, <3>2, RankedRows
  <2> QED  BY <1>1, <2>1, <2>2
<1>3. Ranks \in SUBSET Nat /\ Ranks # {}
  <2>1. \A row \in Ranked(t, c) : row.rank = GlobalRank \/ row.rank \in Depths
    BY RankedRows
  <2>2. GlobalRank \in Nat
    BY SMT DEF GlobalRank
  <2> QED  BY <1>2, <2>1, <2>2, SizeType
<1>4. PICK least \in Ranks : \A r \in Ranks : least <= r
  <2> HIDE DEF Ranks
  <2> QED  BY <1>3, LeastNatural
<1> QED  BY <1>4, SMTT(40) DEF MostAppropriate

\* The nearest deployment is found, as long as the path is shorter than the rank that
\* the query gives a global one.
LEMMA TheNearestIsFound ==
  ASSUME TreeTypeOK, Acyclic, Size < GlobalRank
  PROVE  NearestIsFound
<1> SUFFICES ASSUME NEW t \in Tools, NEW c \in DOMAIN parent
             PROVE  /\ OfTool(t, Holders(c)) = {} => MostAppropriate(t, c) = OfTool(t, {None})
                    /\ OfTool(t, Holders(c)) # {} =>
                         \E near \in Holders(c) :
                            /\ MostAppropriate(t, c) = OfTool(t, {near})
                            /\ \A x \in Holders(c) :
                                  OfTool(t, {x}) # {} => x \in Holders(near)
  BY DEF NearestIsFound, OfTool
<1> DEFINE A == Ascent(c)
           Rows == Ranked(t, c)
<1>1. GlobalRank \in Nat /\ Size \in Nat /\ Depths = 1 .. Size
  BY SizeType, SMT DEF GlobalRank
<1>2. Holders(c) = Ascended(c)
  BY HoldersAreAscended
<1>3. \A row \in Rows :
        \/ row.id \in OfTool(t, {None}) /\ row.rank = GlobalRank
        \/ row.rank \in Depths /\ A[row.rank] # None /\ row.id \in OfTool(t, {A[row.rank]})
  BY RankedRows
<1>4. \A d \in OfTool(t, {None}) : [id |-> d, rank |-> GlobalRank] \in Rows
  BY RankedRows
<1>5. \A n \in Depths : A[n] # None =>
        \A d \in OfTool(t, {A[n]}) : [id |-> d, rank |-> n] \in Rows
  BY RankedRows
<1>6. \A id : id \in MostAppropriate(t, c) <=>
                \E row \in Rows : row.id = id /\ \A r \in Rows : row.rank <= r.rank
  BY DEF MostAppropriate
<1>7. ASSUME OfTool(t, Holders(c)) = {} PROVE MostAppropriate(t, c) = OfTool(t, {None})
  <2>1. \A row \in Rows : row.id \in OfTool(t, {None}) /\ row.rank = GlobalRank
    <3> SUFFICES ASSUME NEW row \in Rows, row.rank \in Depths, A[row.rank] # None,
                        row.id \in OfTool(t, {A[row.rank]})
                 PROVE  FALSE
      BY <1>3
    <3> QED  BY <1>2, <1>7 DEF Ascended, OfTool
  <2> HIDE DEF Rows
  <2>2. \A d \in OfTool(t, {None}) : d \in MostAppropriate(t, c)
    <3> SUFFICES ASSUME NEW d \in OfTool(t, {None}) PROVE d \in MostAppropriate(t, c)
      OBVIOUS
    <3> DEFINE row == [id |-> d, rank |-> GlobalRank]
    <3>1. row \in Rows /\ row.id = d /\ row.rank = GlobalRank
      BY <1>4
    <3>2. \A r \in Rows : row.rank <= r.rank
      BY <1>1, <2>1, <3>1
    <3> QED  BY <1>6, <3>1, <3>2
  <2>3. \A d \in MostAppropriate(t, c) : d \in OfTool(t, {None})
    BY <1>6, <2>1
  <2> QED  BY <2>2, <2>3
<1>8. ASSUME OfTool(t, Holders(c)) # {}
      PROVE  \E near \in Holders(c) :
                /\ MostAppropriate(t, c) = OfTool(t, {near})
                /\ \A x \in Holders(c) : OfTool(t, {x}) # {} => x \in Holders(near)
  <2> DEFINE K == {n \in Depths : A[n] # None /\ OfTool(t, {A[n]}) # {}}
  <2>1. K \in SUBSET Nat /\ K # {}
    <3>1. PICK d \in OfTool(t, Ascended(c)) : TRUE
      BY <1>2, <1>8
    <3>2. PICK n \in Depths : A[n] # None /\ deployments[d].context = A[n]
      BY <3>1 DEF OfTool, Ascended
    <3>3. d \in OfTool(t, {A[n]})
      BY <3>1, <3>2 DEF OfTool
    <3>4. n \in K
      BY <3>2, <3>3
    <3>5. \A m \in K : m \in Nat
      BY <1>1
    <3> HIDE DEF K
    <3> QED  BY <3>4, <3>5
  <2>2. PICK k \in K : \A n \in K : k <= n
    <3> HIDE DEF K
    <3> QED  BY <2>1, LeastNatural
  <2>3. A[k] \in Holders(c)
    BY <1>2 DEF Ascended
  <2>4. k \in Depths /\ k \in Nat /\ k < GlobalRank /\ A[k] # None
    BY <1>1
  <2>5. ASSUME NEW row \in Rows
        PROVE  /\ k <= row.rank
               /\ row.rank = k => row.id \in OfTool(t, {A[k]})
    <3>1. CASE row.id \in OfTool(t, {None}) /\ row.rank = GlobalRank
      BY <1>1, <2>4, <3>1
    <3>2. CASE row.rank \in Depths /\ A[row.rank] # None /\ row.id \in OfTool(t, {A[row.rank]})
      <4>1. row.rank \in K
        BY <3>2
      <4> QED  BY <2>2, <3>2, <4>1
    <3> QED  BY <1>3, <3>1, <3>2
  <2>6. ASSUME NEW d \in OfTool(t, {A[k]})
        PROVE  [id |-> d, rank |-> k] \in Rows /\ d \in MostAppropriate(t, c)
    <3> DEFINE row == [id |-> d, rank |-> k]
    <3>1. row \in Rows /\ row.id = d /\ row.rank = k
      BY <1>5, <2>4, <2>6
    <3> HIDE DEF Rows
    <3>2. \A r \in Rows : row.rank <= r.rank
      BY <2>5, <3>1
    <3> QED  BY <1>6, <3>1, <3>2
  <2>7. ASSUME NEW d \in MostAppropriate(t, c) PROVE d \in OfTool(t, {A[k]})
    <3>1. PICK row \in Rows : row.id = d /\ \A r \in Rows : row.rank <= r.rank
      BY <1>6, <2>7
    <3>2. PICK e \in OfTool(t, {A[k]}) : TRUE
      OBVIOUS
    <3> DEFINE best == [id |-> e, rank |-> k]
    <3>3. best \in Rows /\ best.rank = k
      BY <2>6
    <3> HIDE DEF Rows, best
    <3>4. row.rank <= k /\ k <= row.rank /\ (row.rank = k => row.id \in OfTool(t, {A[k]}))
      BY <2>5, <3>1, <3>3
    <3>5. row.rank \in Nat
      <4>1. row.rank = GlobalRank \/ row.rank \in Depths
        BY <1>3, <3>1
      <4> QED  BY <1>1, <4>1
    <3>6. row.rank = k
      BY <2>4, <3>4, <3>5
    <3> QED  BY <3>1, <3>4, <3>6
  <2>8. ASSUME NEW x \in Holders(c), OfTool(t, {x}) # {} PROVE x \in Holders(A[k])
    <3>1. PICK m \in Depths : A[m] # None /\ x = A[m]
      BY <1>2 DEF Ascended
    <3>2. k <= m
      BY <2>2, <2>8, <3>1
    <3>3. ASSUME NEW S \in SUBSET DOMAIN parent, IsClosed(A[k], S) PROVE x \in S
      BY <2>4, <3>1, <3>2, <3>3, HigherIsHolder
    <3>4. x \in DOMAIN parent
      BY <2>8 DEF Holders
    <3> QED  BY <3>3, <3>4 DEF Holders, IsClosed
  <2>9. MostAppropriate(t, c) = OfTool(t, {A[k]})
    BY <2>6, <2>7
  <2> QED  BY <2>3, <2>8, <2>9
<1> QED  BY <1>7, <1>8

-----------------------------------------------------------------------------
(***************************************************************************)
(* The line item of a claim.                                               *)
(***************************************************************************)
ItemsOf(l) == {i \in DOMAIN items : items[i] = l}

\* Two rows of the query, or all there are, can always be had, and tell one from more.
LEMMA TwoRowsTell ==
  ASSUME NEW l, IsFiniteSet(DOMAIN items)
  PROVE  LET rows == CHOOSE S \in FindManyByResourceLink(l, 2) : TRUE
         IN  /\ Cardinality(rows) = 1 => rows = ItemsOf(l)
             /\ \A i : ItemsOf(l) = {i} => Cardinality(rows) = 1
<1> DEFINE of == ItemsOf(l)
           wanted == IF Cardinality(of) < 2 THEN Cardinality(of) ELSE 2
           Choices == {S \in SUBSET of : Cardinality(S) = wanted}
           rows == CHOOSE S \in Choices : TRUE
<1>1. FindManyByResourceLink(l, 2) = Choices
  BY DEF FindManyByResourceLink, ItemsOf
<1>2. IsFiniteSet(of) /\ Cardinality(of) \in Nat
  <2>1. of \in SUBSET DOMAIN items
    BY DEF ItemsOf
  <2> HIDE DEF of
  <2> QED  BY <2>1, FS_Subset, FS_CardinalityType
<1> HIDE DEF of
<1>3. \E S \in SUBSET of : Cardinality(S) = wanted
  <2>1. CASE Cardinality(of) < 2
    BY <2>1
  <2>2. CASE ~ (Cardinality(of) < 2)
    <3>1. PICK a \in of : TRUE
      BY <1>2, <2>2, FS_EmptySet
    <3>2. IsFiniteSet(of \ {a}) /\ Cardinality(of \ {a}) = Cardinality(of) - 1
      BY <1>2, <3>1, FS_RemoveElement
    <3>3. PICK b \in of \ {a} : TRUE
      BY <1>2, <2>2, <3>2, FS_EmptySet
    <3>4. IsFiniteSet({a}) /\ Cardinality({a}) = 1
      BY FS_Singleton
    <3>5. Cardinality({a} \cup {b}) = 2
      <4>1. Cardinality({a} \cup {b}) = Cardinality({a}) + 1
        BY <3>3, <3>4, FS_AddElement
      <4> QED  BY <3>4, <4>1
    <3>6. {a} \cup {b} \in SUBSET of
      BY <3>1, <3>3
    <3> QED  BY <2>2, <3>5, <3>6
  <2> QED  BY <2>1, <2>2
<1>4. rows \in SUBSET of /\ Cardinality(rows) = wanted
  BY <1>3
<1> HIDE DEF rows
<1>5. ASSUME Cardinality(rows) = 1 PROVE rows = of
  <2>1. wanted = 1 /\ Cardinality(of) = 1
    BY <1>2, <1>4, <1>5
  <2>2. Cardinality(rows) = Cardinality(of)
    BY <1>5, <2>1
  <2> QED  BY <1>2, <1>4, <2>2, FS_Subset
<1>6. ASSUME NEW i, of = {i} PROVE Cardinality(rows) = 1
  <2>1. Cardinality(of) = 1
    BY <1>6, FS_Singleton
  <2> QED  BY <1>4, <2>1
<1> QED  BY <1>1, <1>5, <1>6 DEF rows, of

LEMMA TheOnlyItemIsNamed ==
  ASSUME NEW l, IsFiniteSet(DOMAIN items), None \notin DOMAIN items
  PROVE  /\ TryGetLineItem(l) \in DOMAIN items \cup {None}
         /\ \A i : i # None => (TryGetLineItem(l) = i <=> ItemsOf(l) = {i})
<1> DEFINE rows == CHOOSE S \in FindManyByResourceLink(l, 2) : TRUE
<1>1. /\ Cardinality(rows) = 1 => rows = ItemsOf(l)
      /\ \A i : ItemsOf(l) = {i} => Cardinality(rows) = 1
  BY TwoRowsTell
<1>2. TryGetLineItem(l) = IF Cardinality(rows) = 1 THEN CHOOSE i \in rows : TRUE ELSE None
  BY DEF TryGetLineItem
<1> HIDE DEF rows
<1>3. CASE Cardinality(rows) = 1
  <2>1. IsFiniteSet(ItemsOf(l))
    <3>1. ItemsOf(l) \in SUBSET DOMAIN items
      BY DEF ItemsOf
    <3> QED  BY <3>1, FS_Subset
  <2>2. PICK i : ItemsOf(l) = {i}
    BY <1>1, <1>3, <2>1, FS_Singleton
  <2>3. TryGetLineItem(l) = i /\ i \in DOMAIN items
    BY <1>1, <1>2, <1>3, <2>2 DEF ItemsOf
  <2> QED  BY <2>2, <2>3
<1>4. CASE Cardinality(rows) # 1
  BY <1>1, <1>2, <1>4
<1> QED  BY <1>3, <1>4

-----------------------------------------------------------------------------
(***************************************************************************)
(* The inductive invariant.                                                *)
(***************************************************************************)
\* Whether what is deployed in a context of S, or globally, is deployed in the context.
Reaches(d, S) == deployments[d].context \in S \cup {None}

\* The link of an external assignment is in a context, and its deployment reaches it; no
\* other link has a context.
LinkStands(l) ==
    \E c \in DOMAIN parent :
        links[l].context = c /\ Reaches(links[l].deployment, Holders(c))

LinksInv ==
    /\ \A l \in DOMAIN links : links[l].context # None => l \in assigned
    /\ \A l \in assigned : LinkStands(l)

\* What a claim says of its link stays so: neither the link of an external assignment
\* nor the deployment it is in ever goes.
ClaimStands(claim) ==
    /\ claim.link \in assigned
    /\ claim.tool = ToolOf(claim.link) /\ claim.context = links[claim.link].context
    /\ claim.lineitems = CanSeeContainerEndpoint(ResolveScopes(claim.tool))

ClaimsInv == \A claim \in claims : ClaimStands(claim)

AgsInv ==
    /\ TypeOK /\ Acyclic
    /\ IsFiniteSet(DOMAIN items)
    /\ LinksInv /\ ClaimsInv

LEMMA InitAgsInv == Init => AgsInv
<1> SUFFICES ASSUME Init PROVE AgsInv
  OBVIOUS
<1> USE DEF Init, TreeInit
<1>1. TypeOK
  BY DEF TypeOK, TreeTypeOK
<1>2. Acyclic
  <2> DEFINE height == [c \in Contexts |-> 0]
  <2>1. height \in [Contexts -> Nat]
    OBVIOUS
  <2> QED  BY <2>1 DEF Acyclic
<1>3. IsFiniteSet(DOMAIN items)
  BY FS_EmptySet
<1>4. LinksInv /\ ClaimsInv
  BY DEF LinksInv, ClaimsInv
<1> QED  BY <1>1, <1>2, <1>3, <1>4 DEF AgsInv

\* A context that is added is above none.
LEMMA NewContextHoldsNone ==
  ASSUME TreeTypeOK, Acyclic, NEW n \in Contexts, CreateContext(n)
  PROVE  /\ TreeTypeOK' /\ Acyclic'
         /\ \A c \in DOMAIN parent : Holders(c) \subseteq Holders(c)'
<1>1. PICK p \in Referable : parent' = [x \in DOMAIN parent \cup {n} |->
                                          IF x = n THEN p ELSE parent[x]]
  BY DEF CreateContext
<1>2. n \notin DOMAIN parent /\ deployments' = deployments /\ p \in DOMAIN parent \cup {None}
  BY DEF CreateContext, Referable
<1>3. /\ DOMAIN parent' = DOMAIN parent \cup {n}
      /\ parent'[n] = p /\ \A x \in DOMAIN parent : parent'[x] = parent[x]
  BY <1>1, <1>2
<1>4. TreeTypeOK'
  BY <1>2, <1>3 DEF TreeTypeOK
<1>5. Acyclic'
  <2>1. PICK height \in [Contexts -> Nat] : Descends(height)
    BY DEF Acyclic, Descends
  <2> DEFINE above == IF p = None THEN 0 ELSE height[p]
             taller == [height EXCEPT ![n] = above + 1]
  <2>2. above \in Nat /\ taller \in [Contexts -> Nat]
    BY <1>2, <2>1 DEF TreeTypeOK
  <2>3. taller[n] = above + 1 /\ \A x \in DOMAIN parent : taller[x] = height[x]
    BY <1>2, <2>1 DEF TreeTypeOK
  <2>4. ASSUME NEW c \in DOMAIN parent', parent'[c] # None
        PROVE  taller[parent'[c]] < taller[c]
    <3>1. CASE c = n
      <4>1. p \in DOMAIN parent /\ taller[p] = above /\ parent'[c] = p
        BY <1>2, <1>3, <2>3, <2>4, <3>1
      <4> QED  BY <2>2, <2>3, <3>1, <4>1
    <3>2. CASE c # n
      <4>1. c \in DOMAIN parent /\ parent'[c] = parent[c] /\ parent[c] \in DOMAIN parent
        BY <1>3, <2>4, <3>2 DEF TreeTypeOK
      <4> QED  BY <2>1, <2>3, <2>4, <4>1 DEF Descends
    <3> QED  BY <3>1, <3>2
  <2> HIDE DEF taller
  <2> QED  BY <2>2, <2>4 DEF Acyclic
<1>6. ASSUME NEW c \in DOMAIN parent, NEW x \in Holders(c) PROVE x \in Holders(c)'
  <2>1. x \in DOMAIN parent /\ \A S \in SUBSET DOMAIN parent : IsClosed(c, S) => x \in S
    BY <1>6 DEF Holders, IsClosed
  <2>2. ASSUME NEW S \in SUBSET DOMAIN parent',
               c \in S, \A y \in S : parent'[y] \in S \cup {None}
        PROVE  x \in S
    <3> DEFINE T == S \cap DOMAIN parent
    <3>1. IsClosed(c, T)
      BY <1>3, <2>2 DEF IsClosed, TreeTypeOK
    <3> QED  BY <2>1, <3>1
  <2> QED  BY <1>3, <2>1, <2>2 DEF Holders
<1> QED  BY <1>4, <1>5, <1>6

\* As long as the links of external assignments, their deployments and what is above
\* their contexts stay, so does all that was said of them.
LEMMA Standing ==
  ASSUME AgsInv,
         \A c \in DOMAIN parent : c \in DOMAIN parent' /\ Holders(c) \subseteq Holders(c)',
         \A l \in assigned :
            /\ l \in assigned' /\ links'[l] = links[l]
            /\ deployments'[links[l].deployment] = deployments[links[l].deployment]
  PROVE  /\ \A l \in assigned : LinkStands(l)'
         /\ \A claim \in claims : ClaimStands(claim)'
<1>1. ASSUME NEW l \in assigned PROVE LinkStands(l)'
  <2>1. LinkStands(l)
    BY DEF AgsInv, LinksInv
  <2>2. PICK c \in DOMAIN parent :
          links[l].context = c /\ Reaches(links[l].deployment, Holders(c))
    BY <2>1 DEF LinkStands
  <2>3. c \in DOMAIN parent' /\ Holders(c) \subseteq Holders(c)' /\ links'[l] = links[l]
    OBVIOUS
  <2> QED  BY <2>2, <2>3 DEF LinkStands, Reaches
<1>2. ASSUME NEW claim \in claims PROVE ClaimStands(claim)'
  <2>1. ClaimStands(claim)
    BY DEF AgsInv, ClaimsInv
  <2>2. claim.link \in assigned
    BY <2>1 DEF ClaimStands
  <2>3. claim.link \in assigned' /\ links'[claim.link] = links[claim.link]
    BY <2>2
  <2>4. ToolOf(claim.link)' = ToolOf(claim.link)
    BY <2>2, <2>3 DEF ToolOf
  <2> QED  BY <2>1, <2>3, <2>4 DEF ClaimStands, CanSeeContainerEndpoint, ResolveScopes
<1> QED  BY <1>1, <1>2

\* Only contexts change what is above a context.
LEMMA SameHolders ==
  ASSUME parent' = parent
  PROVE  /\ \A c \in DOMAIN parent : c \in DOMAIN parent' /\ Holders(c) \subseteq Holders(c)'
         /\ Acyclic => Acyclic'
  BY DEF Holders, Acyclic

LEMMA ContextStep ==
  ASSUME AgsInv, NEW c \in Contexts, CreateContext(c), UNCHANGED <<links, assigned, items, claims>>
  PROVE  AgsInv'
<1> USE DEF AgsInv
<1>1. /\ TreeTypeOK' /\ Acyclic' /\ deployments' = deployments
      /\ \A x \in DOMAIN parent : x \in DOMAIN parent' /\ Holders(x) \subseteq Holders(x)'
  <2>1. TreeTypeOK
    BY DEF TypeOK
  <2>2. deployments' = deployments /\ DOMAIN parent \subseteq DOMAIN parent'
    BY DEF CreateContext
  <2> QED  BY <2>1, <2>2, NewContextHoldsNone
<1>2. /\ \A l \in assigned : LinkStands(l)'
      /\ \A claim \in claims : ClaimStands(claim)'
  BY <1>1, Standing
<1>3. TypeOK'
  BY <1>1 DEF TypeOK
<1> QED  BY <1>1, <1>2, <1>3 DEF LinksInv, ClaimsInv

LEMMA SaveDeploymentStep ==
  ASSUME AgsInv, NEW d \in Deployments, NEW t \in Tools, SaveDeployment(d, t),
         UNCHANGED <<links, assigned, items, claims>>
  PROVE  AgsInv'
<1> USE DEF AgsInv
<1>1. PICK c \in Referable :
        deployments' = [x \in DOMAIN deployments \cup {d} |->
                           IF x = d THEN [tool |-> t, context |-> c] ELSE deployments[x]]
  BY DEF SaveDeployment
<1>2. d \notin DOMAIN deployments /\ parent' = parent
  BY DEF SaveDeployment
<1>3. /\ DOMAIN deployments' = DOMAIN deployments \cup {d}
      /\ \A x \in DOMAIN deployments : deployments'[x] = deployments[x]
      /\ deployments'[d] \in Deployment
  <2>1. c \in Contexts \cup {None}
    BY DEF Referable, TypeOK, TreeTypeOK
  <2> QED  BY <1>1, <1>2, <2>1 DEF Deployment
<1>4. TypeOK'
  BY <1>2, <1>3 DEF TypeOK, TreeTypeOK
<1>5. \A l \in assigned : links[l].deployment \in DOMAIN deployments
  BY DEF TypeOK
<1>6. /\ \A l \in assigned : LinkStands(l)'
      /\ \A claim \in claims : ClaimStands(claim)'
  BY <1>2, <1>3, <1>5, SameHolders, Standing
<1> QED  BY <1>2, <1>4, <1>6, SameHolders DEF LinksInv, ClaimsInv

LEMMA CreateLinkStep ==
  ASSUME AgsInv, NEW l \in Links, NEW d \in Deployments, CreateLink(l, d)
  PROVE  AgsInv'
<1> USE DEF AgsInv
<1>1. /\ l \notin DOMAIN links /\ d \in DOMAIN deployments
      /\ links' = Extend(links, l, [deployment |-> d, context |-> None])
      /\ UNCHANGED <<parent, deployments, assigned, items, claims>>
  BY DEF CreateLink, treeVars
<1>2. /\ DOMAIN links' = DOMAIN links \cup {l}
      /\ \A k \in DOMAIN links : links'[k] = links[k]
      /\ links'[l].deployment = d /\ links'[l].context = None
  BY <1>1 DEF Extend
<1>3. TypeOK'
  BY <1>1, <1>2 DEF TypeOK, TreeTypeOK
<1>4. assigned \subseteq DOMAIN links
  BY DEF TypeOK
<1>5. /\ \A k \in assigned : LinkStands(k)'
      /\ \A claim \in claims : ClaimStands(claim)'
  BY <1>1, <1>2, <1>4, SameHolders, Standing
<1>6. LinksInv'
  BY <1>1, <1>2, <1>5 DEF LinksInv
<1> QED  BY <1>1, <1>3, <1>5, <1>6, SameHolders DEF ClaimsInv

\* What is found for a context is a deployment of the tool that reaches it.
LEMMA FoundReaches ==
  ASSUME TreeTypeOK, Acyclic, NEW t, NEW c \in DOMAIN parent, NEW d \in MostAppropriate(t, c)
  PROVE  d \in DOMAIN deployments /\ deployments[d].tool = t /\ Reaches(d, Holders(c))
<1>1. PICK row \in Ranked(t, c) : row.id = d
  BY DEF MostAppropriate
<1>2. CASE d \in OfTool(t, {None})
  BY <1>2 DEF OfTool, Reaches
<1>3. CASE /\ row.rank \in Depths /\ Ascent(c)[row.rank] # None
           /\ d \in OfTool(t, {Ascent(c)[row.rank]})
  BY <1>3, HoldersAreAscended DEF OfTool, Reaches, Ascended
<1> QED  BY <1>1, <1>2, <1>3, RankedRows

LEMMA CreateExternalAssignmentStep ==
  ASSUME AgsInv, NEW l \in Links, NEW t \in Tools, NEW c \in Contexts,
         CreateExternalAssignment(l, t, c)
  PROVE  AgsInv'
<1> USE DEF AgsInv
<1>1. PICK d \in MostAppropriate(t, c) :
        links' = Extend(links, l, [deployment |-> d, context |-> c])
  BY DEF CreateExternalAssignment
<1>2. /\ l \notin DOMAIN links /\ c \in DOMAIN parent
      /\ assigned' = assigned \cup {l}
      /\ UNCHANGED <<parent, deployments, items, claims>>
  BY DEF CreateExternalAssignment, treeVars
<1>3. /\ DOMAIN links' = DOMAIN links \cup {l}
      /\ \A k \in DOMAIN links : links'[k] = links[k]
      /\ links'[l].deployment = d /\ links'[l].context = c
  BY <1>1, <1>2 DEF Extend
<1>4. d \in DOMAIN deployments /\ Reaches(d, Holders(c))
  <2>1. TreeTypeOK
    BY DEF TypeOK
  <2> QED  BY <1>2, <2>1, FoundReaches
<1>5. TypeOK'
  BY <1>2, <1>3, <1>4 DEF TypeOK, TreeTypeOK
<1>6. assigned \subseteq DOMAIN links
  BY DEF TypeOK
<1>7. /\ \A k \in assigned : LinkStands(k)'
      /\ \A claim \in claims : ClaimStands(claim)'
  BY <1>2, <1>3, <1>6, SameHolders, Standing
<1>8. LinkStands(l)'
  <2>1. Holders(c)' = Holders(c)
    BY <1>2 DEF Holders
  <2> QED  BY <1>2, <1>3, <1>4, <2>1 DEF LinkStands, Reaches
<1>9. LinksInv'
  BY <1>2, <1>3, <1>7, <1>8 DEF LinksInv
<1> QED  BY <1>2, <1>5, <1>7, <1>9, SameHolders DEF ClaimsInv

LEMMA CreateLineItemStep ==
  ASSUME AgsInv, NEW l \in Links, NEW i \in Items, CreateLineItem(i, l)
  PROVE  AgsInv'
<1> USE DEF AgsInv
<1>1. /\ l \in assigned /\ i \notin DOMAIN items
      /\ items' = Extend(items, i, l)
      /\ UNCHANGED <<parent, deployments, links, assigned, claims>>
  BY DEF CreateLineItem, treeVars
<1>2. /\ DOMAIN items' = DOMAIN items \cup {i}
      /\ items'[i] = l /\ \A k \in DOMAIN items : items'[k] = items[k]
  BY <1>1 DEF Extend
<1>3. IsFiniteSet(DOMAIN items')
  BY <1>2, FS_AddElement
<1>4. TypeOK'
  BY <1>1, <1>2 DEF TypeOK, TreeTypeOK
<1>5. /\ \A k \in assigned : LinkStands(k)'
      /\ \A claim \in claims : ClaimStands(claim)'
  BY <1>1, SameHolders, Standing
<1> QED  BY <1>1, <1>3, <1>4, <1>5, SameHolders DEF LinksInv, ClaimsInv

\* Links and a deployment that go take no external assignment along.
LEMMA Deletion ==
  ASSUME AgsInv, NEW ls \in SUBSET DOMAIN links, DeleteLinks(ls),
         UNCHANGED <<parent, items, claims>>,
         DOMAIN deployments' \subseteq DOMAIN deployments,
         \A d \in DOMAIN deployments' : deployments'[d] = deployments[d],
         \A l \in DOMAIN links \ ls : links[l].deployment \in DOMAIN deployments'
  PROVE  AgsInv'
<1> USE DEF AgsInv
<1>1. /\ assigned' = assigned /\ assigned \subseteq DOMAIN links \ ls
      /\ DOMAIN links' = DOMAIN links \ ls
      /\ \A l \in DOMAIN links \ ls : links'[l] = links[l]
  BY DEF DeleteLinks, MayBeDeleted, Restrict, TypeOK
<1>2. TypeOK'
  BY <1>1 DEF TypeOK, TreeTypeOK
<1>3. /\ \A l \in assigned : LinkStands(l)'
      /\ \A claim \in claims : ClaimStands(claim)'
  BY <1>1, SameHolders, Standing
<1> QED  BY <1>1, <1>2, <1>3, SameHolders DEF LinksInv, ClaimsInv

LEMMA DeleteLinkStep ==
  ASSUME AgsInv, NEW l \in DOMAIN links, DeleteLink(l)
  PROVE  AgsInv'
<1>1. \A k \in DOMAIN links : links[k].deployment \in DOMAIN deployments
  BY DEF AgsInv, TypeOK
<1> QED  BY <1>1, Deletion DEF DeleteLink, treeVars

LEMMA RemoveDeploymentStep ==
  ASSUME AgsInv, NEW d \in DOMAIN deployments, RemoveDeployment(d)
  PROVE  AgsInv'
<1> DEFINE ls == {l \in DOMAIN links : links[l].deployment = d}
<1>1. /\ ls \in SUBSET DOMAIN links /\ DeleteLinks(ls)
      /\ UNCHANGED <<parent, items, claims>>
  BY DEF RemoveDeployment, DeleteDeployment
<1>2. /\ DOMAIN deployments' = DOMAIN deployments \ {d}
      /\ \A e \in DOMAIN deployments' : deployments'[e] = deployments[e]
  BY DEF RemoveDeployment, DeleteDeployment, Restrict
<1>3. \A l \in DOMAIN links \ ls : links[l].deployment \in DOMAIN deployments'
  BY <1>2 DEF AgsInv, TypeOK
<1> HIDE DEF ls
<1> QED  BY <1>1, <1>2, <1>3, Deletion

LEMMA LaunchStep ==
  ASSUME AgsInv, NEW l \in DOMAIN links, Launch(l)
  PROVE  AgsInv'
<1> USE DEF AgsInv
<1>1. claims' = claims \cup CreateClaim(l)
  BY DEF Launch
<1>2. UNCHANGED <<parent, deployments, links, assigned, items>>
  BY DEF Launch, tables, treeVars
<1>3. /\ \A k \in assigned : LinkStands(k)'
      /\ \A claim \in claims : ClaimStands(claim)'
  BY <1>2, SameHolders, Standing
<1>4. ASSUME NEW claim \in CreateClaim(l) PROVE claim \in Claim /\ ClaimStands(claim)'
  <2> DEFINE t == ToolOf(l)
             scopes == ResolveScopes(t)
             shown == CanSeeContainerEndpoint(scopes)
             item == TryGetLineItem(l)
  <2>1. /\ links[l].context # None
        /\ claim = [tool |-> t, link |-> l, context |-> links[l].context, scopes |-> scopes,
                    lineitem |-> item, lineitems |-> shown]
    BY <1>4 DEF CreateClaim
  <2>2. l \in assigned /\ l \in Links /\ links[l].context \in Contexts
    BY <2>1 DEF LinksInv, TypeOK, TreeTypeOK
  <2>3. t \in Tools
    BY DEF TypeOK, TreeTypeOK, ToolOf, Deployment
  <2>4. item \in Items \cup {None}
    <3>1. DOMAIN items \subseteq Items /\ None \notin DOMAIN items
      BY ClaimAssumption DEF TypeOK
    <3> QED  BY <3>1, TheOnlyItemIsNamed
  <2>5. scopes \in SUBSET AgsScopes /\ shown \in BOOLEAN
    BY DEF ResolveScopes, CanSeeContainerEndpoint
  <2> HIDE DEF t, scopes, shown, item
  <2>6. claim \in Claim
    BY <2>1, <2>2, <2>3, <2>4, <2>5 DEF Claim
  <2>7. /\ claim.link = l /\ claim.tool = t /\ claim.context = links[l].context
        /\ claim.lineitems = shown
    BY <2>1
  <2>8. ToolOf(l)' = t /\ shown = CanSeeContainerEndpoint(ResolveScopes(t))
    BY <1>2 DEF ToolOf, t, shown, scopes
  <2>9. ClaimStands(claim)'
    BY <1>2, <2>2, <2>7, <2>8 DEF ClaimStands
  <2> QED  BY <2>6, <2>9
<1>5. TypeOK'
  BY <1>1, <1>2, <1>4 DEF TypeOK, TreeTypeOK
<1>6. ClaimsInv'
  BY <1>1, <1>3, <1>4 DEF ClaimsInv
<1> QED  BY <1>2, <1>3, <1>5, <1>6, SameHolders DEF LinksInv

LEMMA AgsStep == AgsInv /\ [Next]_claimVars => AgsInv'
<1> SUFFICES ASSUME AgsInv, [Next]_claimVars PROVE AgsInv'
  OBVIOUS
<1>1. CASE \E c \in Contexts : CreateContext(c) /\ UNCHANGED <<links, assigned, items, claims>>
  BY <1>1, ContextStep
<1>2. CASE \E d \in Deployments, t \in Tools :
              SaveDeployment(d, t) /\ UNCHANGED <<links, assigned, items, claims>>
  BY <1>2, SaveDeploymentStep
<1>3. CASE \E l \in Links : \E d \in Deployments : CreateLink(l, d)
  BY <1>3, CreateLinkStep
<1>4. CASE \E l \in Links : \E t \in Tools, c \in Contexts : CreateExternalAssignment(l, t, c)
  BY <1>4, CreateExternalAssignmentStep
<1>5. CASE \E l \in Links : \E i \in Items : CreateLineItem(i, l)
  BY <1>5, CreateLineItemStep
<1>6. CASE \E l \in DOMAIN links : DeleteLink(l)
  BY <1>6, DeleteLinkStep
<1>7. CASE \E l \in DOMAIN links : Launch(l)
  BY <1>7, LaunchStep
<1>8. CASE \E d \in DOMAIN deployments : RemoveDeployment(d)
  BY <1>8, RemoveDeploymentStep
<1>9. CASE UNCHANGED claimVars
  <2>1. UNCHANGED <<parent, deployments, links, assigned, items, claims>>
    BY <1>9 DEF claimVars, tables, treeVars
  <2>2. /\ \A l \in assigned : LinkStands(l)'
        /\ \A claim \in claims : ClaimStands(claim)'
    BY <2>1, SameHolders, Standing
  <2> QED  BY <2>1, <2>2, SameHolders DEF AgsInv, TypeOK, TreeTypeOK, LinksInv, ClaimsInv
<1> QED
  BY <1>1, <1>2, <1>3, <1>4, <1>5, <1>6, <1>7, <1>8, <1>9 DEF Next

LEMMA AgsIsInv == Spec => []AgsInv
  BY InitAgsInv, AgsStep, PTL DEF Spec

-----------------------------------------------------------------------------
(***************************************************************************)
(* The theorems.                                                           *)
(***************************************************************************)
\* Contexts, deployments, links, line items and claims refer to what there is.
THEOREM AgsTypeOK == Spec => []TypeOK
<1>1. AgsInv => TypeOK
  BY DEF AgsInv
<1> QED  BY <1>1, AgsIsInv, PTL

\* The query finds the deployment that is nearest above the context, whatever the
\* hierarchy and whatever was deployed and removed, while no path is as long as the rank
\* that the query gives global deployments (999999): at that depth a global one would be
\* as good or better.
THEOREM TheQueryFindsTheNearest ==
  ASSUME Cardinality(Contexts) < GlobalRank
  PROVE  Spec => []NearestIsFound
<1>1. AgsInv => NearestIsFound
  BY TheNearestIsFound DEF AgsInv, TypeOK, Size
<1> QED  BY <1>1, AgsIsInv, PTL

\* A container that a claim shows is served to the tool whenever it comes for it.
THEOREM ContainersOfClaimsAreServed == Spec => []ClaimedContainersAreServed
<1>1. AgsInv => ClaimedContainersAreServed
  <2> SUFFICES ASSUME AgsInv, NEW claim \in claims, claim.lineitems
               PROVE  Admitted(claim.tool, claim.context, "list")
    BY DEF ClaimedContainersAreServed
  <2> USE DEF AgsInv
  <2>1. ClaimStands(claim) /\ LinkStands(claim.link)
    BY DEF ClaimsInv, ClaimStands, LinksInv
  <2>2. PICK c \in DOMAIN parent :
          claim.context = c /\ Reaches(links[claim.link].deployment, Holders(c))
    BY <2>1 DEF LinkStands, ClaimStands
  <2>3. links[claim.link].deployment \in OfTool(claim.tool, Holders(c) \cup {None})
    BY <2>1, <2>2 DEF ClaimStands, TypeOK, OfTool, Reaches, ToolOf
  <2>4. TreeTypeOK /\ c # None
    BY TreeAssumption DEF TypeOK, TreeTypeOK
  <2>5. MostAppropriate(claim.tool, c) # {}
    BY <2>3, <2>4, SomethingIsFound
  <2>6. EnsureToolIsDeployedInContext(claim.tool, c)
    BY <2>4, <2>5 DEF EnsureToolIsDeployedInContext, FindDeploymentInContextTreeOrGlobal
  <2>7. EnsureHasAnyScope(claim.tool, RequiredScopes("list"))
    BY <2>1 DEF ClaimStands, CanSeeContainerEndpoint, ResolveScopes, EnsureHasAnyScope,
                RequiredScopes
  <2> QED  BY <2>2, <2>6, <2>7 DEF Admitted
<1> QED  BY <1>1, AgsIsInv, PTL

\* A tool that would be admitted to the container of a link is told where it is.
THEOREM ToolsThatMayListAreTold == Spec => []AdmittedToolsAreTold
<1>1. AgsInv => AdmittedToolsAreTold
  <2> SUFFICES ASSUME AgsInv, NEW l \in assigned,
                      EnsureHasAnyScope(ToolOf(l), RequiredScopes("list"))
               PROVE  \E claim \in CreateClaim(l) : claim.lineitems
    BY DEF AdmittedToolsAreTold, Admitted
  <2> DEFINE t == ToolOf(l)
             scopes == ResolveScopes(t)
             told == [tool |-> t, link |-> l, context |-> links[l].context, scopes |-> scopes,
                      lineitem |-> TryGetLineItem(l),
                      lineitems |-> CanSeeContainerEndpoint(scopes)]
  <2>1. links[l].context # None
    BY TreeAssumption DEF AgsInv, LinksInv, LinkStands, TypeOK, TreeTypeOK
  <2>2. scopes \cap {"lineitem", "lineitem.readonly"} # {}
    BY DEF EnsureHasAnyScope, RequiredScopes, ResolveScopes, AgsScopes
  <2>3. ToolHasAccessToAgs(t, scopes) /\ CanSeeContainerEndpoint(scopes)
    BY <2>2 DEF ToolHasAccessToAgs, EnsureHasAnyScope, ResolveScopes, CanSeeContainerEndpoint
  <2>4. told \in CreateClaim(l)
    BY <2>1, <2>3 DEF CreateClaim
  <2> QED  BY <2>3, <2>4
<1> QED  BY <1>1, AgsIsInv, PTL

\* Whatever a new claim says of the link's only line item was so when it was made.
THEOREM ClaimsNameNoOtherItem == Spec => ClaimsNameTheOnlyItem
<1> DEFINE Named == \A claim \in claims' \ claims, i \in Items :
                       claim.lineitem = i <=> {j \in DOMAIN items : items[j] = claim.link} = {i}
<1>1. ASSUME AgsInv, [Next]_claimVars PROVE Named
  <2> SUFFICES ASSUME NEW claim \in claims' \ claims, NEW i \in Items
               PROVE  claim.lineitem = i <=> ItemsOf(claim.link) = {i}
    BY DEF ItemsOf
  <2>1. PICK l \in DOMAIN links : Launch(l)
    BY <1>1 DEF Next, claimVars, CreateLink, CreateExternalAssignment, CreateLineItem,
                DeleteLink, RemoveDeployment
  <2>2. claim \in CreateClaim(l)
    BY <2>1 DEF Launch
  <2>3. claim.link = l /\ claim.lineitem = TryGetLineItem(l)
    BY <2>2 DEF CreateClaim
  <2>4. IsFiniteSet(DOMAIN items) /\ None \notin DOMAIN items /\ i # None
    BY <1>1, ClaimAssumption DEF AgsInv, TypeOK
  <2> QED  BY <2>3, <2>4, TheOnlyItemIsNamed
<1>2. AgsInv /\ [Next]_claimVars => [Named]_claimVars
  BY <1>1
<1> QED  BY <1>2, AgsIsInv, PTL DEF Spec, ClaimsNameTheOnlyItem
=============================================================================
