------------------------- MODULE RegistrationProofs -------------------------
(***************************************************************************)
(* Whoever is told that the registration succeeded has the one account of  *)
(* that username and of that email, however many register at the same time *)
(* and whatever the store refuses; and a CPF is stored, and shown, as it   *)
(* was typed.                                                              *)
(***************************************************************************)
EXTENDS Registration, FiniteSetTheorems, WellFoundedInduction, TLAPS

-----------------------------------------------------------------------------
(***************************************************************************)
(* Sequences without a letter.  Kept is recursive; that a set with 0 and   *)
(* the successor of each of its members has all natural numbers gives the  *)
(* function its values, and then what Without is of a longer sequence.     *)
(***************************************************************************)
LEMMA LeastNatural ==
  ASSUME NEW T \in SUBSET Nat, T # {}
  PROVE  \E x \in T : \A y \in T : x <= y
<1> DEFINE Less == {pair \in Nat \X Nat : pair[1] < pair[2]}
<1>1. IsWellFoundedOn(Less, Nat)
  BY NatLessThanWellFounded DEF OpToRel
<1>2. \A x, y \in T : y < x => <<y, x>> \in Less
  OBVIOUS
<1> HIDE DEF Less
<1>3. PICK x \in T : \A y \in T : ~ (<<y, x>> \in Less)
  BY <1>1, WFMin
<1>4. \A y \in T : ~ (y < x)
  BY <1>2, <1>3
<1> QED  BY <1>4

LEMMA Induction ==
  ASSUME NEW S, 0 \in S, \A n \in S \cap Nat : n + 1 \in S
  PROVE  Nat \subseteq S
<1> SUFFICES ASSUME Nat \ S # {} PROVE FALSE
  OBVIOUS
<1>1. PICK n \in Nat \ S : \A m \in Nat \ S : n <= m
  BY LeastNatural
<1>2. n - 1 \in Nat /\ (n - 1) + 1 = n
  BY <1>1
<1>3. n - 1 \in S
  BY <1>1, <1>2
<1> QED  BY <1>1, <1>2, <1>3

\* What Kept is defined to be, for the first m characters.
Keeps(f, s, x, m) ==
    f = [n \in 0 .. m |-> IF n = 0 THEN <<>>
                           ELSE IF s[n] = x THEN f[n - 1] ELSE Append(f[n - 1], s[n])]

LEMMA KeptExists ==
  ASSUME NEW s, NEW x, NEW m \in Nat
  PROVE  \E f : Keeps(f, s, x, m)
<1> DEFINE Body(f, n) == IF n = 0 THEN <<>>
                         ELSE IF s[n] = x THEN f[n - 1] ELSE Append(f[n - 1], s[n])
           Defined == {k \in Nat : \E f : f = [n \in 0 .. k |-> Body(f, n)]}
<1>1. 0 \in Defined
  <2> DEFINE f == [n \in 0 .. 0 |-> <<>>]
  <2>1. \A n \in 0 .. 0 : n = 0
    OBVIOUS
  <2>2. f = [n \in 0 .. 0 |-> Body(f, n)]
    BY <2>1
  <2> QED  BY <2>2
<1>2. ASSUME NEW k \in Defined PROVE k + 1 \in Defined
  <2>1. PICK f : f = [n \in 0 .. k |-> Body(f, n)]
    OBVIOUS
  <2>2. k \in Nat
    OBVIOUS
  <2> DEFINE g == [n \in 0 .. k + 1 |-> IF n = k + 1 THEN Body(f, n) ELSE f[n]]
  <2>3. \A n \in 0 .. k : n \in 0 .. k + 1 /\ n # k + 1
    BY <2>2
  <2>4. \A n \in 0 .. k : g[n] = f[n]
    BY <2>3
  <2>5. ASSUME NEW n \in 0 .. k + 1 PROVE Body(f, n) = Body(g, n)
    <3>1. n = 0 \/ n - 1 \in 0 .. k
      BY <2>2
    <3> HIDE DEF g
    <3>2. n = 0 \/ f[n - 1] = g[n - 1]
      BY <2>4, <3>1
    <3> QED  BY <3>2
  <2>6. ASSUME NEW n \in 0 .. k + 1 PROVE g[n] = Body(g, n)
    <3>1. n = k + 1 \/ n \in 0 .. k
      BY <2>2
    <3>2. g[n] = IF n = k + 1 THEN Body(f, n) ELSE f[n]
      OBVIOUS
    <3>3. n \in 0 .. k => f[n] = Body(f, n)
      BY <2>1
    <3>4. Body(f, n) = Body(g, n)
      BY <2>5
    <3> HIDE DEF g, Body
    <3> QED  BY <3>1, <3>2, <3>3, <3>4
  <2>7. g = [n \in 0 .. k + 1 |-> Body(g, n)]
    BY <2>6
  <2> HIDE DEF g, Body
  <2>8. \E h : h = [n \in 0 .. k + 1 |-> Body(h, n)]
    BY <2>7
  <2> QED  BY <2>2, <2>8
<1>3. m \in Defined
  <2>1. \A k \in Defined \cap Nat : k + 1 \in Defined
    BY <1>2
  <2> HIDE DEF Defined
  <2> QED  BY <1>1, <2>1, Induction
<1> QED  BY <1>3 DEF Keeps

LEMMA KeptSteps ==
  ASSUME NEW s \in Seq(Letters), NEW x
  PROVE  /\ Kept(s, x)[0] = <<>>
         /\ \A n \in 1 .. Len(s) :
              Kept(s, x)[n] = IF s[n] = x THEN Kept(s, x)[n - 1]
                              ELSE Append(Kept(s, x)[n - 1], s[n])
<1>1. Len(s) \in Nat
  OBVIOUS
<1>2. \E f : Keeps(f, s, x, Len(s))
  BY <1>1, KeptExists
<1>3. Kept(s, x) = CHOOSE f : Keeps(f, s, x, Len(s))
  BY DEF Kept, Keeps
<1>4. Keeps(Kept(s, x), s, x, Len(s))
  BY <1>2, <1>3
<1> DEFINE K == Kept(s, x)
<1>5. K = [n \in 0 .. Len(s) |-> IF n = 0 THEN <<>>
                           ELSE IF s[n] = x THEN K[n - 1] ELSE Append(K[n - 1], s[n])]
  BY <1>4 DEF Keeps
<1>6. \A n \in 0 .. Len(s) :
        K[n] = IF n = 0 THEN <<>>
               ELSE IF s[n] = x THEN K[n - 1] ELSE Append(K[n - 1], s[n])
  <2> HIDE DEF K
  <2> QED  BY <1>5, Zenon
<1>7. 0 \in 0 .. Len(s) /\ \A n \in 1 .. Len(s) : n \in 0 .. Len(s) /\ n # 0
  BY <1>1
<1> QED  BY <1>6, <1>7, Zenon DEF K

LEMMA KeptNext ==
  ASSUME NEW s \in Seq(Letters), NEW x, NEW n \in Nat, n + 1 <= Len(s)
  PROVE  Kept(s, x)[n + 1] = IF s[n + 1] = x THEN Kept(s, x)[n]
                             ELSE Append(Kept(s, x)[n], s[n + 1])
<1>1. n + 1 \in 1 .. Len(s)
  OBVIOUS
<1>2. \A m \in 1 .. Len(s) : Kept(s, x)[m] = IF s[m] = x THEN Kept(s, x)[m - 1]
                                             ELSE Append(Kept(s, x)[m - 1], s[m])
  BY KeptSteps
<1> DEFINE K == Kept(s, x)
<1> HIDE DEF K
<1>3. (n + 1) - 1 = n
  OBVIOUS
<1>4. \A m \in 1 .. Len(s) : K[m] = IF s[m] = x THEN K[m - 1] ELSE Append(K[m - 1], s[m])
  BY <1>2 DEF K
<1>5. K[n + 1] = IF s[n + 1] = x THEN K[(n + 1) - 1] ELSE Append(K[(n + 1) - 1], s[n + 1])
  BY <1>1, <1>4, Zenon
<1> QED  BY <1>3, <1>5 DEF K

\* The characters of t are characters of s, and not x.
Drawn(t, s, x) ==
    /\ t \in Seq(Letters)
    /\ \A k \in 1 .. Len(t) : t[k] # x /\ \E i \in 1 .. Len(s) : s[i] = t[k]

LEMMA DrawnMore ==
  ASSUME NEW s \in Seq(Letters), NEW x, NEW t, Drawn(t, s, x), NEW i \in 1 .. Len(s), s[i] # x
  PROVE  Drawn(Append(t, s[i]), s, x)
<1> DEFINE more == Append(t, s[i])
<1>1. t \in Seq(Letters) /\ s[i] \in Letters
  BY DEF Drawn
<1>2. more \in Seq(Letters) /\ Len(more) = Len(t) + 1
  BY <1>1
<1>3. \A k \in 1 .. Len(t) + 1 : k \in 1 .. Len(t) \/ k = Len(t) + 1
  BY <1>1
<1>4. \A k \in 1 .. Len(t) : more[k] = t[k]
  BY <1>1
<1>5. more[Len(t) + 1] = s[i]
  BY <1>1
<1> HIDE DEF more
<1>6. ASSUME NEW k \in 1 .. Len(more)
      PROVE  more[k] # x /\ \E j \in 1 .. Len(s) : s[j] = more[k]
  <2>1. CASE k \in 1 .. Len(t)
    BY <1>4, <2>1 DEF Drawn
  <2>2. CASE k = Len(t) + 1
    BY <1>5, <2>2
  <2> QED  BY <1>2, <1>3, <2>1, <2>2
<1>7. Drawn(more, s, x)
  BY <1>2, <1>6 DEF Drawn
<1> QED  BY <1>7 DEF more

LEMMA KeptDraws ==
  ASSUME NEW s \in Seq(Letters), NEW x, NEW m \in 0 .. Len(s)
  PROVE  Drawn(Kept(s, x)[m], s, x)
<1> DEFINE P == {n \in Nat : n <= Len(s) => Drawn(Kept(s, x)[n], s, x)}
<1>1. 0 \in P
  <2>1. Drawn(<<>>, s, x)
    BY DEF Drawn
  <2> QED  BY <2>1, KeptSteps
<1>2. ASSUME NEW n \in P PROVE n + 1 \in P
  <2> SUFFICES ASSUME n + 1 <= Len(s) PROVE Drawn(Kept(s, x)[n + 1], s, x)
    OBVIOUS
  <2>1. n + 1 \in 1 .. Len(s) /\ (n + 1) - 1 = n /\ n <= Len(s)
    OBVIOUS
  <2>2. Drawn(Kept(s, x)[n], s, x)
    BY <2>1
  <2>3. Kept(s, x)[n + 1] = IF s[n + 1] = x THEN Kept(s, x)[n]
                            ELSE Append(Kept(s, x)[n], s[n + 1])
    BY <2>1, KeptNext
  <2>4. CASE s[n + 1] = x
    BY <2>2, <2>3, <2>4
  <2>5. CASE s[n + 1] # x
    <3>1. Drawn(Append(Kept(s, x)[n], s[n + 1]), s, x)
      BY <2>1, <2>2, <2>5, DrawnMore
    <3> QED  BY <2>3, <2>5, <3>1
  <2> QED  BY <2>4, <2>5
<1>3. m \in P
  <2>1. \A n \in P \cap Nat : n + 1 \in P
    BY <1>2
  <2> HIDE DEF P
  <2> QED  BY <1>1, <2>1, Induction
<1> QED  BY <1>3

LEMMA WithoutDraws ==
  ASSUME NEW s \in Seq(Letters), NEW x
  PROVE  Drawn(Without(s, x), s, x)
BY KeptDraws DEF Without

\* What is without the letter stays as it is.
LEMMA WithoutNone ==
  ASSUME NEW s \in Seq(Letters), NEW x, \A i \in 1 .. Len(s) : s[i] # x
  PROVE  Without(s, x) = s
<1> DEFINE P == {n \in Nat : n <= Len(s) => Kept(s, x)[n] = SubSeq(s, 1, n)}
<1>1. 0 \in P
  <2>1. SubSeq(s, 1, 0) = <<>>
    OBVIOUS
  <2> QED  BY <2>1, KeptSteps
<1>2. ASSUME NEW n \in P PROVE n + 1 \in P
  <2> SUFFICES ASSUME n + 1 <= Len(s) PROVE Kept(s, x)[n + 1] = SubSeq(s, 1, n + 1)
    OBVIOUS
  <2>1. n + 1 \in 1 .. Len(s) /\ (n + 1) - 1 = n /\ n <= Len(s)
    OBVIOUS
  <2>2. Kept(s, x)[n] = SubSeq(s, 1, n)
    BY <2>1
  <2>3. Kept(s, x)[n + 1] = Append(Kept(s, x)[n], s[n + 1])
    <3>1. n \in Nat /\ n + 1 <= Len(s) /\ s[n + 1] # x
      BY <2>1
    <3>2. Kept(s, x)[n + 1] = IF s[n + 1] = x THEN Kept(s, x)[n]
                              ELSE Append(Kept(s, x)[n], s[n + 1])
      BY <3>1, KeptNext, ZenonT(40)
    <3> QED  BY <3>1, <3>2, Zenon
  <2>4. Append(SubSeq(s, 1, n), s[n + 1]) = SubSeq(s, 1, n + 1)
    BY <2>1
  <2> QED  BY <2>2, <2>3, <2>4
<1>3. Len(s) \in P
  <2>1. \A n \in P \cap Nat : n + 1 \in P
    BY <1>2
  <2> HIDE DEF P
  <2> QED  BY <1>1, <2>1, Induction
<1>4. SubSeq(s, 1, Len(s)) = s
  OBVIOUS
<1> QED  BY <1>3, <1>4 DEF Without

LEMMA AppendConcat ==
  ASSUME NEW a \in Seq(Letters), NEW b \in Seq(Letters), NEW c \in Letters
  PROVE  Append(a \o b, c) = a \o Append(b, c)
<1> DEFINE l == Append(a \o b, c)
           r == a \o Append(b, c)
<1>1. /\ l \in Seq(Letters) /\ Len(l) = Len(a) + Len(b) + 1
      /\ r \in Seq(Letters) /\ Len(r) = Len(a) + Len(b) + 1
  OBVIOUS
<1>2. \A k \in 1 .. Len(a) + Len(b) + 1 : l[k] = r[k]
  OBVIOUS
<1> HIDE DEF l, r
<1>3. l = r
  BY <1>1, <1>2
<1> QED  BY <1>3 DEF l, r

LEMMA WithoutConcat ==
  ASSUME NEW s \in Seq(Letters), NEW t \in Seq(Letters), NEW x
  PROVE  Without(s \o t, x) = Without(s, x) \o Without(t, x)
<1> DEFINE st == s \o t
<1>0. /\ st \in Seq(Letters) /\ Len(st) = Len(s) + Len(t)
      /\ \A n \in 1 .. Len(s) : st[n] = s[n]
      /\ \A n \in 1 .. Len(t) : st[Len(s) + n] = t[n]
  OBVIOUS
<1> HIDE DEF st
<1>1. Kept(st, x)[Len(s)] = Without(s, x)
  <2> DEFINE P == {n \in Nat : n <= Len(s) => Kept(st, x)[n] = Kept(s, x)[n]}
  <2>1. 0 \in P
    BY <1>0, KeptSteps
  <2>2. ASSUME NEW n \in P PROVE n + 1 \in P
    <3> SUFFICES ASSUME n + 1 <= Len(s) PROVE Kept(st, x)[n + 1] = Kept(s, x)[n + 1]
      OBVIOUS
    <3>1. n + 1 \in 1 .. Len(s) /\ n + 1 \in 1 .. Len(st) /\ (n + 1) - 1 = n /\ n <= Len(s)
      BY <1>0
    <3>2. Kept(st, x)[n] = Kept(s, x)[n]
      BY <3>1
    <3>3. Kept(st, x)[n + 1] = IF st[n + 1] = x THEN Kept(st, x)[n]
                               ELSE Append(Kept(st, x)[n], st[n + 1])
      BY <1>0, <3>1, KeptNext
    <3>4. Kept(s, x)[n + 1] = IF s[n + 1] = x THEN Kept(s, x)[n]
                              ELSE Append(Kept(s, x)[n], s[n + 1])
      BY <3>1, KeptNext
    <3>5. st[n + 1] = s[n + 1]
      BY <1>0, <3>1
    <3> QED  BY <3>1, <3>2, <3>3, <3>4, <3>5, Zenon
  <2>3. Len(s) \in P
    <3>1. \A n \in P \cap Nat : n + 1 \in P
      BY <2>2
    <3> HIDE DEF P
    <3> QED  BY <2>1, <3>1, Induction
  <2> QED  BY <2>3 DEF Without
<1>2. Kept(st, x)[Len(st)] = Without(s, x) \o Without(t, x)
  <2> DEFINE P == {n \in Nat : n <= Len(t) =>
                      Kept(st, x)[Len(s) + n] = Without(s, x) \o Kept(t, x)[n]}
  <2>1. 0 \in P
    <3>1. Without(s, x) \in Seq(Letters)
      BY WithoutDraws DEF Drawn
    <3>2. Without(s, x) \o <<>> = Without(s, x) /\ Len(s) + 0 = Len(s)
      BY <3>1
    <3> QED  BY <1>1, <3>2, KeptSteps
  <2>2. ASSUME NEW n \in P PROVE n + 1 \in P
    <3> SUFFICES ASSUME n + 1 <= Len(t)
                 PROVE  Kept(st, x)[Len(s) + (n + 1)] = Without(s, x) \o Kept(t, x)[n + 1]
      OBVIOUS
    <3> DEFINE m == Len(s) + (n + 1)
    <3>1. /\ n + 1 \in 1 .. Len(t) /\ m \in 1 .. Len(st)
          /\ (n + 1) - 1 = n /\ m - 1 = Len(s) + n /\ n <= Len(t)
      BY <1>0
    <3>2. Kept(st, x)[Len(s) + n] = Without(s, x) \o Kept(t, x)[n]
      BY <3>1
    <3>3. st[m] = t[n + 1]
      BY <1>0, <3>1
    <3> HIDE DEF m
    <3>4. Kept(st, x)[m] = IF st[m] = x THEN Kept(st, x)[Len(s) + n]
                           ELSE Append(Kept(st, x)[Len(s) + n], st[m])
      <4>1. Len(s) + n \in Nat /\ (Len(s) + n) + 1 = m /\ (Len(s) + n) + 1 <= Len(st)
        BY <1>0, <3>1 DEF m
      <4>2. Kept(st, x)[(Len(s) + n) + 1]
              = IF st[(Len(s) + n) + 1] = x THEN Kept(st, x)[Len(s) + n]
                ELSE Append(Kept(st, x)[Len(s) + n], st[(Len(s) + n) + 1])
        BY <1>0, <4>1, KeptNext
      <4> QED  BY <4>1, <4>2
    <3>5. Kept(t, x)[n + 1] = IF t[n + 1] = x THEN Kept(t, x)[n]
                              ELSE Append(Kept(t, x)[n], t[n + 1])
      BY <3>1, KeptNext
    <3>6. CASE st[m] = x
      BY <3>1, <3>2, <3>3, <3>4, <3>5, <3>6
    <3>7. CASE st[m] # x
      <4>1. Kept(st, x)[m] = Append(Without(s, x) \o Kept(t, x)[n], t[n + 1])
        <5>1. Kept(st, x)[m] = Append(Kept(st, x)[Len(s) + n], st[m])
          BY <3>4, <3>7, Zenon
        <5> QED  BY <3>2, <3>3, <5>1, Zenon
      <4>2. Kept(t, x)[n + 1] = Append(Kept(t, x)[n], t[n + 1])
        BY <3>3, <3>5, <3>7, Zenon
      <4>3. Without(s, x) \in Seq(Letters)
        BY WithoutDraws DEF Drawn
      <4>4. Kept(t, x)[n] \in Seq(Letters)
        <5>1. n \in 0 .. Len(t)
          BY <3>1
        <5> QED  BY <5>1, KeptDraws DEF Drawn
      <4>5. Append(Without(s, x) \o Kept(t, x)[n], t[n + 1])
            = Without(s, x) \o Append(Kept(t, x)[n], t[n + 1])
        <5>1. t[n + 1] \in Letters
          BY <3>1
        <5> QED  BY <4>3, <4>4, <5>1, AppendConcat
      <4> QED  BY <4>1, <4>2, <4>5, Zenon DEF m
    <3> QED  BY <3>6, <3>7 DEF m
  <2>3. Len(t) \in P
    <3>1. \A n \in P \cap Nat : n + 1 \in P
      BY <2>2
    <3> HIDE DEF P
    <3> QED  BY <2>1, <3>1, Induction
  <2>4. Kept(st, x)[Len(s) + Len(t)] = Without(s, x) \o Kept(t, x)[Len(t)]
    BY <2>3
  <2> QED  BY <1>0, <2>4 DEF Without
<1> QED  BY <1>2 DEF Without, st

LEMMA Single ==
  ASSUME NEW x \in Letters
  PROVE  <<x>> \in Seq(Letters) /\ Len(<<x>>) = 1 /\ <<x>>[1] = x
OBVIOUS

LEMMA WithoutSingle ==
  ASSUME NEW x \in Letters
  PROVE  Without(<<x>>, x) = <<>>
<1> DEFINE s == <<x>>
<1> HIDE DEF s
<1>1. s \in Seq(Letters) /\ Len(s) = 1 /\ s[1] = x
  BY Single DEF s
<1>2. Kept(s, x)[0 + 1] = Kept(s, x)[0]
  BY <1>1, KeptNext
<1>3. Kept(s, x)[1] = <<>>
  BY <1>1, <1>2, KeptSteps
<1> QED  BY <1>1, <1>3 DEF Without, s

\* A letter between parts that lack it.
LEMMA OneOut ==
  ASSUME NEW a \in Seq(Letters), NEW b \in Seq(Letters), NEW x \in Letters,
         \A i \in 1 .. Len(a) : a[i] # x
  PROVE  Without(a \o <<x>> \o b, x) = a \o Without(b, x)
<1>1. <<x>> \in Seq(Letters) /\ Len(<<x>>) = 1 /\ <<x>>[1] = x
  OBVIOUS
<1>2. Without(<<x>>, x) = <<>>
  BY WithoutSingle
<1>3. Without(a \o <<x>>, x) = a
  <2>1. Without(a \o <<x>>, x) = Without(a, x) \o Without(<<x>>, x)
    BY <1>1, WithoutConcat, ZenonT(40)
  <2>2. Without(a, x) = a
    BY WithoutNone
  <2>3. a \o <<>> = a
    OBVIOUS
  <2> QED  BY <1>2, <2>1, <2>2, <2>3, Zenon
<1>4. a \o <<x>> \in Seq(Letters)
  BY <1>1
<1>5. Without((a \o <<x>>) \o b, x) = Without(a \o <<x>>, x) \o Without(b, x)
  BY <1>4, WithoutConcat
<1> QED  BY <1>3, <1>5, Zenon

-----------------------------------------------------------------------------
(***************************************************************************)
(* What a CPF is checked as, stored as and shown as.                       *)
(***************************************************************************)
LEMMA MinIs ==
  ASSUME NEW T \in SUBSET Nat, NEW m \in T, \A y \in T : m <= y
  PROVE  Min(T) = m
<1>1. \A x \in T : (\A y \in T : x <= y) => x = m
  OBVIOUS
<1> QED  BY <1>1 DEF Min

LEMMA MaxIs ==
  ASSUME NEW T \in SUBSET Nat, NEW m \in T, \A y \in T : y <= m
  PROVE  Max(T) = m
<1>1. \A x \in T : (\A y \in T : x >= y) => x = m
  OBVIOUS
<1> QED  BY <1>1 DEF Max

\* The only dash is the one that RemoveFirst removes.
LEMMA RemoveOnly ==
  ASSUME NEW a \in Seq(Letters), NEW b \in Seq(Letters), NEW x \in Letters,
         \A i \in 1 .. Len(a) : a[i] # x
  PROVE  RemoveFirst(a \o <<x>> \o b, x) = a \o b
<1> DEFINE s == a \o <<x>> \o b
           n == Len(a) + 1
           I == {i \in 1 .. Len(s) : s[i] = x}
<1>1. /\ Len(a) \in Nat /\ Len(b) \in Nat
      /\ s \in Seq(Letters) /\ Len(s) = n + Len(b)
      /\ s[n] = x
      /\ \A i \in 1 .. Len(a) : s[i] = a[i]
  OBVIOUS
<1>2. n \in I /\ \A i \in I : n <= i
  <2> HIDE DEF s
  <2>1. \A i \in 1 .. Len(s) : i < n => i \in 1 .. Len(a)
    BY <1>1
  <2> QED  BY <1>1, <2>1, SMTT(40)
<1>3. Min(I) = n
  <2>1. I \in SUBSET Nat
    OBVIOUS
  <2> HIDE DEF I, n
  <2> QED  BY <1>2, <2>1, MinIs
<1>4. SelectInSeq(s, LAMBDA v : v = x) = n
  <2>1. I # {}
    BY <1>2
  <2> HIDE DEF s, n
  <2> QED  BY <1>3, <2>1 DEF SelectInSeq
<1>5. RemoveFirst(s, x) = SubSeq(s, 1, n - 1) \o SubSeq(s, n + 1, Len(s))
  <2>1. \E i \in 1 .. Len(s) : s[i] = x
    BY <1>2
  <2> HIDE DEF s, n
  <2> QED  BY <1>4, <2>1 DEF RemoveFirst, RemoveAt
<1>6. SubSeq(s, 1, n - 1) = a
  OBVIOUS
<1>7. SubSeq(s, n + 1, Len(s)) = b
  OBVIOUS
<1> QED  BY <1>5, <1>6, <1>7

LEMMA RemoveNone ==
  ASSUME NEW s, NEW x, \A i \in 1 .. Len(s) : s[i] # x
  PROVE  RemoveFirst(s, x) = s
BY DEF RemoveFirst

LEMMA DigitsAreNumbers ==
  ASSUME NEW d \in Seq(Letters), AllDigits(d)
  PROVE  Trimmed(d) = d /\ IsNumber(d)
<1>1. Len(d) \in Nat \ {0} /\ DOMAIN d = 1 .. Len(d)
  BY DEF AllDigits
<1>2. \A i \in 1 .. Len(d) : d[i] # " " /\ d[i] # "-"
  BY <1>1 DEF AllDigits, Digits
<1>3. Trimmed(d) = d
  <2> DEFINE shown == {i \in DOMAIN d : d[i] # " "}
  <2>1. shown = 1 .. Len(d)
    BY <1>1, <1>2
  <2>2. Min(1 .. Len(d)) = 1 /\ Max(1 .. Len(d)) = Len(d)
    <3>1. /\ 1 .. Len(d) \in SUBSET Nat
          /\ 1 \in 1 .. Len(d) /\ \A y \in 1 .. Len(d) : 1 <= y
          /\ Len(d) \in 1 .. Len(d) /\ \A y \in 1 .. Len(d) : y <= Len(d)
      BY <1>1
    <3> QED  BY <3>1, MinIs, MaxIs
  <2>3. shown # {}
    <3>1. 1 \in 1 .. Len(d)
      BY <1>1
    <3> QED  BY <2>1, <3>1
  <2>4. Trimmed(d) = SubSeq(d, 1, Len(d))
    BY <2>1, <2>2, <2>3 DEF Trimmed
  <2> QED  BY <2>4
<1>4. Unsigned(d) = d
  <2>1. Head(d) # "-"
    <3>1. Head(d) = d[1] /\ 1 \in 1 .. Len(d)
      BY <1>1
    <3> QED  BY <1>2, <3>1, Zenon
  <2> QED  BY <2>1 DEF Unsigned
<1> QED  BY <1>3, <1>4 DEF IsNumber

LEMMA ConcatParts ==
  ASSUME NEW a \in Seq(Letters), NEW b \in Seq(Letters)
  PROVE  /\ a \o b \in Seq(Letters) /\ Len(a \o b) = Len(a) + Len(b)
         /\ \A k \in 1 .. Len(a) : (a \o b)[k] = a[k]
         /\ \A k \in 1 .. Len(b) : (a \o b)[Len(a) + k] = b[k]
OBVIOUS

LEMMA SplitAt ==
  ASSUME NEW s \in Seq(Letters), NEW i \in 1 .. Len(s)
  PROVE  s = SubSeq(s, 1, i - 1) \o <<s[i]>> \o SubSeq(s, i + 1, Len(s))
<1> DEFINE a == SubSeq(s, 1, i - 1)
           b == SubSeq(s, i + 1, Len(s))
           c == <<s[i]>>
           ac == a \o c
           t == ac \o b
<1>1. a \in Seq(Letters) /\ Len(a) = i - 1 /\ \A k \in 1 .. i - 1 : a[k] = s[k]
  OBVIOUS
<1>2. /\ b \in Seq(Letters) /\ Len(b) = Len(s) - i
      /\ \A k \in 1 .. Len(s) - i : b[k] = s[i + k]
  OBVIOUS
<1>3. c \in Seq(Letters) /\ Len(c) = 1 /\ c[1] = s[i]
  OBVIOUS
<1> HIDE DEF a, b, c
<1>4. /\ ac \in Seq(Letters) /\ Len(ac) = i
      /\ \A k \in 1 .. i - 1 : ac[k] = s[k]
      /\ ac[i] = s[i]
  <2>1. /\ ac \in Seq(Letters) /\ Len(ac) = Len(a) + Len(c)
        /\ \A k \in 1 .. Len(a) : ac[k] = a[k]
        /\ \A k \in 1 .. Len(c) : ac[Len(a) + k] = c[k]
    BY <1>1, <1>3, ConcatParts
  <2> HIDE DEF ac
  <2>2. 1 \in 1 .. Len(c) /\ Len(a) + 1 = i
    BY <1>1, <1>3
  <2>3. ac[i] = c[1]
    BY <2>1, <2>2
  <2> QED  BY <1>1, <1>3, <2>1, <2>3
<1> HIDE DEF ac
<1>7. /\ t \in Seq(Letters) /\ Len(t) = Len(s)
      /\ \A k \in 1 .. i : t[k] = ac[k]
      /\ \A k \in 1 .. Len(s) - i : t[i + k] = b[k]
  <2>1. /\ t \in Seq(Letters) /\ Len(t) = Len(ac) + Len(b)
        /\ \A k \in 1 .. Len(ac) : t[k] = ac[k]
        /\ \A k \in 1 .. Len(b) : t[Len(ac) + k] = b[k]
    BY <1>2, <1>4, ConcatParts
  <2> HIDE DEF t
  <2> QED  BY <1>2, <1>4, <2>1
<1> HIDE DEF t
<1>5. ASSUME NEW k \in 1 .. Len(s) PROVE t[k] = s[k]
  <2>1. CASE k < i
    BY <1>4, <1>7, <2>1
  <2>2. CASE k = i
    BY <1>4, <1>7, <2>2
  <2>3. CASE k > i
    <3>1. k - i \in 1 .. Len(s) - i /\ i + (k - i) = k
      BY <2>3
    <3> QED  BY <1>2, <1>7, <3>1
  <2> QED  BY <2>1, <2>2, <2>3
<1>6. t = s
  BY <1>5, <1>7
<1> QED  BY <1>6 DEF a, b, c, ac, t

\* Taking x out of s leaves t; what is left of two texts is put together like them.
Leaves(s, x, t) == s \in Seq(Letters) /\ Without(s, x) = t

LEMMA LeavesJoin ==
  ASSUME NEW s, NEW t, NEW x, NEW s2, NEW t2, Leaves(s, x, s2), Leaves(t, x, t2)
  PROVE  Leaves(s \o t, x, s2 \o t2)
<1>1. s \in Seq(Letters) /\ t \in Seq(Letters)
  BY DEF Leaves
<1>2. s \o t \in Seq(Letters)
  BY <1>1, ConcatParts
<1>3. Without(s \o t, x) = Without(s, x) \o Without(t, x)
  BY <1>1, WithoutConcat
<1> QED  BY <1>2, <1>3, Zenon DEF Leaves

\* What has one dash at most loses all of them to RemoveFirst, with or without its dots.
LEMMA DashIsOut ==
  ASSUME NEW s \in Seq(Letters),
         \A i, j \in 1 .. Len(s) : s[i] = "-" /\ s[j] = "-" => i = j
  PROVE  RemoveFirst(Without(s, "."), "-") = Without(Without(s, "."), "-")
<1> DEFINE dash == <<"-">>
<1>0. "-" \in Letters
  BY DEF Letters
<1>d. dash \in Seq(Letters) /\ Len(dash) = 1 /\ dash[1] = "-"
  BY <1>0, Single
<1>1. CASE \A i \in 1 .. Len(s) : s[i] # "-"
  <2> DEFINE w == Without(s, ".")
  <2>1. w \in Seq(Letters) /\ \A k \in 1 .. Len(w) : w[k] # "-"
    <3>1. Drawn(w, s, ".")
      BY WithoutDraws
    <3> HIDE DEF w
    <3> QED  BY <1>1, <3>1 DEF Drawn
  <2> HIDE DEF w
  <2>2. RemoveFirst(w, "-") = w /\ Without(w, "-") = w
    BY <2>1, RemoveNone, WithoutNone
  <2> QED  BY <2>2 DEF w
<1>2. CASE \E i \in 1 .. Len(s) : s[i] = "-"
  <2>1. PICK i \in 1 .. Len(s) : s[i] = "-"
    BY <1>2
  <2> DEFINE a == SubSeq(s, 1, i - 1)
             b == SubSeq(s, i + 1, Len(s))
  <2>a. a \in Seq(Letters) /\ Len(a) = i - 1 /\ \A k \in 1 .. i - 1 : a[k] = s[k]
    OBVIOUS
  <2>b. /\ b \in Seq(Letters) /\ Len(b) = Len(s) - i
        /\ \A k \in 1 .. Len(s) - i : b[k] = s[i + k]
    OBVIOUS
  <2> HIDE DEF a, b
  <2>2. /\ a \in Seq(Letters) /\ \A k \in 1 .. Len(a) : a[k] # "-"
        /\ b \in Seq(Letters) /\ \A k \in 1 .. Len(b) : b[k] # "-"
    <3>3. \A k \in 1 .. i - 1 : k \in 1 .. Len(s) /\ k # i
      OBVIOUS
    <3>4. \A k \in 1 .. Len(s) - i : i + k \in 1 .. Len(s) /\ i + k # i
      OBVIOUS
    <3> QED  BY <2>1, <2>a, <2>b, <3>3, <3>4
  <2>3. s = a \o dash \o b
    BY <2>1, SplitAt DEF a, b
  <2> HIDE DEF a, b
  <2> DEFINE u == Without(a, ".")
             v == Without(b, ".")
  <2>4. /\ u \in Seq(Letters) /\ \A k \in 1 .. Len(u) : u[k] # "-"
        /\ v \in Seq(Letters) /\ \A k \in 1 .. Len(v) : v[k] # "-"
    <3>1. Drawn(u, a, ".") /\ Drawn(v, b, ".")
      BY <2>2, WithoutDraws
    <3> HIDE DEF u, v
    <3> QED  BY <2>2, <3>1 DEF Drawn
  <2>5. Without(s, ".") = u \o dash \o v
    <3>1. Without(dash, ".") = dash
      <4>1. \A k \in 1 .. Len(dash) : k = 1
        BY <1>d
      <4>2. \A k \in 1 .. Len(dash) : dash[k] # "."
        BY <1>d, <4>1
      <4> HIDE DEF dash
      <4> QED  BY <1>d, <4>2, WithoutNone
    <3> HIDE DEF dash, u, v
    <3>2. Leaves(a, ".", u) /\ Leaves(b, ".", v)
      BY <2>2 DEF Leaves, u, v
    <3>3. Leaves(dash, ".", dash)
      BY <1>d, <3>1 DEF Leaves
    <3>4. Leaves(a \o dash, ".", u \o dash)
      BY <3>2, <3>3, LeavesJoin, Zenon
    <3>5. Leaves(a \o dash \o b, ".", u \o dash \o v)
      BY <3>2, <3>4, LeavesJoin, Zenon
    <3> QED  BY <2>3, <3>5, Zenon DEF Leaves
  <2> HIDE DEF u, v
  <2>6. RemoveFirst(u \o <<"-">> \o v, "-") = u \o v
    BY <1>0, <2>4, RemoveOnly
  <2>7. Without(u \o <<"-">> \o v, "-") = u \o v
    <3>1. Without(v, "-") = v
      BY <2>4, WithoutNone
    <3>2. Without(u \o <<"-">> \o v, "-") = u \o Without(v, "-")
      BY <1>0, <2>4, OneOut
    <3> QED  BY <3>1, <3>2, Zenon
  <2> QED  BY <2>5, <2>6, <2>7, Zenon
<1> QED  BY <1>1, <1>2

LEMMA JoinParts ==
  ASSUME NEW d \in Seq(Letters), NEW m \in Nat, NEW n \in Nat, m <= n, n <= Len(d)
  PROVE  SubSeq(d, 1, m) \o SubSeq(d, m + 1, n) = SubSeq(d, 1, n)
<1> DEFINE a == SubSeq(d, 1, m)
           b == SubSeq(d, m + 1, n)
           c == SubSeq(d, 1, n)
           ab == a \o b
<1>1. a \in Seq(Letters) /\ Len(a) = m /\ \A k \in 1 .. m : a[k] = d[k]
  OBVIOUS
<1>2. b \in Seq(Letters) /\ Len(b) = n - m /\ \A k \in 1 .. n - m : b[k] = d[m + k]
  OBVIOUS
<1>3. c \in Seq(Letters) /\ Len(c) = n /\ \A k \in 1 .. n : c[k] = d[k]
  OBVIOUS
<1> HIDE DEF a, b, c
<1>4. /\ ab \in Seq(Letters) /\ Len(ab) = Len(a) + Len(b)
      /\ \A k \in 1 .. Len(a) : ab[k] = a[k]
      /\ \A k \in 1 .. Len(b) : ab[Len(a) + k] = b[k]
  BY <1>1, <1>2, ConcatParts
<1> HIDE DEF ab
<1>7. /\ Len(ab) = n
      /\ \A k \in 1 .. m : ab[k] = d[k]
      /\ \A k \in 1 .. n - m : ab[m + k] = d[m + k]
  <2>1. Len(a) + Len(b) = n
    BY <1>1, <1>2
  <2>2. \A k \in 1 .. m : ab[k] = a[k]
    BY <1>1, <1>4, Zenon
  <2>3. \A k \in 1 .. n - m : ab[m + k] = b[k]
    BY <1>1, <1>2, <1>4, Zenon
  <2>4. \A k \in 1 .. m : ab[k] = d[k]
    BY <1>1, <2>2, Zenon
  <2>5. \A k \in 1 .. n - m : ab[m + k] = d[m + k]
    BY <1>2, <2>3, Zenon
  <2> QED  BY <1>4, <2>1, <2>4, <2>5, Zenon
<1>5. ASSUME NEW k \in 1 .. n PROVE ab[k] = c[k]
  <2>1. CASE k \in 1 .. m
    BY <1>3, <1>7, <2>1
  <2>2. CASE k \notin 1 .. m
    <3>1. k - m \in 1 .. n - m /\ m + (k - m) = k
      BY <2>2
    <3> QED  BY <1>3, <1>7, <3>1
  <2> QED  BY <2>1, <2>2
<1>6. ab = c
  BY <1>3, <1>4, <1>5, <1>7
<1> QED  BY <1>6 DEF a, b, c, ab

\* Digits are stored as they are.
LEMMA DigitsAreCpf ==
  ASSUME NEW d \in Seq(Letters), AllDigits(d)
  PROVE  [i \in DOMAIN d |-> IF d[i] \in Digits THEN d[i] ELSE "0"] = d
<1>1. \A i \in DOMAIN d : d[i] \in Digits
  BY DEF AllDigits
<1>2. d = [i \in DOMAIN d |-> d[i]]
  OBVIOUS
<1> QED  BY <1>1, <1>2, Zenon

LEMMA Elements ==
  ASSUME NEW S, NEW s \in Seq(S), NEW i \in 1 .. Len(s)
  PROVE  s[i] \in S
OBVIOUS

LEMMA PartsAreLetters ==
  ASSUME NEW d \in Seq(Letters), NEW i \in Nat \ {0}, NEW j \in Nat, i <= j + 1, j <= Len(d)
  PROVE  /\ SubSeq(d, i, j) \in Seq(Letters)
         /\ \A k \in 1 .. Len(SubSeq(d, i, j)) : \E n \in 1 .. Len(d) : SubSeq(d, i, j)[k] = d[n]
<1> DEFINE p == SubSeq(d, i, j)
<1>1. p \in Seq(Letters) /\ Len(p) = j - i + 1
  OBVIOUS
<1>2. \A k \in 1 .. j - i + 1 : p[k] = d[i + k - 1]
  OBVIOUS
<1>3. \A k \in 1 .. j - i + 1 : i + k - 1 \in 1 .. Len(d)
  OBVIOUS
<1> HIDE DEF p
<1>4. p \in Seq(Letters) /\ \A k \in 1 .. Len(p) : \E n \in 1 .. Len(d) : p[k] = d[n]
  BY <1>1, <1>2, <1>3
<1> QED  BY <1>4 DEF p

\* The dots between the digits are taken out, the dash stays.
LEMMA DotsAreOut ==
  ASSUME NEW a \in Seq(Letters), NEW b \in Seq(Letters), NEW c, NEW e, NEW dot, NEW dash, NEW x,
         Leaves(a, x, a), Leaves(b, x, b), Leaves(c, x, c), Leaves(e, x, e),
         Leaves(dot, x, <<>>), Leaves(dash, x, dash)
  PROVE  Leaves(a \o dot \o b \o dot \o c \o dash \o e, x, a \o b \o c \o dash \o e)
<1>1. Leaves(a \o dot, x, a)
  <2>1. a \o <<>> = a
    OBVIOUS
  <2>2. Leaves(a \o dot, x, a \o <<>>)
    BY LeavesJoin, Zenon
  <2> QED  BY <2>1, <2>2, Zenon
<1>2. Leaves(a \o dot \o b, x, a \o b)
  BY <1>1, LeavesJoin, Zenon
<1>3. Leaves(a \o dot \o b \o dot, x, a \o b)
  <2>1. (a \o b) \o <<>> = a \o b
    <3> DEFINE ab == a \o b
    <3>1. ab \in Seq(Letters)
      BY ConcatParts
    <3> HIDE DEF ab
    <3>2. ab \o <<>> = ab
      BY <3>1
    <3> QED  BY <3>2 DEF ab
  <2>2. Leaves((a \o dot \o b) \o dot, x, (a \o b) \o <<>>)
    BY <1>2, LeavesJoin, Zenon
  <2> QED  BY <2>1, <2>2, Zenon
<1>4. Leaves(a \o dot \o b \o dot \o c, x, a \o b \o c)
  BY <1>3, LeavesJoin, Zenon
<1>5. Leaves(a \o dot \o b \o dot \o c \o dash, x, a \o b \o c \o dash)
  BY <1>4, LeavesJoin, Zenon
<1> QED  BY <1>5, LeavesJoin, Zenon

\* What toString makes of a CPF parses to it: the dots and the dash it puts in are all that
\* is taken out.
LEMMA FormattedIsKept ==
  ASSUME NEW d \in Seq(Letters), AllDigits(d), Len(d) = CpfLength
  PROVE  ValidCpf(Formatted(d)) /\ Cpf(Formatted(d)) = d
<1> DEFINE g1 == Groups[1]
           g2 == Groups[2]
           g3 == Groups[3]
           g4 == Groups[4]
           m1 == g1
           m2 == g1 + g2
           m3 == g1 + g2 + g3
           a == SubSeq(d, 1, m1)
           b == SubSeq(d, m1 + 1, m2)
           c == SubSeq(d, m2 + 1, m3)
           e == SubSeq(d, m3 + 1, Len(d))
           dot == <<".">>
           dash == <<"-">>
<1>a. g1 \in Nat /\ g2 \in Nat /\ g3 \in Nat /\ g4 \in Nat
  <2>1. Groups \in Seq(Nat) /\ Len(Groups) = 4
    BY RegistrationAssumption, Zenon
  <2>2. \A i \in 1 .. Len(Groups) : Groups[i] \in Nat
    BY <2>1, Elements
  <2>3. 1 \in 1 .. 4 /\ 2 \in 1 .. 4 /\ 3 \in 1 .. 4 /\ 4 \in 1 .. 4
    OBVIOUS
  <2> QED  BY <2>1, <2>2, <2>3, Zenon
<1>b. g1 + g2 + g3 + g4 = Len(d) /\ Len(d) \in Nat
  <2>1. g1 + g2 + g3 + g4 = CpfLength
    BY RegistrationAssumption, Zenon
  <2>2. Len(d) \in Nat
    OBVIOUS
  <2> QED  BY <2>1, <2>2, Zenon
<1>2. Formatted(d) = a \o dot \o b \o dot \o c \o dash \o e
  <2>1. 0 + 1 = 1 /\ 0 + g1 = g1
    BY <1>a
  <2> QED  BY <1>b, <2>1, Zenon DEF Formatted
<1> HIDE DEF g1, g2, g3, g4
<1>1. /\ m1 \in Nat /\ m2 \in Nat /\ m3 \in Nat /\ Len(d) \in Nat
      /\ m1 <= m2 /\ m2 <= m3 /\ m3 <= Len(d)
  BY <1>a, <1>b
<1>3. /\ "." \in Letters /\ "-" \in Letters
      /\ \A i \in 1 .. Len(d) : d[i] # "." /\ d[i] # "-"
  <2>1. \A i \in 1 .. Len(d) : d[i] \in Digits
    BY DEF AllDigits
  <2> QED  BY <2>1 DEF Digits, Letters
<1>4. dot \in Seq(Letters) /\ dash \in Seq(Letters)
  BY <1>3, Single
<1>5. Without(dot, ".") = <<>> /\ Without(dash, ".") = dash
  <2>1. Without(dot, ".") = <<>>
    BY <1>3, WithoutSingle
  <2>2. Len(dash) = 1 /\ dash[1] = "-"
    BY <1>3, Single
  <2>3. \A k \in 1 .. Len(dash) : k = 1
    BY <2>2
  <2>4. \A k \in 1 .. Len(dash) : dash[k] # "."
    BY <2>2, <2>3
  <2> HIDE DEF dash
  <2> QED  BY <1>4, <2>1, <2>4, WithoutNone
<1>6. ASSUME NEW i \in Nat \ {0}, NEW j \in Nat, i <= j + 1, j <= Len(d)
      PROVE  /\ SubSeq(d, i, j) \in Seq(Letters)
             /\ \A k \in 1 .. Len(SubSeq(d, i, j)) :
                  SubSeq(d, i, j)[k] # "." /\ SubSeq(d, i, j)[k] # "-"
  <2> DEFINE p == SubSeq(d, i, j)
  <2>1. /\ p \in Seq(Letters)
        /\ \A k \in 1 .. Len(p) : \E n \in 1 .. Len(d) : p[k] = d[n]
    BY <1>6, PartsAreLetters, Zenon
  <2> HIDE DEF p
  <2>2. \A k \in 1 .. Len(p) : p[k] # "." /\ p[k] # "-"
    BY <1>3, <2>1
  <2> QED  BY <2>1, <2>2 DEF p
<1> DEFINE ab == SubSeq(d, 1, m2)
           abc == SubSeq(d, 1, m3)
<1>7. /\ a \o b = ab /\ ab \o c = abc /\ abc \o e = d
  <2>1. SubSeq(d, 1, Len(d)) = d
    OBVIOUS
  <2>2. /\ SubSeq(d, 1, m1) \o SubSeq(d, m1 + 1, m2) = SubSeq(d, 1, m2)
        /\ SubSeq(d, 1, m2) \o SubSeq(d, m2 + 1, m3) = SubSeq(d, 1, m3)
        /\ SubSeq(d, 1, m3) \o SubSeq(d, m3 + 1, Len(d)) = SubSeq(d, 1, Len(d))
    <3>1. Len(d) \in Nat /\ m2 <= Len(d)
      BY <1>1
    <3> HIDE DEF m1, m2, m3
    <3> QED  BY <1>1, <3>1, JoinParts, SMTT(40)
  <2> QED  BY <2>1, <2>2, Zenon
<1>8. /\ a \in Seq(Letters) /\ b \in Seq(Letters) /\ c \in Seq(Letters) /\ e \in Seq(Letters)
      /\ ab \in Seq(Letters) /\ abc \in Seq(Letters)
      /\ Without(a, ".") = a /\ Without(b, ".") = b /\ Without(c, ".") = c
      /\ Without(e, ".") = e /\ Without(e, "-") = e
      /\ \A k \in 1 .. Len(abc) : abc[k] # "-"
  <2>1. /\ m1 + 1 \in Nat \ {0} /\ m2 + 1 \in Nat \ {0} /\ m3 + 1 \in Nat \ {0} /\ 1 \in Nat \ {0}
        /\ m1 <= Len(d) /\ m2 <= Len(d) /\ m3 <= Len(d) /\ Len(d) <= Len(d)
        /\ m1 + 1 <= m2 + 1 /\ m2 + 1 <= m3 + 1 /\ m3 + 1 <= Len(d) + 1
        /\ 1 <= m1 + 1 /\ 1 <= m2 + 1 /\ 1 <= m3 + 1
    BY <1>1
  <2> DEFINE Plain(p) == /\ p \in Seq(Letters)
                         /\ \A k \in 1 .. Len(p) : p[k] # "." /\ p[k] # "-"
  <2>2. Plain(a) /\ Plain(b) /\ Plain(c) /\ Plain(e) /\ Plain(ab) /\ Plain(abc)
    <3> HIDE DEF m1, m2, m3
    <3> QED  BY <1>1, <1>6, <2>1
  <2>3. ASSUME NEW p, Plain(p) PROVE Without(p, ".") = p /\ Without(p, "-") = p
    BY <2>3, WithoutNone
  <2> HIDE DEF a, b, c, e, ab, abc
  <2> QED  BY <2>2, <2>3
<1> HIDE DEF a, b, c, e, ab, abc, dot, dash
<1> DEFINE f == a \o dot \o b \o dot \o c \o dash \o e
<1>9. Without(f, ".") = abc \o dash \o e
  <2>1. /\ Leaves(a, ".", a) /\ Leaves(b, ".", b) /\ Leaves(c, ".", c) /\ Leaves(e, ".", e)
        /\ Leaves(dot, ".", <<>>) /\ Leaves(dash, ".", dash)
    BY <1>4, <1>5, <1>8 DEF Leaves
  <2>2. Leaves(f, ".", a \o b \o c \o dash \o e)
    BY <1>8, <2>1, DotsAreOut, Zenon
  <2>3. Without(f, ".") = a \o b \o c \o dash \o e
    BY <2>2, Zenon DEF Leaves
  <2> QED  BY <1>7, <2>3, Zenon
<1>10. RemoveFirst(abc \o dash \o e, "-") = d
  <2>1. RemoveFirst(abc \o dash \o e, "-") = abc \o e
    BY <1>3, <1>8, RemoveOnly DEF dash
  <2> QED  BY <1>7, <2>1, Zenon
<1>11. Without(abc \o dash \o e, "-") = d
  <2>1. Without(abc \o dash \o e, "-") = abc \o Without(e, "-")
    BY <1>3, <1>8, OneOut DEF dash
  <2> QED  BY <1>7, <1>8, <2>1, Zenon
<1>12. Formatted(d) = f
  BY <1>2
<1> HIDE DEF f
<1>13. ValidCpf(Formatted(d))
  <2>1. RemoveFirst(Without(Formatted(d), "."), "-") = d
    BY <1>9, <1>10, <1>12, Zenon
  <2>2. Trimmed(d) = d /\ IsNumber(d)
    BY DigitsAreNumbers
  <2> QED  BY <2>1, <2>2, Zenon DEF ValidCpf
<1>14. Cpf(Formatted(d)) = d
  <2>1. Without(Without(Formatted(d), "."), "-") = d
    BY <1>9, <1>11, <1>12, Zenon
  <2> QED  BY <2>1, DigitsAreCpf DEF Cpf
<1> QED  BY <1>13, <1>14

-----------------------------------------------------------------------------

\* The table never holds two rows of one username or of one email, and a request that was
\* told so has its row there: no row ever goes or changes.
AccountsInv ==
    /\ \A u, v \in users : Conflicts(u, v) => u = v
    /\ \A r \in Requests : req[r].pc = "registered" => PersonOf(req[r].form) \in users

\* A form that was not refused has a CPF that was found valid.
CpfsInv ==
    \A r \in Requests : req[r].pc \in {"hash", "insert", "registered"} =>
        req[r].form \in Form /\ ValidCpf(req[r].form.cpf)

RegistrationInv ==
    /\ req \in [Requests -> Request]
    /\ AccountsInv /\ CpfsInv

\* A request whose steps before the insertion change no row.
LEMMA FormStep ==
  ASSUME RegistrationInv, NEW r \in Requests, Submit(r) \/ Hash(r) \/ StoreFails(r)
  PROVE  RegistrationInv'
<1> USE DEF RegistrationInv
<1>1. users' = users /\ \A q \in Requests \ {r} : req'[q] = req[q]
  BY DEF Submit, Hash, StoreFails
<1>3. CASE Submit(r)
  <2>1. PICK form \in Form :
          LET errors == Merged(UserErrors(form), PersonErrors(form))
          IN  req'[r] = [pc |-> IF errors = {} THEN "hash" ELSE "refused",
                         form |-> form, errors |-> errors]
    BY <1>3 DEF Submit
  <2>3. req' \in [Requests -> Request]
    <3>1. Merged(UserErrors(form), PersonErrors(form)) \subseteq UserFields \cup PersonFields
      BY DEF Merged, UserErrors, PersonErrors, PersonFields
    <3>2. req'[r] \in Request
      BY <2>1, <3>1 DEF Request
    <3> QED  BY <1>3, <3>2 DEF Submit
  <2>4. req'[r].pc # "registered"
    BY <2>1
  <2>5. AccountsInv'
    BY <1>1, <2>4 DEF AccountsInv, PersonOf, Conflicts
  <2>7. CpfsInv'
    <3>1. ASSUME req'[r].pc = "hash" PROVE ValidCpf(form.cpf)
      <4>1. Merged(UserErrors(form), PersonErrors(form)) = {}
        BY <2>1, <3>1
      <4>2. "cpf" \notin PersonErrors(form)
        BY <4>1 DEF Merged
      <4> QED  BY <4>2 DEF PersonErrors
    <3>2. req'[r].pc \in {"hash", "refused"} /\ req'[r].form = form
      BY <2>1
    <3> QED  BY <1>1, <3>1, <3>2 DEF CpfsInv
  <2> QED  BY <2>3, <2>5, <2>7
<1>4. CASE Hash(r) \/ StoreFails(r)
  <2>1. req'[r].pc # "registered" /\ req' \in [Requests -> Request]
    BY <1>4 DEF Hash, StoreFails, Request
  <2>2. AccountsInv'
    BY <1>1, <2>1 DEF AccountsInv, PersonOf, Conflicts
  <2>4. CpfsInv'
    <3>1. /\ req'[r].form = req[r].form
          /\ req'[r].pc = "failed" \/ req[r].pc = "hash"
      BY <1>4 DEF Hash, StoreFails, Request
    <3>2. ASSUME NEW q \in Requests, req'[q].pc \in {"hash", "insert", "registered"}
          PROVE  req'[q].form \in Form /\ ValidCpf(req'[q].form.cpf)
      <4>1. req'[q].form = req[q].form /\ req[q].pc \in {"hash", "insert", "registered"}
        BY <1>1, <3>1, <3>2
      <4> QED  BY <4>1 DEF CpfsInv
    <3> QED  BY <3>2 DEF CpfsInv
  <2> QED  BY <2>1, <2>2, <2>4
<1> QED  BY <1>3, <1>4

\* The insertion takes place only when no row there has the username or the email.
LEMMA InsertStep ==
  ASSUME RegistrationInv, NEW r \in Requests, CreatePerson(r)
  PROVE  RegistrationInv'
<1> USE DEF RegistrationInv
<1>a. PICK person : person = PersonOf(req[r].form)
  OBVIOUS
<1>1. \/ /\ \A u \in users : ~Conflicts(person, u)
         /\ users' = users \cup {person} /\ req' = [req EXCEPT ![r].pc = "registered"]
      \/ users' = users /\ req' = [req EXCEPT ![r].pc = "failed"]
  BY <1>a DEF CreatePerson
<1>2. /\ \A q \in Requests \ {r} : req'[q] = req[q]
      /\ req'[r].pc = "failed" \/ (person \in users' /\ req'[r].pc = "registered")
      /\ req'[r].form = req[r].form
      /\ req' \in [Requests -> Request]
  BY <1>1 DEF Request
<1>3. \A u, v \in users' : Conflicts(u, v) => u = v
  BY <1>1 DEF AccountsInv, Conflicts
<1>4. ASSUME NEW q \in Requests, req'[q].pc = "registered"
      PROVE  PersonOf(req'[q].form) \in users'
  <2>1. CASE q = r
    BY <1>a, <1>2, <1>4, <2>1
  <2>2. CASE q # r
    BY <1>1, <1>2, <1>4, <2>2 DEF AccountsInv
  <2> QED  BY <2>1, <2>2
<1>5. AccountsInv'
  BY <1>3, <1>4 DEF AccountsInv, Conflicts, PersonOf
<1>7. CpfsInv'
  <2>1. req[r].pc = "insert"
    BY DEF CreatePerson
  <2> QED  BY <1>2, <2>1 DEF CpfsInv
<1> QED  BY <1>2, <1>5, <1>7

LEMMA RegistrationInductive == Spec => []RegistrationInv
<1>1. Init => RegistrationInv
  BY DEF Init, RegistrationInv, AccountsInv, CpfsInv, Request
<1>2. RegistrationInv /\ [Next]_vars => RegistrationInv'
  <2> SUFFICES ASSUME RegistrationInv, [Next]_vars PROVE RegistrationInv'
    OBVIOUS
  <2>1. CASE UNCHANGED vars
    BY <2>1 DEF RegistrationInv, AccountsInv, CpfsInv, PersonOf, Conflicts, vars
  <2>2. CASE Next
    BY <2>2, FormStep, InsertStep DEF Next
  <2> QED  BY <2>1, <2>2
<1> QED  BY <1>1, <1>2, PTL DEF Spec

\* Whoever was told that the registration succeeded has the one account of the username,
\* and the one of the email, for any number of registrations at once (people.repository.ts,
\* the unique keys of the users table).
THEOREM RegisteredAccountsAreTheirs == Spec => []AccountsAreTheirs
<1>1. RegistrationInv => AccountsAreTheirs
  <2> SUFFICES ASSUME RegistrationInv, NEW r \in Requests, req[r].pc = "registered"
               PROVE  /\ Cardinality({u \in users : u.username = req[r].form.username}) = 1
                      /\ {u \in users : u.email = req[r].form.email} = {PersonOf(req[r].form)}
    BY DEF AccountsAreTheirs
  <2>1. PICK person \in users : person = PersonOf(req[r].form)
    BY DEF RegistrationInv, AccountsInv
  <2>2. person.username = req[r].form.username /\ person.email = req[r].form.email
    BY <2>1 DEF PersonOf
  <2>3. \A u \in users : u.username = person.username \/ u.email = person.email => u = person
    BY DEF RegistrationInv, AccountsInv, Conflicts
  <2>4. {u \in users : u.username = req[r].form.username} = {person}
    BY <2>2, <2>3
  <2>5. {u \in users : u.email = req[r].form.email} = {person}
    BY <2>2, <2>3
  <2> QED  BY <2>1, <2>4, <2>5, FS_Singleton
<1> QED  BY <1>1, RegistrationInductive, PTL

\* A CPF typed with digits, dots and at most one dash is stored with these digits, and
\* what it is shown as parses to it, for any length, any groups and any input (cpf.ts:
\* create takes out characters one way, validate another, and toString puts some back in).
THEOREM CpfsAreKept == Spec => []CpfIsKept
<1>1. RegistrationInv => CpfIsKept
  <2> SUFFICES ASSUME RegistrationInv, NEW r \in Requests, req[r].pc = "registered",
                      NEW input, input = req[r].form.cpf,
                      NEW d, d = Without(Without(input, "."), "-"), AllDigits(d),
                      \A i, j \in DOMAIN input : input[i] = "-" /\ input[j] = "-" => i = j
               PROVE  /\ \E u \in users : u.cpf = d /\ u.username = req[r].form.username
                      /\ ValidCpf(Formatted(d)) /\ Cpf(Formatted(d)) = d
    BY DEF CpfIsKept
  <2>1. req[r].form \in Form /\ ValidCpf(input)
    BY DEF RegistrationInv, CpfsInv
  <2>2. input \in Seq(Letters)
    <3>1. input \in CpfInputs
      BY <2>1 DEF Form
    <3> QED  BY <3>1, RegistrationAssumption, Zenon
  <2>3. d \in Seq(Letters)
    <3>1. Without(input, ".") \in Seq(Letters)
      BY <2>2, WithoutDraws, Zenon DEF Drawn
    <3> QED  BY <3>1, WithoutDraws, Zenon DEF Drawn
  <2>4. RemoveFirst(Without(input, "."), "-") = d
    <3>1. DOMAIN input = 1 .. Len(input)
      BY <2>2
    <3> QED  BY <2>2, <3>1, DashIsOut, Zenon
  <2>5. Len(d) = CpfLength
    <3>1. Trimmed(d) = d
      BY <2>3, DigitsAreNumbers
    <3> QED  BY <2>1, <2>4, <3>1, Zenon DEF ValidCpf
  <2>6. ValidCpf(Formatted(d)) /\ Cpf(Formatted(d)) = d
    BY <2>3, <2>5, FormattedIsKept
  <2>7. PersonOf(req[r].form).cpf = d
    <3>1. Cpf(input) = d
      BY <2>3, DigitsAreCpf, Zenon DEF Cpf
    <3> QED  BY <3>1 DEF PersonOf
  <2>8. PersonOf(req[r].form) \in users
    BY DEF RegistrationInv, AccountsInv
  <2>9. PersonOf(req[r].form).username = req[r].form.username
    BY DEF PersonOf
  <2> QED  BY <2>6, <2>7, <2>8, <2>9
<1> QED  BY <1>1, RegistrationInductive, PTL
=============================================================================
