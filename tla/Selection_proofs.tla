--------------------------- MODULE Selection_proofs ---------------------------
(***************************************************************************)
(* What the two halves of the selection engine keep: a rotation channel,   *)
(* for every library, channel, history and shuffle, and a curated queue,   *)
(* for every file, library and setting and any number of jobs.             *)
(***************************************************************************)
EXTENDS Rotation, Rounds, TLAPS, FiniteSetTheorems, WellFoundedInduction

----------------------------------------------------------------------------
(* Induction over the naturals, by way of a least counterexample.          *)

LEMMA Least ==
  ASSUME NEW T, T \subseteq Nat, T # {}
  PROVE  \E x \in T : \A y \in T : ~(y < x)
<1>1. IsWellFoundedOn(OpToRel(<, Nat), Nat)
  BY NatLessThanWellFounded
<1>2. \E x \in T : \A y \in T : <<y, x>> \notin OpToRel(<, Nat)
  BY <1>1, WFMin
<1> QED  BY <1>2 DEF OpToRel

LEMMA Induction ==
  ASSUME NEW T, 0 \in T, \A n \in Nat : n \in T => n + 1 \in T
  PROVE  \A n \in Nat : n \in T
<1> SUFFICES ASSUME Nat \ T # {} PROVE FALSE
  OBVIOUS
<1>1. PICK x \in Nat \ T : \A y \in Nat \ T : ~(y < x)
  BY Least
<1>2. x # 0 /\ x - 1 \in Nat
  BY <1>1
<1>3. x - 1 \in T
  BY <1>1, <1>2
<1> QED  BY <1>1, <1>2, <1>3

----------------------------------------------------------------------------
(* Lists.                                                                  *)

\* u is what the steps F make of v, one after the other.
Goes(u, n, v, F, V) ==
  u \in [0..n -> V] /\ u[0] = v /\ \A i \in 1..n : u[i] = F[i][u[i - 1]]

LEMMA Iterates ==
  ASSUME NEW V, NEW n \in Nat, NEW v \in V, NEW F \in [1..n -> [V -> V]]
  PROVE  \E u : Goes(u, n, v, F, V)
<1> DEFINE T == {m \in Nat : m <= n => \E u : Goes(u, m, v, F, V)}
<1>1. 0 \in T
  <2>1. Goes([i \in 0..0 |-> v], 0, v, F, V)
    BY DEF Goes
  <2> QED  BY <2>1
<1>2. ASSUME NEW m \in Nat, m \in T PROVE m + 1 \in T
  <2> SUFFICES ASSUME m + 1 <= n PROVE \E u : Goes(u, m + 1, v, F, V)
    OBVIOUS
  <2>1. PICK u : Goes(u, m, v, F, V)
    BY <1>2
  <2> DEFINE x == F[m + 1][u[m]]
             r == [i \in 0..(m + 1) |-> IF i = m + 1 THEN x ELSE u[i]]
  <2>2. x \in V
    BY <2>1 DEF Goes
  <2>3. r \in [0..(m + 1) -> V] /\ r[0] = v
    BY <2>1, <2>2 DEF Goes
  <2>4. ASSUME NEW i \in 1..(m + 1) PROVE r[i] = F[i][r[i - 1]]
    <3>1. CASE i = m + 1
      <4>1. r[m + 1] = x /\ r[m] = u[m]
        OBVIOUS
      <4> QED  BY <3>1, <4>1
    <3>2. CASE i \in 1..m
      <4>1. r[i] = u[i] /\ r[i - 1] = u[i - 1]
        BY <3>2
      <4>2. u[i] = F[i][u[i - 1]]
        BY <2>1, <3>2 DEF Goes
      <4> QED  BY <4>1, <4>2
    <3> QED  BY <3>1, <3>2
  <2> HIDE DEF r, x
  <2>5. Goes(r, m + 1, v, F, V)
    BY <2>3, <2>4 DEF Goes
  <2> QED  BY <2>5
<1> HIDE DEF T
<1>3. n \in T
  BY <1>1, <1>2, Induction
<1> QED  BY <1>3 DEF T

\* The loop of a filter.
Filters(u, s, S, X) ==
  /\ u \in [0..Len(s) -> Seq(X)]
  /\ u[0] = <<>> /\ Only(s, S) = u[Len(s)]
  /\ \A i \in 1..Len(s) : u[i] = IF s[i] \in S THEN Append(u[i - 1], s[i]) ELSE u[i - 1]

LEMMA OnlyLoop ==
  ASSUME NEW X, NEW s \in Seq(X), NEW S
  PROVE  \E u : Filters(u, s, S, X)
<1> DEFINE n == Len(s)
           F == [i \in 1..n |-> [r \in Seq(X) |-> IF s[i] \in S THEN Append(r, s[i]) ELSE r]]
<1>1. n \in Nat /\ \A i \in 1..n : s[i] \in X
  OBVIOUS
<1>2. F \in [1..n -> [Seq(X) -> Seq(X)]]
  <2>1. \A i \in 1..n, r \in Seq(X) : (IF s[i] \in S THEN Append(r, s[i]) ELSE r) \in Seq(X)
    BY <1>1
  <2> HIDE DEF n
  <2> QED  BY <2>1
<1>3. \A i \in 1..n, r \in Seq(X) : F[i][r] = IF s[i] \in S THEN Append(r, s[i]) ELSE r
  OBVIOUS
<1> HIDE DEF F
<1>4. <<>> \in Seq(X)
  OBVIOUS
<1>5. PICK u : Goes(u, n, <<>>, F, Seq(X))
  BY <1>1, <1>2, <1>4, Iterates
<1>6. \A i \in 1..n : u[i] = IF s[i] \in S THEN Append(u[i - 1], s[i]) ELSE u[i - 1]
  <2> TAKE i \in 1..n
  <2>1. i - 1 \in 0..n
    BY <1>1
  <2>2. u[i - 1] \in Seq(X)
    BY <1>5, <2>1 DEF Goes
  <2> QED  BY <1>3, <1>5, <2>2 DEF Goes
<1> DEFINE P(w) == w = [i \in 0..n |->
                     IF i = 0 THEN <<>> ELSE IF s[i] \in S THEN Append(w[i - 1], s[i]) ELSE w[i - 1]]
           c == CHOOSE w : P(w)
<1>7. P(u)
  <2>1. u = [i \in 0..n |-> u[i]]
    BY <1>5 DEF Goes
  <2>2. \A i \in 0..n :
          u[i] = IF i = 0 THEN <<>> ELSE IF s[i] \in S THEN Append(u[i - 1], s[i]) ELSE u[i - 1]
    <3> TAKE i \in 0..n
    <3>1. i # 0 => i \in 1..n
      BY <1>1
    <3> HIDE DEF n
    <3> QED  BY <1>5, <1>6, <3>1 DEF Goes
  <2> HIDE DEF n
  <2> QED  BY <2>1, <2>2
<1>8. P(c)
  BY <1>7
<1>9. Only(s, S) = c[n]
  BY DEF Only
<1> HIDE DEF c
<1>10. \A i \in 0..n : c[i] = u[i]
  <2> DEFINE T == {m \in Nat : m <= n => c[m] = u[m]}
  <2>1. 0 \in T
    <3>1. 0 \in 0..n
      BY <1>1
    <3> HIDE DEF n
    <3> QED  BY <1>5, <1>8, <3>1 DEF Goes
  <2>2. ASSUME NEW m \in Nat, m \in T PROVE m + 1 \in T
    <3> SUFFICES ASSUME m + 1 <= n PROVE c[m + 1] = u[m + 1]
      OBVIOUS
    <3>1. c[m] = u[m]
      BY <2>2
    <3>2. c[m + 1] = IF s[m + 1] \in S THEN Append(c[m], s[m + 1]) ELSE c[m]
      <4>1. m + 1 \in 0..n /\ m + 1 # 0 /\ (m + 1) - 1 = m
        BY <1>1
      <4> HIDE DEF n
      <4> QED  BY <1>8, <4>1
    <3> QED  BY <3>1, <3>2, <1>6
  <2> HIDE DEF T
  <2>3. \A i \in Nat : i \in T
    BY <2>1, <2>2, Induction
  <2> QED  BY <2>3, <1>1 DEF T
<1>11. Only(s, S) = u[n]
  BY <1>1, <1>9, <1>10
<1> QED  BY <1>5, <1>6, <1>11 DEF Goes, Filters

LEMMA Appended ==
  ASSUME NEW X, NEW r \in Seq(X), NEW e \in X
  PROVE  /\ Append(r, e) \in Seq(X) /\ ToSet(Append(r, e)) = ToSet(r) \union {e}
         /\ (IsInjective(r) /\ e \notin ToSet(r)) => IsInjective(Append(r, e))
<1> DEFINE a == Append(r, e)
<1>1. /\ a \in Seq(X) /\ Len(a) = Len(r) + 1 /\ DOMAIN a = 1..(Len(r) + 1) /\ DOMAIN r = 1..Len(r)
      /\ a[Len(r) + 1] = e /\ \A i \in 1..Len(r) : a[i] = r[i]
      /\ Len(r) \in Nat
  OBVIOUS
<1> HIDE DEF a
<1>2. ToSet(a) = ToSet(r) \union {e}
  <2>1. ASSUME NEW i \in DOMAIN a PROVE a[i] \in ToSet(r) \union {e}
    <3>1. i \in 1..Len(r) \/ i = Len(r) + 1
      BY <1>1
    <3> QED  BY <1>1, <3>1 DEF ToSet
  <2>2. ASSUME NEW i \in DOMAIN r PROVE r[i] \in ToSet(a)
    <3>1. i \in DOMAIN a /\ a[i] = r[i]
      BY <1>1
    <3> QED  BY <3>1 DEF ToSet
  <2>3. e \in ToSet(a)
    <3>1. Len(r) + 1 \in DOMAIN a
      BY <1>1
    <3> QED  BY <1>1, <3>1 DEF ToSet
  <2> QED  BY <2>1, <2>2, <2>3 DEF ToSet
<1>3. ASSUME IsInjective(r), e \notin ToSet(r) PROVE IsInjective(a)
  <2>1. \A i \in 1..Len(r) : a[i] # e
    BY <1>1, <1>3 DEF ToSet
  <2> SUFFICES ASSUME NEW i \in DOMAIN a, NEW j \in DOMAIN a, a[i] = a[j] PROVE i = j
    BY DEF IsInjective
  <2>2. i \in 1..Len(r) \/ i = Len(r) + 1
    BY <1>1
  <2>3. j \in 1..Len(r) \/ j = Len(r) + 1
    BY <1>1
  <2>4. CASE i \in 1..Len(r) /\ j \in 1..Len(r)
    BY <1>1, <1>3, <2>4 DEF IsInjective
  <2> QED  BY <1>1, <2>1, <2>2, <2>3, <2>4
<1> QED  BY <1>1, <1>2, <1>3 DEF a

\* A filter keeps what is in the set, each as often as it was there.
LEMMA OnlyKeeps ==
  ASSUME NEW X, NEW s \in Seq(X), NEW S
  PROVE  /\ Only(s, S) \in Seq(X) /\ ToSet(Only(s, S)) = ToSet(s) \intersect S
         /\ IsInjective(s) => IsInjective(Only(s, S))
<1> DEFINE n == Len(s)
<1>1. n \in Nat /\ DOMAIN s = 1..n /\ \A i \in 1..n : s[i] \in X
  OBVIOUS
<1>2. PICK u : Filters(u, s, S, X)
  BY OnlyLoop
<1>3. /\ u \in [0..n -> Seq(X)] /\ u[0] = <<>> /\ Only(s, S) = u[n]
       /\ \A i \in 1..n : u[i] = IF s[i] \in S THEN Append(u[i - 1], s[i]) ELSE u[i - 1]
  BY <1>2 DEF Filters
<1> DEFINE upTo(m) == {s[i] : i \in 1..m}
           Kept(m) == /\ ToSet(u[m]) = upTo(m) \intersect S
                      /\ IsInjective(s) => IsInjective(u[m])
           T == {m \in Nat : m <= n => Kept(m)}
<1>4. 0 \in T
  <2>1. ToSet(u[0]) = {} /\ IsInjective(u[0]) /\ upTo(0) = {}
    BY <1>3 DEF ToSet, IsInjective
  <2> QED  BY <2>1
<1>5. ASSUME NEW m \in Nat, m \in T PROVE m + 1 \in T
  <2> SUFFICES ASSUME m + 1 <= n PROVE Kept(m + 1)
    OBVIOUS
  <2>1. Kept(m)
    BY <1>5
  <2>2. m + 1 \in 1..n /\ m \in 0..n /\ (m + 1) - 1 = m
    BY <1>1
  <2>3. u[m] \in Seq(X) /\ s[m + 1] \in X
    BY <1>1, <1>3, <2>2
  <2>4. u[m + 1] = IF s[m + 1] \in S THEN Append(u[m], s[m + 1]) ELSE u[m]
    BY <1>3, <2>2
  <2>5. upTo(m + 1) = upTo(m) \union {s[m + 1]}
    <3>1. \A i \in 1..(m + 1) : i \in 1..m \/ i = m + 1
      OBVIOUS
    <3>2. m + 1 \in 1..(m + 1) /\ \A i \in 1..m : i \in 1..(m + 1)
      OBVIOUS
    <3> QED  BY <3>1, <3>2
  <2>6. IsInjective(s) => s[m + 1] \notin upTo(m)
    <3>1. \A i \in 1..m : i \in 1..n /\ i # m + 1
      BY <1>1, <2>2
    <3> QED  BY <1>1, <2>2, <3>1 DEF IsInjective
  <2> HIDE DEF upTo
  <2>7. CASE s[m + 1] \in S
    <3>1. u[m + 1] = Append(u[m], s[m + 1])
      BY <2>4, <2>7
    <3>2. ToSet(u[m + 1]) = ToSet(u[m]) \union {s[m + 1]}
      BY <2>3, <3>1, Appended
    <3>3. IsInjective(s) => IsInjective(u[m + 1])
      BY <2>1, <2>3, <2>6, <3>1, Appended
    <3> QED  BY <2>1, <2>5, <2>7, <3>2, <3>3
  <2>8. CASE s[m + 1] \notin S
    BY <2>1, <2>4, <2>5, <2>8
  <2> QED  BY <2>7, <2>8
<1> HIDE DEF T
<1>6. n \in T
  BY <1>1, <1>4, <1>5, Induction
<1>7. Kept(n)
  BY <1>1, <1>6 DEF T
<1>8. upTo(n) = ToSet(s)
  BY <1>1 DEF ToSet
<1>9. u[n] \in Seq(X)
  BY <1>1, <1>3
<1> QED  BY <1>3, <1>7, <1>8, <1>9

LEMMA WithoutKeeps ==
  ASSUME NEW X, NEW s \in Seq(X), NEW S
  PROVE  /\ Without(s, S) \in Seq(X) /\ ToSet(Without(s, S)) = ToSet(s) \ S
         /\ IsInjective(s) => IsInjective(Without(s, S))
BY OnlyKeeps DEF Without

\* One list after another, and an order of a list.
LEMMA Joined ==
  ASSUME NEW X, NEW s \in Seq(X), NEW t \in Seq(X)
  PROVE  /\ s \o t \in Seq(X) /\ ToSet(s \o t) = ToSet(s) \union ToSet(t)
         /\ (IsInjective(s) /\ IsInjective(t) /\ ToSet(s) \intersect ToSet(t) = {}) => IsInjective(s \o t)
<1> DEFINE r == s \o t
           m == Len(s)
           n == Len(t)
<1>1. /\ m \in Nat /\ n \in Nat /\ r \in Seq(X) /\ Len(r) = m + n
      /\ DOMAIN s = 1..m /\ DOMAIN t = 1..n /\ DOMAIN r = 1..(m + n)
  OBVIOUS
<1>2. /\ \A i \in 1..m : r[i] = s[i]
      /\ \A i \in 1..n : r[m + i] = t[i]
  OBVIOUS
<1> HIDE DEF r, m, n
<1>3. \A i \in DOMAIN r : i \in 1..m \/ \E j \in 1..n : i = m + j
  <2> SUFFICES ASSUME NEW i \in DOMAIN r, i \notin 1..m PROVE \E j \in 1..n : i = m + j
    OBVIOUS
  <2>1. i - m \in 1..n /\ i = m + (i - m)
    BY <1>1
  <2> QED  BY <2>1
<1>4. /\ \A i \in 1..m : i \in DOMAIN r
      /\ \A i \in 1..n : m + i \in DOMAIN r
  BY <1>1
<1>5. ToSet(r) = ToSet(s) \union ToSet(t)
  <2>1. ASSUME NEW i \in DOMAIN r PROVE r[i] \in ToSet(s) \union ToSet(t)
    BY <1>1, <1>2, <1>3 DEF ToSet
  <2>2. ASSUME NEW i \in DOMAIN s PROVE s[i] \in ToSet(r)
    BY <1>1, <1>2, <1>4 DEF ToSet
  <2>3. ASSUME NEW i \in DOMAIN t PROVE t[i] \in ToSet(r)
    BY <1>1, <1>2, <1>4 DEF ToSet
  <2> QED  BY <2>1, <2>2, <2>3 DEF ToSet
<1>6. ASSUME IsInjective(s), IsInjective(t), ToSet(s) \intersect ToSet(t) = {},
             NEW i \in DOMAIN r, NEW j \in DOMAIN r, r[i] = r[j]
      PROVE  i = j
  <2>1. \A k \in 1..m : r[k] \in ToSet(s)
    BY <1>1, <1>2 DEF ToSet
  <2>2. \A k \in 1..n : r[m + k] \in ToSet(t)
    BY <1>1, <1>2 DEF ToSet
  <2>3. CASE i \in 1..m /\ j \in 1..m
    BY <1>1, <1>2, <1>6, <2>3 DEF IsInjective
  <2>4. CASE \E k \in 1..n, l \in 1..n : i = m + k /\ j = m + l
    <3>1. PICK k \in 1..n, l \in 1..n : i = m + k /\ j = m + l
      BY <2>4
    <3>2. t[k] = t[l]
      BY <1>2, <1>6, <3>1
    <3> QED  BY <1>1, <1>6, <3>1, <3>2 DEF IsInjective
  <2> QED  BY <1>3, <1>6, <2>1, <2>2, <2>3, <2>4
<1> QED  BY <1>1, <1>5, <1>6 DEF r, IsInjective

LEMMA Shuffled ==
  ASSUME NEW X, NEW s \in Seq(X), NEW r \in Shuffles(s)
  PROVE  r \in Seq(X) /\ ToSet(r) \subseteq ToSet(s) /\ (IsInjective(s) => IsInjective(r))
<1>1. PICK p \in [DOMAIN s -> DOMAIN s] : IsInjective(p) /\ r = [i \in DOMAIN s |-> s[p[i]]]
  BY DEF Shuffles
<1>2. DOMAIN s = 1..Len(s) /\ Len(s) \in Nat /\ DOMAIN r = DOMAIN s
      /\ \A i \in DOMAIN s : r[i] = s[p[i]] /\ r[i] \in X
  BY <1>1
<1>3. r \in Seq(X)
  <2>1. r = [i \in 1..Len(s) |-> r[i]]
    BY <1>1, <1>2
  <2> QED  BY <1>2, <2>1
<1> QED  BY <1>1, <1>2, <1>3 DEF ToSet, IsInjective

----------------------------------------------------------------------------
(* Lists of leaves.                                                        *)

\* No two elements of s have one key.
Keyed(s) == \A x, y \in ToSet(s) : x.key = y.key => x = y

LEMMA KeysAre ==
  ASSUME NEW X, NEW s \in Seq(X)
  PROVE  /\ KeysOf(s) \in Seq({e.key : e \in ToSet(s)})
         /\ ToSet(KeysOf(s)) = {e.key : e \in ToSet(s)}
         /\ IsInjective(KeysOf(s)) <=> (IsInjective(s) /\ Keyed(s))
<1>1. DOMAIN s = 1..Len(s) /\ Len(s) \in Nat /\ KeysOf(s) = [i \in 1..Len(s) |-> s[i].key]
  BY DEF KeysOf
<1>2. \A i \in 1..Len(s) : s[i] \in ToSet(s)
  BY <1>1 DEF ToSet
<1>3. KeysOf(s) \in Seq({e.key : e \in ToSet(s)})
  BY <1>1, <1>2
<1>4. ToSet(KeysOf(s)) = {e.key : e \in ToSet(s)}
  BY <1>1 DEF ToSet
<1>5. IsInjective(KeysOf(s)) <=> (IsInjective(s) /\ Keyed(s))
  BY <1>1 DEF IsInjective, Keyed, ToSet
<1> QED  BY <1>3, <1>4, <1>5

\* A list in two.
Before(s, i) == SubSeq(s, 1, i - 1)
From(s, i) == SubSeq(s, i, Len(s))

LEMMA Cut ==
  ASSUME NEW X, NEW s \in Seq(X), NEW i \in 1..Len(s)
  PROVE  /\ Before(s, i) \in Seq(X) /\ From(s, i) \in Seq(X)
         /\ ToSet(Before(s, i)) \union ToSet(From(s, i)) = ToSet(s)
         /\ IsInjective(s) => /\ IsInjective(Before(s, i)) /\ IsInjective(From(s, i))
                              /\ ToSet(Before(s, i)) \intersect ToSet(From(s, i)) = {}
<1> DEFINE n == Len(s)
           l == SubSeq(s, 1, i - 1)
           r == SubSeq(s, i, n)
<1>1. n \in Nat /\ DOMAIN s = 1..n /\ i \in 1..n /\ \A k \in 1..n : s[k] \in X
  OBVIOUS
<1>2. /\ l \in Seq(X) /\ Len(l) = i - 1 /\ DOMAIN l = 1..(i - 1)
      /\ \A k \in 1..(i - 1) : l[k] = s[k]
  OBVIOUS
<1>3. /\ r \in Seq(X) /\ Len(r) = n - i + 1 /\ DOMAIN r = 1..(n - i + 1)
      /\ \A k \in 1..(n - i + 1) : r[k] = s[i + k - 1]
  OBVIOUS
<1>7. Before(s, i) = l /\ From(s, i) = r
  BY DEF Before, From
<1> HIDE DEF n, l, r
<1>4. /\ \A k \in 1..(i - 1) : k \in 1..n
      /\ \A k \in 1..(n - i + 1) : i + k - 1 \in 1..n
  BY <1>1
<1>5. ToSet(l) \union ToSet(r) = ToSet(s)
  <2>1. \A k \in 1..n : k \in 1..(i - 1) \/ (k - i + 1 \in 1..(n - i + 1) /\ i + (k - i + 1) - 1 = k)
    BY <1>1
  <2>2. ASSUME NEW k \in 1..n PROVE s[k] \in ToSet(l) \union ToSet(r)
    <3>1. CASE k \in 1..(i - 1)
      BY <1>2, <3>1 DEF ToSet
    <3>2. CASE k - i + 1 \in 1..(n - i + 1) /\ i + (k - i + 1) - 1 = k
      <4>1. r[k - i + 1] = s[k]
        BY <1>3, <3>2
      <4> QED  BY <1>3, <3>2, <4>1 DEF ToSet
    <3> QED  BY <2>1, <3>1, <3>2
  <2>3. ToSet(l) \subseteq ToSet(s) /\ ToSet(r) \subseteq ToSet(s)
    BY <1>1, <1>2, <1>3, <1>4 DEF ToSet
  <2> QED  BY <1>1, <2>2, <2>3 DEF ToSet
<1>6. ASSUME IsInjective(s) PROVE IsInjective(l) /\ IsInjective(r) /\ ToSet(l) \intersect ToSet(r) = {}
  <2>1. \A j, k \in 1..n : s[j] = s[k] => j = k
    BY <1>1, <1>6 DEF IsInjective
  <2>2. IsInjective(l)
    BY <1>2, <1>4, <2>1 DEF IsInjective
  <2>3. IsInjective(r)
    <3> SUFFICES ASSUME NEW j \in 1..(n - i + 1), NEW k \in 1..(n - i + 1), r[j] = r[k] PROVE j = k
      BY <1>3 DEF IsInjective
    <3>1. i + j - 1 = i + k - 1
      BY <1>3, <1>4, <2>1
    <3> QED  BY <3>1, <1>1
  <2>4. \A j \in 1..(i - 1), k \in 1..(n - i + 1) : l[j] # r[k]
    <3> TAKE j \in 1..(i - 1), k \in 1..(n - i + 1)
    <3>1. j # i + k - 1
      BY <1>1
    <3> QED  BY <1>2, <1>3, <1>4, <2>1, <3>1
  <2> QED  BY <1>2, <1>3, <2>2, <2>3, <2>4 DEF ToSet
<1> QED  BY <1>2, <1>3, <1>5, <1>6, <1>7

LEMMA Single ==
  ASSUME NEW X, NEW e \in X
  PROVE  <<e>> \in Seq(X) /\ ToSet(<<e>>) = {e} /\ IsInjective(<<e>>)
BY DEF ToSet, IsInjective

LEMMA Inserted ==
  ASSUME NEW X, NEW s \in Seq(X), NEW i \in 1..Len(s), NEW e \in X
  PROVE  /\ InsertAt(s, i, e) \in Seq(X) /\ ToSet(InsertAt(s, i, e)) = ToSet(s) \union {e}
         /\ (IsInjective(s) /\ e \notin ToSet(s)) => IsInjective(InsertAt(s, i, e))
<1> DEFINE l == Before(s, i)
           r == From(s, i)
           one == <<e>>
<1>1. InsertAt(s, i, e) = (l \o one) \o r
  BY DEF InsertAt, Before, From
<1>3. one \in Seq(X) /\ ToSet(one) = {e} /\ IsInjective(one)
  BY Single
<1> HIDE DEF one
<1>2. /\ l \in Seq(X) /\ r \in Seq(X) /\ ToSet(l) \union ToSet(r) = ToSet(s)
      /\ IsInjective(s) => IsInjective(l) /\ IsInjective(r) /\ ToSet(l) \intersect ToSet(r) = {}
  BY Cut
<1> HIDE DEF l, r
<1> DEFINE le == l \o one
<1>4. /\ le \in Seq(X) /\ ToSet(le) = ToSet(l) \union {e}
      /\ (IsInjective(l) /\ e \notin ToSet(l)) => IsInjective(le)
  <2>1. /\ le \in Seq(X) /\ ToSet(le) = ToSet(l) \union ToSet(one)
        /\ (IsInjective(l) /\ IsInjective(one) /\ ToSet(l) \intersect ToSet(one) = {}) => IsInjective(le)
    BY <1>2, <1>3, Joined
  <2> HIDE DEF le
  <2> QED  BY <1>3, <2>1
<1>9. InsertAt(s, i, e) = le \o r
  BY <1>1
<1> HIDE DEF le
<1>5. /\ le \o r \in Seq(X) /\ ToSet(le \o r) = ToSet(le) \union ToSet(r)
      /\ (IsInjective(le) /\ IsInjective(r) /\ ToSet(le) \intersect ToSet(r) = {}) => IsInjective(le \o r)
  BY <1>2, <1>4, Joined
<1> QED  BY <1>9, <1>2, <1>4, <1>5

\* Every special finds a place, and takes that of nothing else.
LEMMA SpecialPlaced ==
  ASSUME NEW X, NEW s \in Seq(X), NEW e \in X
  PROVE  /\ PlaceSpecial(s, e) \in Seq(X) /\ ToSet(PlaceSpecial(s, e)) = ToSet(s) \union {e}
         /\ (IsInjective(s) /\ e \notin ToSet(s)) => IsInjective(PlaceSpecial(s, e))
<1> DEFINE later == {i \in DOMAIN s : e.aired > 0 /\ s[i].aired > e.aired}
           first == CHOOSE i \in later : \A j \in later : i <= j
<1>1. PlaceSpecial(s, e) = IF later = {} THEN Append(s, e) ELSE InsertAt(s, first, e)
  BY DEF PlaceSpecial
<1>2. later \subseteq 1..Len(s) /\ Len(s) \in Nat
  OBVIOUS
<1> HIDE DEF later
<1>3. ASSUME later # {} PROVE first \in 1..Len(s)
  <2>4. later \subseteq Nat
    BY <1>2
  <2>1. PICK x \in later : \A y \in later : ~(y < x)
    BY <1>3, <2>4, Least
  <2>2. \A y \in later : x <= y
    BY <1>2, <2>1
  <2>3. first \in later
    BY <2>1, <2>2
  <2> QED  BY <1>2, <2>3
<1> HIDE DEF first
<1> QED  BY <1>1, <1>3, Appended, Inserted

LEMMA SpecialsPlaced ==
  ASSUME NEW X, NEW s \in Seq(X), NEW t \in Seq(X)
  PROVE  /\ PlaceSpecials(s, t) \in Seq(X) /\ ToSet(PlaceSpecials(s, t)) = ToSet(s) \union ToSet(t)
         /\ (IsInjective(s) /\ IsInjective(t) /\ ToSet(s) \intersect ToSet(t) = {})
              => IsInjective(PlaceSpecials(s, t))
<1> DEFINE n == Len(t)
           F == [i \in 1..n |-> [r \in Seq(X) |-> PlaceSpecial(r, t[i])]]
           P(w) == w = [i \in 0..n |-> IF i = 0 THEN s ELSE PlaceSpecial(w[i - 1], t[i])]
           c == CHOOSE w : P(w)
<1>1. n \in Nat /\ DOMAIN t = 1..n /\ \A i \in 1..n : t[i] \in X
  OBVIOUS
<1>2. PlaceSpecials(s, t) = c[n]
  BY DEF PlaceSpecials
<1> HIDE DEF n
<1>3. \A i \in 1..n, r \in Seq(X) : PlaceSpecial(r, t[i]) \in Seq(X)
  BY <1>1, SpecialPlaced
<1>4. F \in [1..n -> [Seq(X) -> Seq(X)]] /\ \A i \in 1..n, r \in Seq(X) : F[i][r] = PlaceSpecial(r, t[i])
  BY <1>3
<1> HIDE DEF F
<1>5. PICK u : Goes(u, n, s, F, Seq(X))
  BY <1>1, <1>4, Iterates
<1>6. P(u)
  <2>1. u = [i \in 0..n |-> u[i]] /\ u[0] = s
    BY <1>5 DEF Goes
  <2>2. ASSUME NEW i \in 1..n PROVE u[i] = PlaceSpecial(u[i - 1], t[i])
    <3>1. i - 1 \in 0..n
      BY <1>1
    <3>2. u[i - 1] \in Seq(X)
      BY <1>5, <3>1 DEF Goes
    <3> QED  BY <1>4, <1>5, <3>2 DEF Goes
  <2>3. \A i \in 0..n : i # 0 => i \in 1..n
    BY <1>1
  <2> QED  BY <2>1, <2>2, <2>3
<1>7. P(c)
  BY <1>6
<1>8. c[0] = s /\ \A i \in 1..n : c[i] = PlaceSpecial(c[i - 1], t[i])
  <2>1. 0 \in 0..n /\ \A i \in 1..n : i \in 0..n /\ i # 0
    BY <1>1
  <2> HIDE DEF c
  <2> QED  BY <1>7, <2>1
<1> HIDE DEF c
<1> DEFINE first(m) == {t[i] : i \in 1..m}
           Placed(m) == /\ c[m] \in Seq(X) /\ ToSet(c[m]) = ToSet(s) \union first(m)
                        /\ (IsInjective(s) /\ IsInjective(t) /\ ToSet(s) \intersect ToSet(t) = {}) => IsInjective(c[m])
           T == {m \in Nat : m <= n => Placed(m)}
<1>9. 0 \in T
  <2>1. first(0) = {}
    OBVIOUS
  <2> QED  BY <1>8, <2>1
<1>10. ASSUME NEW m \in Nat, m \in T PROVE m + 1 \in T
  <2> SUFFICES ASSUME m + 1 <= n PROVE Placed(m + 1)
    OBVIOUS
  <2>1. Placed(m)
    BY <1>10, <1>1
  <2>2. m + 1 \in 1..n /\ (m + 1) - 1 = m
    BY <1>1
  <2>3. c[m + 1] = PlaceSpecial(c[m], t[m + 1]) /\ t[m + 1] \in X /\ t[m + 1] \in ToSet(t)
    BY <1>1, <1>8, <2>2 DEF ToSet
  <2>4. first(m + 1) = first(m) \union {t[m + 1]}
    <3>1. \A i \in 1..(m + 1) : i \in 1..m \/ i = m + 1
      OBVIOUS
    <3>2. m + 1 \in 1..(m + 1) /\ \A i \in 1..m : i \in 1..(m + 1)
      OBVIOUS
    <3> QED  BY <3>1, <3>2
  <2>5. IsInjective(t) => t[m + 1] \notin first(m)
    <3>1. \A i \in 1..m : i \in 1..n /\ i # m + 1
      BY <1>1, <2>2
    <3> QED  BY <1>1, <2>2, <3>1 DEF IsInjective
  <2> HIDE DEF first
  <2> DEFINE had == c[m]
             e == t[m + 1]
  <2>8. had \in Seq(X) /\ e \in X /\ c[m + 1] = PlaceSpecial(had, e)
    BY <2>1, <2>3
  <2> HIDE DEF had, e
  <2>9. /\ c[m + 1] \in Seq(X) /\ ToSet(c[m + 1]) = ToSet(had) \union {e}
        /\ (IsInjective(had) /\ e \notin ToSet(had)) => IsInjective(c[m + 1])
    BY <2>8, SpecialPlaced
  <2>6. c[m + 1] \in Seq(X) /\ ToSet(c[m + 1]) = ToSet(c[m]) \union {t[m + 1]}
    BY <2>9 DEF had, e
  <2>7. (IsInjective(c[m]) /\ t[m + 1] \notin ToSet(c[m])) => IsInjective(c[m + 1])
    BY <2>9 DEF had, e
  <2> QED  BY <2>1, <2>3, <2>4, <2>5, <2>6, <2>7
<1> HIDE DEF T
<1>11. n \in T
  BY <1>1, <1>9, <1>10, Induction
<1>12. Placed(n)
  BY <1>1, <1>11 DEF T
<1>13. first(n) = ToSet(t)
  BY <1>1 DEF ToSet
<1> QED  BY <1>2, <1>12, <1>13

\* The lists of a list one after another.
LEMMA Flattened ==
  ASSUME NEW X, NEW ss \in Seq(Seq(X))
  PROVE  /\ FlattenSeq(ss) \in Seq(X)
         /\ ToSet(FlattenSeq(ss)) = UNION {ToSet(ss[i]) : i \in DOMAIN ss}
         /\ (/\ \A i \in DOMAIN ss : IsInjective(ss[i])
             /\ \A i, j \in DOMAIN ss : i # j => ToSet(ss[i]) \intersect ToSet(ss[j]) = {})
              => IsInjective(FlattenSeq(ss))
<1> DEFINE n == Len(ss)
           F == [i \in 1..n |-> [r \in Seq(X) |-> r \o ss[i]]]
           P(w) == w = [i \in 1..n |-> IF i = 1 THEN ss[i] ELSE w[i - 1] \o ss[i]]
           c == CHOOSE w : P(w)
<1>1. n \in Nat /\ DOMAIN ss = 1..n /\ \A i \in 1..n : ss[i] \in Seq(X)
  OBVIOUS
<1>2. CASE n = 0
  <2>1. FlattenSeq(ss) = ss /\ ss = <<>>
    BY <1>2 DEF FlattenSeq
  <2> QED  BY <2>1 DEF ToSet, IsInjective
<1>3. CASE n # 0
  <2>1. FlattenSeq(ss) = c[n]
    BY <1>3 DEF FlattenSeq
  <2> HIDE DEF n
  <2>2. F \in [1..n -> [Seq(X) -> Seq(X)]] /\ \A i \in 1..n, r \in Seq(X) : F[i][r] = r \o ss[i]
    <3>1. \A i \in 1..n, r \in Seq(X) : r \o ss[i] \in Seq(X)
      <4> TAKE i \in 1..n, r \in Seq(X)
      <4>1. ss[i] \in Seq(X)
        BY <1>1
      <4> QED  BY <4>1
    <3> QED  BY <3>1
  <2> HIDE DEF F
  <2>3. PICK u : Goes(u, n, <<>>, F, Seq(X))
    <3>1. <<>> \in Seq(X)
      OBVIOUS
    <3> QED  BY <1>1, <2>2, <3>1, Iterates
  <2>4. ASSUME NEW i \in 1..n PROVE u[i] = u[i - 1] \o ss[i] /\ u[i - 1] \in Seq(X)
    <3>1. i - 1 \in 0..n
      BY <1>1
    <3>2. u[i - 1] \in Seq(X)
      BY <2>3, <3>1 DEF Goes
    <3> QED  BY <2>2, <2>3, <3>2 DEF Goes
  <2> DEFINE v == [i \in 1..n |-> u[i]]
  <2>5. P(v)
    <3>1. v[1] = ss[1]
      <4>1. 1 \in 1..n /\ 1 - 1 = 0
        BY <1>1, <1>3
      <4>2. u[1] = u[0] \o ss[1] /\ u[0] = <<>> /\ ss[1] \in Seq(X)
        BY <1>1, <2>3, <2>4, <4>1 DEF Goes
      <4>3. <<>> \o ss[1] = ss[1]
        BY <4>2
      <4> QED  BY <4>1, <4>2, <4>3
    <3>2. ASSUME NEW i \in 1..n, i # 1 PROVE v[i] = v[i - 1] \o ss[i]
      <4>1. i - 1 \in 1..n
        BY <1>1, <3>2
      <4> QED  BY <2>4, <4>1
    <3> HIDE DEF v
    <3>3. v = [i \in 1..n |-> v[i]]
      BY DEF v
    <3> QED  BY <3>1, <3>2, <3>3
  <2> HIDE DEF v
  <2>6. P(c)
    BY <2>5
  <2>7. c[1] = ss[1] /\ \A i \in 1..n : i # 1 => c[i] = c[i - 1] \o ss[i]
    <3>1. 1 \in 1..n
      BY <1>1, <1>3
    <3> HIDE DEF c
    <3> QED  BY <2>6, <3>1
  <2> HIDE DEF c
  <2> DEFINE Apart == /\ \A i \in 1..n : IsInjective(ss[i])
                      /\ \A i, j \in 1..n : i # j => ToSet(ss[i]) \intersect ToSet(ss[j]) = {}
             first(m) == UNION {ToSet(ss[i]) : i \in 1..m}
             Done(m) == c[m] \in Seq(X) /\ ToSet(c[m]) = first(m) /\ (Apart => IsInjective(c[m]))
             T == {m \in Nat : m + 1 <= n => Done(m + 1)}
  <2>8. 0 \in T
    <3>1. first(1) = ToSet(ss[1]) /\ 1 \in 1..n
      <4>1. 1..1 = {1}
        OBVIOUS
      <4> QED  BY <1>1, <1>3, <4>1
    <3> QED  BY <1>1, <2>7, <3>1
  <2>9. ASSUME NEW k \in Nat, k \in T PROVE k + 1 \in T
    <3> HIDE DEF Done
    <3> SUFFICES ASSUME NEW m \in Nat, m = k + 1, m + 1 <= n PROVE Done(m + 1)
      OBVIOUS
    <3>1. m >= 1
      OBVIOUS
    <3>2. Done(m)
      BY <1>1, <2>9
    <3> USE DEF Done
    <3>3. m + 1 \in 1..n /\ m + 1 # 1 /\ (m + 1) - 1 = m
      BY <1>1, <3>1
    <3>4. c[m + 1] = c[m] \o ss[m + 1] /\ ss[m + 1] \in Seq(X)
      BY <1>1, <2>7, <3>3
    <3>5. first(m + 1) = first(m) \union ToSet(ss[m + 1])
      <4>1. 1..(m + 1) = 1..m \union {m + 1}
        BY <3>1
      <4> QED  BY <4>1
    <3>6. Apart => first(m) \intersect ToSet(ss[m + 1]) = {} /\ IsInjective(ss[m + 1])
      <4>1. \A i \in 1..m : i \in 1..n /\ i # m + 1
        BY <1>1, <3>1, <3>3
      <4>2. Apart => \A i \in 1..m : ToSet(ss[i]) \intersect ToSet(ss[m + 1]) = {}
        BY <3>3, <4>1
      <4>3. Apart => IsInjective(ss[m + 1])
        BY <3>3
      <4> HIDE DEF Apart
      <4> QED  BY <4>2, <4>3
    <3> HIDE DEF first, Apart
    <3> DEFINE had == c[m]
               new == ss[m + 1]
    <3>7. had \in Seq(X) /\ new \in Seq(X) /\ c[m + 1] = had \o new
      BY <3>2, <3>4
    <3> HIDE DEF had, new
    <3>8. /\ c[m + 1] \in Seq(X) /\ ToSet(c[m + 1]) = ToSet(had) \union ToSet(new)
          /\ (IsInjective(had) /\ IsInjective(new) /\ ToSet(had) \intersect ToSet(new) = {}) => IsInjective(c[m + 1])
      BY <3>7, Joined
    <3> QED  BY <3>2, <3>5, <3>6, <3>8 DEF had, new
  <2> HIDE DEF T
  <2>10. \A m \in Nat : m \in T
    BY <2>8, <2>9, Induction
  <2>11. Done(n)
    <3>1. n - 1 \in Nat /\ (n - 1) + 1 = n
      BY <1>1, <1>3
    <3>2. n - 1 \in T /\ n <= n
      BY <1>1, <2>10, <3>1
    <3> HIDE DEF Done
    <3> QED  BY <3>1, <3>2 DEF T
  <2> QED  BY <1>1, <2>1, <2>11
<1> QED  BY <1>2, <1>3

----------------------------------------------------------------------------
(* Sums.                                                                   *)

Adds(s, f, n) ==
  /\ s \in [0..n -> Int]
  /\ s[0] = 0
  /\ \A i \in 1..n : s[i] = s[i - 1] + f[i]

\* The running sums of n integers exist.
LEMMA RunningSums ==
  ASSUME NEW n \in Nat, NEW f \in [1..n -> Int]
  PROVE  \E s : Adds(s, f, n)
<1> DEFINE T == {m \in Nat : m <= n => \E s : Adds(s, f, m)}
<1>1. 0 \in T
  <2>1. Adds([i \in 0..0 |-> 0], f, 0)
    BY DEF Adds
  <2> QED  BY <2>1
<1>2. ASSUME NEW m \in Nat, m \in T PROVE m + 1 \in T
  <2> SUFFICES ASSUME m + 1 <= n PROVE \E s : Adds(s, f, m + 1)
    OBVIOUS
  <2>1. PICK s : Adds(s, f, m)
    BY <1>2
  <2> DEFINE r == [i \in 0..(m + 1) |-> IF i = m + 1 THEN s[m] + f[m + 1] ELSE s[i]]
  <2>2. r \in [0..(m + 1) -> Int]
    BY <2>1 DEF Adds
  <2>3. r[0] = 0
    BY <2>1 DEF Adds
  <2>4. ASSUME NEW i \in 1..(m + 1) PROVE r[i] = r[i - 1] + f[i]
    <3>1. CASE i = m + 1
      <4>1. r[m + 1] = s[m] + f[m + 1]
        OBVIOUS
      <4>2. r[m] = s[m]
        OBVIOUS
      <4> QED  BY <3>1, <4>1, <4>2
    <3>2. CASE i \in 1..m
      <4>1. r[i] = s[i] /\ r[i - 1] = s[i - 1]
        BY <3>2
      <4>2. s[i] = s[i - 1] + f[i]
        BY <2>1, <3>2 DEF Adds
      <4> QED  BY <4>1, <4>2
    <3> QED  BY <3>1, <3>2
  <2> HIDE DEF r
  <2>5. Adds(r, f, m + 1)
    BY <2>2, <2>3, <2>4 DEF Adds
  <2> QED  BY <2>5
<1> HIDE DEF T
<1>3. n \in T
  BY <1>1, <1>2, Induction
<1> QED  BY <1>3 DEF T

\* SumTo is the last of them.
LEMMA SumIs ==
  ASSUME NEW n \in Nat, NEW f \in [1..n -> Int]
  PROVE  \E s : Adds(s, f, n) /\ SumTo(f, n) = s[n]
<1>1. PICK s : Adds(s, f, n)
  BY RunningSums
<1>2. s = [i \in 0..n |-> IF i = 0 THEN 0 ELSE s[i - 1] + f[i]]
  BY <1>1 DEF Adds
<1> DEFINE P(u) == u = [i \in 0..n |-> IF i = 0 THEN 0 ELSE u[i - 1] + f[i]]
           c == CHOOSE u : P(u)
<1>3. P(c)
  BY <1>2
<1>4. SumTo(f, n) = c[n]
  BY DEF SumTo
<1> HIDE DEF c
<1>5. \A i \in 0..n : c[i] = s[i]
  <2> DEFINE T == {m \in Nat : m <= n => c[m] = s[m]}
  <2>1. 0 \in T
    BY <1>1, <1>3 DEF Adds
  <2>2. ASSUME NEW m \in Nat, m \in T PROVE m + 1 \in T
    <3> SUFFICES ASSUME m + 1 <= n PROVE c[m + 1] = s[m + 1]
      OBVIOUS
    <3>1. c[m] = s[m]
      BY <2>2
    <3>2. c[m + 1] = c[m] + f[m + 1]
      BY <1>3
    <3> QED  BY <3>1, <3>2, <1>1 DEF Adds
  <2> HIDE DEF T
  <2>3. \A i \in Nat : i \in T
    BY <2>1, <2>2, Induction
  <2> QED  BY <2>3 DEF T
<1> QED  BY <1>1, <1>4, <1>5

LEMMA SumType ==
  ASSUME NEW n \in Nat, NEW f \in [1..n -> Int]
  PROVE  SumTo(f, n) \in Int
<1>1. PICK s : Adds(s, f, n) /\ SumTo(f, n) = s[n]
  BY SumIs
<1> QED  BY <1>1 DEF Adds

\* The sum of sums.
LEMMA SumOfBoth ==
  ASSUME NEW n \in Nat, NEW f \in [1..n -> Int], NEW g \in [1..n -> Int],
         NEW h \in [1..n -> Int], \A i \in 1..n : h[i] = f[i] + g[i]
  PROVE  SumTo(h, n) = SumTo(f, n) + SumTo(g, n)
<1>1. PICK s : Adds(s, f, n) /\ SumTo(f, n) = s[n]
  BY SumIs
<1>2. PICK t : Adds(t, g, n) /\ SumTo(g, n) = t[n]
  BY SumIs
<1>3. PICK u : Adds(u, h, n) /\ SumTo(h, n) = u[n]
  BY SumIs
<1> DEFINE T == {m \in Nat : m <= n => u[m] = s[m] + t[m]}
<1>4. 0 \in T
  BY <1>1, <1>2, <1>3 DEF Adds
<1>5. ASSUME NEW m \in Nat, m \in T PROVE m + 1 \in T
  <2> SUFFICES ASSUME m + 1 <= n PROVE u[m + 1] = s[m + 1] + t[m + 1]
    OBVIOUS
  <2>1. u[m] = s[m] + t[m]
    BY <1>5
  <2>2. s[m + 1] = s[m] + f[m + 1] /\ s[m] \in Int
    BY <1>1 DEF Adds
  <2>3. t[m + 1] = t[m] + g[m + 1] /\ t[m] \in Int
    BY <1>2 DEF Adds
  <2>4. u[m + 1] = u[m] + h[m + 1]
    BY <1>3 DEF Adds
  <2>5. h[m + 1] = f[m + 1] + g[m + 1] /\ f[m + 1] \in Int /\ g[m + 1] \in Int
    OBVIOUS
  <2> QED  BY <2>1, <2>2, <2>3, <2>4, <2>5
<1> HIDE DEF T
<1>6. n \in T
  BY <1>4, <1>5, Induction
<1> QED  BY <1>1, <1>2, <1>3, <1>6 DEF T

\* Nothing but one term.
LEMMA SumOfOne ==
  ASSUME NEW n \in Nat, NEW f \in [1..n -> Int], NEW k \in 1..n,
         \A i \in 1..n : i # k => f[i] = 0
  PROVE  SumTo(f, n) = f[k]
<1>1. PICK s : Adds(s, f, n) /\ SumTo(f, n) = s[n]
  BY SumIs
<1> DEFINE T == {m \in Nat : m <= n => s[m] = IF m < k THEN 0 ELSE f[k]}
<1>2. 0 \in T
  BY <1>1 DEF Adds
<1>3. ASSUME NEW m \in Nat, m \in T PROVE m + 1 \in T
  <2> SUFFICES ASSUME m + 1 <= n PROVE s[m + 1] = IF m + 1 < k THEN 0 ELSE f[k]
    OBVIOUS
  <2>1. s[m] = IF m < k THEN 0 ELSE f[k]
    BY <1>3
  <2>2. s[m + 1] = s[m] + f[m + 1]
    BY <1>1 DEF Adds
  <2>3. f[k] \in Int /\ (m + 1 # k => f[m + 1] = 0)
    OBVIOUS
  <2> QED  BY <2>1, <2>2, <2>3
<1> HIDE DEF T
<1>4. n \in T
  BY <1>2, <1>3, Induction
<1> QED  BY <1>1, <1>4 DEF T

\* Terms of one and the same value.
LEMMA SumOfSame ==
  ASSUME NEW n \in Nat, NEW f \in [1..n -> Int], NEW v \in {0, 1},
         \A i \in 1..n : f[i] = v
  PROVE  SumTo(f, n) = IF v = 0 THEN 0 ELSE n
<1>1. PICK s : Adds(s, f, n) /\ SumTo(f, n) = s[n]
  BY SumIs
<1> DEFINE T == {m \in Nat : m <= n => s[m] = IF v = 0 THEN 0 ELSE m}
<1>2. 0 \in T
  BY <1>1 DEF Adds
<1>3. ASSUME NEW m \in Nat, m \in T PROVE m + 1 \in T
  BY <1>1, <1>3 DEF Adds
<1> HIDE DEF T
<1>4. n \in T
  BY <1>2, <1>3, Induction
<1> QED  BY <1>1, <1>4 DEF T

\* No term above nothing: a positive sum has a positive term.
LEMMA SumOfNone ==
  ASSUME NEW n \in Nat, NEW f \in [1..n -> Int], \A i \in 1..n : f[i] <= 0
  PROVE  SumTo(f, n) <= 0
<1>1. PICK s : Adds(s, f, n) /\ SumTo(f, n) = s[n]
  BY SumIs
<1> DEFINE T == {m \in Nat : m <= n => s[m] <= 0}
<1>2. 0 \in T
  BY <1>1 DEF Adds
<1>3. ASSUME NEW m \in Nat, m \in T PROVE m + 1 \in T
  BY <1>1, <1>3 DEF Adds
<1> HIDE DEF T
<1>4. n \in T
  BY <1>2, <1>3, Induction
<1> QED  BY <1>1, <1>4 DEF T

\* Taking one term out of a sum.
LEMMA SumWithout ==
  ASSUME NEW n \in Nat, NEW f \in [1..n -> Int], NEW k \in 1..n
  PROVE  SumTo(f, n) = SumTo([f EXCEPT ![k] = 0], n) + f[k]
<1> DEFINE rest == [f EXCEPT ![k] = 0]
           one == [i \in 1..n |-> IF i = k THEN f[k] ELSE 0]
<1>1. rest \in [1..n -> Int] /\ one \in [1..n -> Int]
  OBVIOUS
<1>2. \A i \in 1..n : f[i] = rest[i] + one[i]
  OBVIOUS
<1>3. one[k] = f[k] /\ \A i \in 1..n : i # k => one[i] = 0
  OBVIOUS
<1> HIDE DEF rest, one
<1>4. SumTo(f, n) = SumTo(rest, n) + SumTo(one, n)
  BY <1>1, <1>2, SumOfBoth
<1>5. SumTo(one, n) = one[k]
  BY <1>1, <1>3, SumOfOne
<1> QED  BY <1>3, <1>4, <1>5 DEF rest

\* Terms none of which is negative and whose sum is nothing are nothing.
LEMMA SumOfNothing ==
  ASSUME NEW n \in Nat, NEW f \in [1..n -> Int], \A i \in 1..n : f[i] >= 0,
         SumTo(f, n) = 0
  PROVE  \A i \in 1..n : f[i] = 0
<1> SUFFICES ASSUME NEW k \in 1..n, f[k] > 0 PROVE FALSE
  OBVIOUS
<1> DEFINE less == [i \in 1..n |-> 0 - f[i]]
           zero == [i \in 1..n |-> 0]
           rest == [less EXCEPT ![k] = 0]
<1>1. /\ less \in [1..n -> Int] /\ zero \in [1..n -> Int] /\ rest \in [1..n -> Int]
      /\ \A i \in 1..n : zero[i] = f[i] + less[i]
      /\ \A i \in 1..n : rest[i] <= 0
      /\ \A i \in 1..n : zero[i] = 0
      /\ less[k] < 0
  OBVIOUS
<1>2. SumTo(rest, n) \in Int /\ SumTo(less, n) \in Int
  BY <1>1, SumType
<1> HIDE DEF less, zero
<1>3. less \in [1..n -> Int]
  BY <1>1
<1>4. SumTo(less, n) = SumTo(rest, n) + less[k]
  BY <1>3, SumWithout
<1> HIDE DEF rest
<1>5. SumTo(zero, n) = SumTo(f, n) + SumTo(less, n)
  BY <1>1, SumOfBoth
<1>6. SumTo(zero, n) = 0
  BY <1>1, SumOfSame
<1>7. SumTo(rest, n) <= 0
  BY <1>1, SumOfNone
<1>8. less[k] \in Int
  BY <1>1
<1> QED  BY <1>1, <1>2, <1>4, <1>5, <1>6, <1>7, <1>8

\* Terms of at least one each.
LEMMA SumAtLeast ==
  ASSUME NEW n \in Nat, NEW f \in [1..n -> Int], \A i \in 1..n : f[i] >= 1
  PROVE  SumTo(f, n) \in Int /\ SumTo(f, n) >= n
<1>1. PICK s : Adds(s, f, n) /\ SumTo(f, n) = s[n]
  BY SumIs
<1> DEFINE T == {m \in Nat : m <= n => s[m] >= m}
<1>2. 0 \in T
  BY <1>1 DEF Adds
<1>3. ASSUME NEW m \in Nat, m \in T PROVE m + 1 \in T
  BY <1>1, <1>3 DEF Adds
<1> HIDE DEF T
<1>4. n \in T
  BY <1>2, <1>3, Induction
<1> QED  BY <1>1, <1>4 DEF T, Adds

\* What is left when whole rounds are taken away.
LEMMA Remainder ==
  ASSUME NEW N \in Nat \ {0}, NEW q \in Nat, NEW r \in 0..(N - 1)
  PROVE  (q * N + r) % N = r
<1> DEFINE n == q * N + r
           d == n \div N
           m == n % N
<1>1. q * N \in Nat
  OBVIOUS
<1>2. n \in Nat
  BY <1>1
<1> HIDE DEF n
<1>3. d \in Int /\ m \in 0..(N - 1) /\ n = N * d + m
  BY <1>2
<1> HIDE DEF d, m
<1>4. N * (d - q) = r - m
  BY <1>1, <1>3 DEF n
<1>5. d - q < 1
  <2> SUFFICES ASSUME d - q >= 1 PROVE FALSE
    BY <1>3
  <2>1. N * (d - q) >= N
    BY <1>3
  <2> QED  BY <2>1, <1>3, <1>4
<1>6. d - q > -1
  <2> SUFFICES ASSUME d - q <= -1 PROVE FALSE
    BY <1>3
  <2>1. N * (d - q) <= -N
    BY <1>3
  <2> QED  BY <2>1, <1>3, <1>4
<1>7. d = q
  BY <1>3, <1>5, <1>6
<1>8. m = r
  BY <1>3, <1>4, <1>7
<1> QED  BY <1>8 DEF m, n

----------------------------------------------------------------------------
(* The pool.                                                               *)

LEMMA WeightInRange ==
  ASSUME NEW w
  PROVE  ToWeight(w) \in 1..MaxWeight
BY RotationAssumption DEF ToWeight

\* Every bucket of a pool has a weight the interleave can charge.
LEMMA PoolWeights ==
  ASSUME NEW c, NEW seen, NEW miss, NEW b \in ChannelBuckets(c, seen, miss)
  PROVE  b.weight \in 1..MaxWeight
<1>1. \A d, t : ShowBucket(d, seen, t).weight \in 1..MaxWeight
  BY WeightInRange DEF ShowBucket
<1>2. \A d, t : ItemBucket(d, seen, miss, t).weight \in 1..MaxWeight
  BY WeightInRange DEF ItemBucket
<1>3. \A m : MemberBucket(c, seen, m).weight \in 1..MaxWeight
  BY WeightInRange DEF MemberBucket
<1>4. CASE b \in MemberBuckets(c, seen, miss)
  BY <1>3, <1>4 DEF MemberBuckets
<1>5. CASE b \in UnwatchedBuckets(c, seen, miss)
  BY <1>1, <1>2, <1>5 DEF UnwatchedBuckets
<1> QED  BY <1>4, <1>5 DEF ChannelBuckets

----------------------------------------------------------------------------
(* The inductive invariant.                                                *)

\* The parts of the state fit together.
Shape ==
  /\ cfg \in Configs /\ watched \in Histories
  /\ stage \in {"build", "deal", "done"} /\ missed \in Misses(cfg)
  /\ Len(order) \in Nat /\ Buckets = 1..Len(order)
  /\ \A b \in Buckets : WeightOf(b) \in 1..MaxWeight
  /\ credit \in [Buckets -> Int] /\ cursor \in [Buckets -> Nat]
  /\ Len(out) \in Nat /\ out = [i \in 1..Len(out) |-> out[i]]
  /\ \A i \in DOMAIN out : out[i].bucket \in Buckets
  /\ stage = "build" => out = <<>>

\* A cursor counts what its bucket was dealt.
Counted == \A b \in Buckets : cursor[b] = Dealt(b, Len(out))

\* Until a bucket runs dry, a credit is what the bucket is behind its share,
\* the credits cancel out, and none is a whole round below nothing.
Balanced ==
  NoneDryBefore(Len(out)) =>
    /\ SumTo(credit, Len(order)) = 0
    /\ \A b \in Buckets :
         /\ credit[b] = Len(out) * WeightOf(b) - cursor[b] * TotalOf(Buckets)
         /\ credit[b] > -TotalOf(Buckets)

Unweighted == \A b \in Buckets : WeightOf(b) = 1

\* A lineup of q whole rounds and r slots more.
InRound(q, r) ==
  /\ Len(out) = q * Len(order) + r
  /\ \A b \in Buckets : cursor[b] = IF b <= r THEN q + 1 ELSE q

Walks ==
  (Unweighted /\ Buckets # {} /\ NoneDryBefore(Len(out))) =>
    \E q \in Nat, r \in 0..(Len(order) - 1) : InRound(q, r)

IndInv == Shape /\ Counted /\ Balanced /\ Walks /\ InTurn

----------------------------------------------------------------------------
(* The first state and the pool.                                           *)

LEMMA Initially == Init => IndInv
<1> SUFFICES ASSUME Init PROVE IndInv
  OBVIOUS
<1>1. /\ order = <<>> /\ credit = <<>> /\ cursor = <<>> /\ out = <<>>
      /\ stage = "build" /\ cfg \in Configs /\ watched \in Histories /\ missed = NoMiss
  BY DEF Init
<1>2. Buckets = {} /\ Len(order) = 0 /\ Len(out) = 0 /\ DOMAIN out = {}
  BY <1>1 DEF Buckets
<1>3. Shape
  <2>1. missed \in Misses(cfg)
    BY <1>1 DEF NoMiss, Misses
  <2> QED  BY <1>1, <1>2, <2>1 DEF Shape
<1>4. SumTo(credit, 0) = 0
  <2>1. credit \in [1..0 -> Int] /\ \A i \in 1..0 : credit[i] = 0
    BY <1>1
  <2> QED  BY <2>1, SumOfSame
<1> QED  BY <1>2, <1>3, <1>4 DEF IndInv, Counted, Balanced, Walks, InTurn

\* The total of all weights.
TotalRight ==
  /\ TotalOf(Buckets) = SumTo([b \in Buckets |-> WeightOf(b)], Len(order))
  /\ TotalOf(Buckets) \in Int
  /\ TotalOf(Buckets) >= Len(order)
  /\ Unweighted => TotalOf(Buckets) = Len(order)

LEMMA TotalIs == Shape => TotalRight
<1> SUFFICES ASSUME Shape PROVE TotalRight
  OBVIOUS
<1> DEFINE w == [b \in Buckets |-> WeightOf(b)]
<1>1. [b \in Buckets |-> IF b \in Buckets THEN WeightOf(b) ELSE 0] = w
  OBVIOUS
<1>2. TotalOf(Buckets) = SumTo(w, Len(order))
  BY <1>1 DEF TotalOf
<1>3. Len(order) \in Nat /\ Buckets = 1..Len(order)
  BY DEF Shape
<1>4. \A b \in Buckets : WeightOf(b) \in Int /\ WeightOf(b) >= 1
  BY RotationAssumption DEF Shape
<1>5. w \in [1..Len(order) -> Int] /\ \A i \in 1..Len(order) : w[i] >= 1
  BY <1>3, <1>4
<1>6. Unweighted => \A i \in 1..Len(order) : w[i] = 1
  BY <1>3 DEF Unweighted
<1> HIDE DEF w
<1>7. TotalOf(Buckets) \in Int /\ TotalOf(Buckets) >= Len(order)
  BY <1>2, <1>3, <1>5, SumAtLeast
<1>8. Unweighted => TotalOf(Buckets) = Len(order)
  BY <1>2, <1>3, <1>5, <1>6, SumOfSame
<1> QED  BY <1>2, <1>7, <1>8 DEF w, TotalRight

LEMMA TotalIsNext == Shape' => TotalRight'
BY TotalIs, PTL

LEMMA BuildStep ==
  ASSUME IndInv, Build
  PROVE  IndInv'
<1> DEFINE pool == ChannelBuckets(cfg, watched, missed')
<1>1. /\ stage = "build" /\ out = <<>> /\ cfg \in Configs /\ watched \in Histories
      /\ missed' \in Misses(cfg)
  BY DEF IndInv, Shape, Build
<1>2. IsFiniteSet(pool)
  BY <1>1, PoolAssumption
<1>3. Cardinality(pool) \in Nat
  BY <1>2, FS_CardinalityType
<1>4. order' \in [1..Cardinality(pool) -> pool]
  BY DEF Build, SetToSeqs
<1>5. \A b \in pool : b.weight \in 1..MaxWeight
  BY PoolWeights
<1> HIDE DEF pool
<1>6. Len(order') = Cardinality(pool) /\ Buckets' = 1..Len(order')
  BY <1>3, <1>4 DEF Buckets
<1>7. \A b \in Buckets' : WeightOf(b)' \in 1..MaxWeight
  BY <1>4, <1>5, <1>6 DEF WeightOf
<1>8. /\ credit' = [b \in Buckets' |-> 0] /\ cursor' = [b \in Buckets' |-> 0]
      /\ stage' = "deal" /\ out' = <<>> /\ cfg' = cfg /\ watched' = watched
  BY <1>1 DEF Build, Buckets
<1>9. Len(out') = 0 /\ DOMAIN out' = {}
  BY <1>8
<1>10. Shape'
  BY <1>1, <1>3, <1>6, <1>7, <1>8, <1>9 DEF Shape
<1>11. Counted'
  <2> SUFFICES ASSUME NEW b \in Buckets' PROVE cursor'[b] = Dealt(b, Len(out))'
    BY DEF Counted
  <2>1. {j \in 1..Len(out') : out'[j].bucket = b} = {}
    BY <1>9
  <2> QED  BY <1>8, <2>1, FS_EmptySet DEF Dealt
<1>12. Balanced'
  <2>1. SumTo(credit', Len(order')) = 0
    <3>1. credit' \in [1..Len(order') -> Int] /\ \A i \in 1..Len(order') : credit'[i] = 0
      BY <1>6, <1>8
    <3> QED  BY <1>3, <1>6, <3>1, SumOfSame
  <2>2. ASSUME NEW b \in Buckets'
        PROVE  /\ credit'[b] = Len(out') * WeightOf(b)' - cursor'[b] * TotalOf(Buckets)'
               /\ credit'[b] > -TotalOf(Buckets)'
    <3>1. TotalOf(Buckets)' \in Int /\ TotalOf(Buckets)' >= Len(order')
      BY <1>10, TotalIsNext DEF TotalRight
    <3>2. TotalOf(Buckets)' > 0
      BY <3>1, <1>3, <1>6
    <3>3. credit'[b] = 0 /\ cursor'[b] = 0 /\ Len(out') = 0
      BY <1>8, <1>9
    <3>4. WeightOf(b)' \in Int
      BY <1>7, RotationAssumption
    <3> QED  BY <3>1, <3>2, <3>3, <3>4
  <2> QED  BY <2>1, <2>2 DEF Balanced
<1>13. Walks'
  <2> SUFFICES ASSUME (Buckets # {})'
               PROVE  \E q \in Nat, r \in 0..(Len(order') - 1) : InRound(q, r)'
    BY DEF Walks
  <2>1. 0 \in 0..(Len(order') - 1)
    BY <1>3, <1>6
  <2>2. InRound(0, 0)'
    BY <1>3, <1>6, <1>8, <1>9 DEF InRound
  <2> QED  BY <2>1, <2>2
<1>14. InTurn'
  BY <1>9 DEF InTurn
<1> QED  BY <1>10, <1>11, <1>12, <1>13, <1>14 DEF IndInv

----------------------------------------------------------------------------
(* One slot.                                                               *)

\* Of the buckets still live one has the most credit, the earliest of those.
LEMMA BestIs ==
  ASSUME Shape, Live # {}
  PROVE  /\ Best \in Live
         /\ \A o \in Live : \/ Credited[Best] > Credited[o]
                            \/ Credited[Best] = Credited[o] /\ Best <= o
<1> DEFINE Wins(b, o) == Credited[b] > Credited[o] \/ (Credited[b] = Credited[o] /\ b <= o)
           T == {m \in Nat : Live \intersect 1..m # {} =>
                   \E b \in Live \intersect 1..m : \A o \in Live \intersect 1..m : Wins(b, o)}
<1>1. Len(order) \in Nat /\ Live \subseteq 1..Len(order)
  BY DEF Live, Shape
<1>2. \A b \in Live : Credited[b] \in Int
  BY RotationAssumption DEF Live, Shape, Credited
<1>3. 0 \in T
  OBVIOUS
<1>4. ASSUME NEW m \in Nat, m \in T PROVE m + 1 \in T
  <2>1. 1..(m + 1) = 1..m \union {m + 1}
    OBVIOUS
  <2> SUFFICES ASSUME Live \intersect 1..(m + 1) # {}
               PROVE  \E b \in Live \intersect 1..(m + 1) :
                        \A o \in Live \intersect 1..(m + 1) : Wins(b, o)
    OBVIOUS
  <2>2. CASE m + 1 \notin Live
    <3>1. Live \intersect 1..(m + 1) = Live \intersect 1..m
      BY <2>1, <2>2
    <3> QED  BY <3>1, <1>4
  <2>3. CASE m + 1 \in Live /\ Live \intersect 1..m = {}
    <3>1. Live \intersect 1..(m + 1) = {m + 1}
      BY <2>1, <2>3
    <3>2. Wins(m + 1, m + 1)
      BY <1>2, <2>3
    <3> QED  BY <3>1, <3>2
  <2>4. CASE m + 1 \in Live /\ Live \intersect 1..m # {}
    <3>1. PICK b \in Live \intersect 1..m : \A o \in Live \intersect 1..m : Wins(b, o)
      BY <1>4, <2>4
    <3>2. Credited[b] \in Int /\ Credited[m + 1] \in Int /\ \A o \in Live : Credited[o] \in Int
      BY <1>2, <2>4
    <3>3. CASE Credited[m + 1] > Credited[b]
      <4>1. \A o \in Live \intersect 1..(m + 1) : Wins(m + 1, o)
        BY <2>1, <3>1, <3>2, <3>3
      <4> QED  BY <2>4, <4>1
    <3>4. CASE Credited[m + 1] <= Credited[b]
      <4>1. Wins(b, m + 1)
        BY <3>1, <3>2, <3>4
      <4>2. \A o \in Live \intersect 1..(m + 1) : Wins(b, o)
        BY <2>1, <3>1, <4>1
      <4> QED  BY <4>2
    <3> QED  BY <3>2, <3>3, <3>4
  <2> QED  BY <2>2, <2>3, <2>4
<1> HIDE DEF T
<1>5. Len(order) \in T
  BY <1>1, <1>3, <1>4, Induction
<1>6. \E b \in Live : \A o \in Live : Wins(b, o)
  <2>1. Live \intersect 1..Len(order) = Live
    BY <1>1
  <2> QED  BY <1>5, <2>1 DEF T
<1> QED  BY <1>6 DEF Best

\* What dealing a slot does to each part of the state.
LEMMA SlotDealt ==
  ASSUME Shape, Counted, Deal
  PROVE  /\ Best \in Live
         /\ order' = order /\ cfg' = cfg /\ watched' = watched /\ missed' = missed /\ stage' = "deal"
         /\ Len(out') = Len(out) + 1
         /\ out' = [i \in 1..Len(out') |-> out'[i]]
         /\ \A i \in 1..Len(out) : out'[i] = out[i]
         /\ out'[Len(out) + 1].bucket = Best
         /\ cursor' = [b \in Buckets |-> IF b = Best THEN cursor[b] + 1 ELSE cursor[b]]
         /\ credit' = [b \in Buckets |-> IF b = Best THEN Credited[b] - TotalOf(Live)
                                         ELSE Credited[b]]
         /\ TotalOf(Live) \in Int
         /\ \A b \in Buckets : Credited[b] \in Int
<1> DEFINE slot == [bucket |-> Best, key |-> order[Best].items[cursor[Best] + 1]]
<1>1. Best \in Live /\ Live \subseteq Buckets
  BY BestIs DEF Deal, Live
<1>2. /\ order' = order /\ cfg' = cfg /\ watched' = watched /\ missed' = missed /\ stage' = "deal"
      /\ credit' = [Credited EXCEPT ![Best] = @ - TotalOf(Live)]
      /\ cursor' = [cursor EXCEPT ![Best] = @ + 1]
      /\ out' = Append(out, slot)
  BY DEF Deal
<1>3. slot.bucket = Best
  OBVIOUS
<1> HIDE DEF slot
<1>4. Len(out) \in Nat /\ out = [i \in 1..Len(out) |-> out[i]]
  BY DEF Shape
<1>5. out \in Seq({out[i] : i \in 1..Len(out)} \union {slot})
  BY <1>4
<1>6. /\ Len(out') = Len(out) + 1
      /\ \A i \in 1..Len(out) : out'[i] = out[i]
      /\ out'[Len(out) + 1] = slot
      /\ out' \in Seq({out[i] : i \in 1..Len(out)} \union {slot})
  BY <1>2, <1>5
<1>7. out' = [i \in 1..Len(out') |-> out'[i]]
  BY <1>6
<1>8. cursor' = [b \in Buckets |-> IF b = Best THEN cursor[b] + 1 ELSE cursor[b]]
  BY <1>1, <1>2 DEF Shape
<1>9. DOMAIN Credited = Buckets /\ \A b \in Buckets : Credited[b] \in Int
  BY RotationAssumption DEF Credited, Shape
<1>10. credit' = [b \in Buckets |-> IF b = Best THEN Credited[b] - TotalOf(Live)
                                    ELSE Credited[b]]
  BY <1>1, <1>2, <1>9 DEF Credited
<1>11. TotalOf(Live) \in Int
  <2>1. [b \in Buckets |-> IF b \in Live THEN WeightOf(b) ELSE 0] \in [1..Len(order) -> Int]
    BY RotationAssumption DEF Shape
  <2> QED  BY <2>1, SumType DEF TotalOf, Shape
<1> QED  BY <1>1, <1>2, <1>3, <1>6, <1>7, <1>8, <1>9, <1>10, <1>11

\* The shape, and the counts of every earlier slot and of the new one.
LEMMA DealtCounts ==
  ASSUME Shape, Counted, Deal
  PROVE  /\ Shape' /\ Counted' /\ Buckets' = Buckets
         /\ \A b \in Buckets, k \in 0..Len(out) : Dealt(b, k)' = Dealt(b, k)
<1>1. Len(out) \in Nat /\ DOMAIN out = 1..Len(out) /\ Buckets' = Buckets
  BY SlotDealt DEF Shape, Buckets
<1>2. ASSUME NEW b \in Buckets, NEW k \in 0..Len(out)
      PROVE  {j \in 1..k : out'[j].bucket = b} = {j \in 1..k : out[j].bucket = b}
  BY <1>1, SlotDealt
<1>3. \A b \in Buckets, k \in 0..Len(out) : Dealt(b, k)' = Dealt(b, k)
  BY <1>2 DEF Dealt
<1>4. Shape'
  <2>1. Best \in Buckets /\ TotalOf(Live) \in Int /\ \A b \in Buckets : Credited[b] \in Int
    BY SlotDealt DEF Live
  <2>2. credit' \in [Buckets -> Int]
    BY <2>1, SlotDealt
  <2>3. cursor' \in [Buckets -> Nat]
    BY SlotDealt DEF Shape
  <2>4. Len(out') \in Nat /\ DOMAIN out' = 1..Len(out')
    BY <1>1, SlotDealt
  <2>5. \A i \in DOMAIN out' : out'[i].bucket \in Buckets
    <3>1. ASSUME NEW i \in 1..Len(out) PROVE out'[i].bucket \in Buckets
      BY <1>1, SlotDealt DEF Shape
    <3>2. out'[Len(out) + 1].bucket \in Buckets
      BY <2>1, SlotDealt
    <3>3. \A i \in DOMAIN out' : i \in 1..Len(out) \/ i = Len(out) + 1
      BY <1>1, <2>4, SlotDealt
    <3> QED  BY <3>1, <3>2, <3>3
  <2>6. \A b \in Buckets : WeightOf(b)' = WeightOf(b)
    BY SlotDealt DEF WeightOf
  <2> QED  BY <1>1, <2>2, <2>3, <2>4, <2>5, <2>6, SlotDealt DEF Shape
<1>5. Counted'
  <2> SUFFICES ASSUME NEW b \in Buckets PROVE cursor'[b] = Dealt(b, Len(out))'
    BY <1>1 DEF Counted
  <2> DEFINE n == Len(out)
             had == {j \in 1..n : out[j].bucket = b}
             has == {j \in 1..(n + 1) : out'[j].bucket = b}
  <2>1. Dealt(b, Len(out))' = Cardinality(has) /\ cursor[b] = Cardinality(had)
    BY SlotDealt DEF Dealt, Counted
  <2>2. \A j \in 1..(n + 1) : (j \in 1..n /\ out'[j] = out[j]) \/ j = n + 1
    BY <1>1, SlotDealt
  <2>3. IsFiniteSet(had)
    <3>1. IsFiniteSet(1..n)
      BY <1>1, FS_Interval
    <3> QED  BY <3>1, FS_Subset
  <2>4. CASE b = Best
    <3>1. has = had \union {n + 1} /\ n + 1 \notin had
      BY <1>1, <2>2, <2>4, SlotDealt
    <3>2. Cardinality(has) = Cardinality(had) + 1
      BY <2>3, <3>1, FS_AddElement
    <3> QED  BY <2>1, <2>4, <3>2, SlotDealt
  <2>5. CASE b # Best
    <3>1. has = had
      BY <1>1, <2>2, <2>5, SlotDealt
    <3> QED  BY <2>1, <2>5, <3>1, SlotDealt
  <2> QED  BY <2>4, <2>5
<1> QED  BY <1>1, <1>3, <1>4, <1>5

\* If no bucket had run dry by the new slot, none had by the last one, and
\* every bucket was live to be dealt from.
LEMMA StillLive ==
  ASSUME Shape, Counted, Deal, NoneDryBefore(Len(out))'
  PROVE  Live = Buckets /\ NoneDryBefore(Len(out))
<1>1. Len(out) \in Nat /\ Len(out') = Len(out) + 1
  BY SlotDealt DEF Shape
<1>2. \A k \in 1..(Len(out) + 1) : \A b \in Buckets : Dealt(b, k - 1)' < Len(order[b].items)
  BY <1>1, DealtCounts, SlotDealt DEF NoneDryBefore
<1>3. \A k \in 1..(Len(out) + 1) : k - 1 \in 0..Len(out)
  BY <1>1
<1>4. \A k \in 1..(Len(out) + 1) : \A b \in Buckets : Dealt(b, k - 1) < Len(order[b].items)
  BY <1>2, <1>3, DealtCounts
<1>5. \A b \in Buckets : Dealt(b, Len(out)) < Len(order[b].items)
  <2>1. Len(out) + 1 \in 1..(Len(out) + 1) /\ (Len(out) + 1) - 1 = Len(out)
    BY <1>1
  <2> QED  BY <1>4, <2>1
<1>6. Live = Buckets
  BY <1>5 DEF Live, Counted
<1>7. NoneDryBefore(Len(out))
  BY <1>1, <1>4 DEF NoneDryBefore
<1> QED  BY <1>6, <1>7

LEMMA DealBalanced ==
  ASSUME IndInv, Deal
  PROVE  Balanced'
<1> SUFFICES ASSUME NoneDryBefore(Len(out))'
             PROVE  /\ SumTo(credit', Len(order')) = 0
                    /\ \A b \in Buckets' :
                         /\ credit'[b] = Len(out') * WeightOf(b)' - cursor'[b] * TotalOf(Buckets)'
                         /\ credit'[b] > -TotalOf(Buckets)'
  BY DEF Balanced
<1> DEFINE N == Len(order)
           T == TotalOf(Buckets)
           w == [b \in Buckets |-> WeightOf(b)]
           charge == [b \in Buckets |-> IF b = Best THEN -T ELSE 0]
<1>1. Shape /\ Counted /\ Balanced
  BY DEF IndInv
<1>2. Live = Buckets /\ NoneDryBefore(Len(out))
  BY <1>1, StillLive
<1>3. /\ SumTo(credit, N) = 0
      /\ \A b \in Buckets : /\ credit[b] = Len(out) * WeightOf(b) - cursor[b] * T
                            /\ credit[b] > -T
  BY <1>1, <1>2 DEF Balanced
<1>4. N \in Nat /\ Buckets = 1..N /\ Len(out) \in Nat /\ credit \in [1..N -> Int]
      /\ \A b \in Buckets : WeightOf(b) \in Int /\ WeightOf(b) >= 1 /\ cursor[b] \in Nat
  BY <1>1, RotationAssumption DEF Shape
<1>5. T \in Int /\ T >= N /\ T = SumTo(w, N)
  BY <1>1, TotalIs DEF TotalRight
<1>6. Best \in 1..N /\ T > 0
  BY <1>1, <1>2, <1>4, <1>5, SlotDealt
<1>7. TotalOf(Buckets)' = T /\ Buckets' = Buckets /\ Len(out') = Len(out) + 1
      /\ order' = order /\ \A b \in Buckets : WeightOf(b)' = WeightOf(b)
  BY <1>1, SlotDealt DEF TotalOf, Buckets, WeightOf
<1>8. /\ Credited \in [1..N -> Int] /\ w \in [1..N -> Int] /\ charge \in [1..N -> Int]
      /\ \A i \in 1..N : Credited[i] = credit[i] + w[i]
  BY <1>2, <1>4, <1>5 DEF Credited
<1>9. /\ credit' \in [1..N -> Int]
      /\ \A i \in 1..N : credit'[i] = Credited[i] + charge[i]
      /\ \A i \in 1..N : cursor'[i] = IF i = Best THEN cursor[i] + 1 ELSE cursor[i]
  <2>1. credit' = [b \in Buckets |-> IF b = Best THEN Credited[b] - T ELSE Credited[b]]
    BY <1>1, <1>2, SlotDealt
  <2>2. cursor' = [b \in Buckets |-> IF b = Best THEN cursor[b] + 1 ELSE cursor[b]]
    BY <1>1, SlotDealt
  <2>3. \A i \in 1..N : Credited[i] \in Int
    BY <1>8
  <2>4. \A i \in 1..N : charge[i] = IF i = Best THEN -T ELSE 0
    BY <1>4
  <2> HIDE DEF charge, T, w
  <2>5. credit' \in [1..N -> Int]
    BY <1>4, <1>5, <2>1, <2>3
  <2>6. \A i \in 1..N : credit'[i] = Credited[i] + charge[i]
    <3> TAKE i \in 1..N
    <3>1. credit'[i] = IF i = Best THEN Credited[i] - T ELSE Credited[i]
      BY <1>4, <2>1
    <3> QED  BY <3>1, <1>5, <2>3, <2>4
  <2>7. \A i \in 1..N : cursor'[i] = IF i = Best THEN cursor[i] + 1 ELSE cursor[i]
    BY <1>4, <2>2
  <2> QED  BY <2>5, <2>6, <2>7
<1>10. charge[Best] = -T /\ \A i \in 1..N : i # Best => charge[i] = 0
  BY <1>4, <1>6
<1>11. \A i \in 1..N : w[i] = WeightOf(i)
  BY <1>4
<1> HIDE DEF w, charge, T
<1>12. SumTo(Credited, N) = T
  <2>1. N \in Nat /\ credit \in [1..N -> Int]
    BY <1>4
  <2>2. w \in [1..N -> Int] /\ Credited \in [1..N -> Int]
    BY <1>8
  <2>3. \A i \in 1..N : Credited[i] = credit[i] + w[i]
    BY <1>8
  <2>4. SumTo(Credited, N) = SumTo(credit, N) + SumTo(w, N)
    BY <2>1, <2>2, <2>3, SumOfBoth
  <2>5. SumTo(credit, N) = 0
    BY <1>3
  <2> QED  BY <2>4, <2>5, <1>5
<1>13. SumTo(charge, N) = -T
  BY <1>4, <1>6, <1>8, <1>10, SumOfOne
<1>14. SumTo(credit', N) = 0
  <2>1. SumTo(credit', N) = SumTo(Credited, N) + SumTo(charge, N)
    BY <1>4, <1>8, <1>9, SumOfBoth
  <2> QED  BY <2>1, <1>5, <1>12, <1>13
<1>15. Credited[Best] > 0
  <2>3. Credited[Best] \in Int
    BY <1>6, <1>8
  <2> SUFFICES ASSUME Credited[Best] <= 0 PROVE FALSE
    BY <2>3
  <2>1. \A i \in 1..N : Credited[i] <= 0
    <3>1. \A o \in 1..N : Credited[Best] > Credited[o] \/ Credited[Best] = Credited[o]
      BY <1>1, <1>2, <1>4, <1>6, BestIs
    <3>2. \A o \in 1..N : Credited[o] \in Int
      BY <1>8
    <3>3. Best \in 1..N
      BY <1>6
    <3> TAKE i \in 1..N
    <3>4. Credited[Best] > Credited[i] \/ Credited[Best] = Credited[i]
      BY <3>1
    <3>5. Credited[i] \in Int /\ Credited[Best] \in Int
      BY <3>2, <3>3
    <3> QED  BY <3>4, <3>5
  <2>2. SumTo(Credited, N) <= 0
    BY <2>1, <1>4, <1>8, SumOfNone
  <2> QED  BY <2>2, <1>5, <1>6, <1>12
<1>16. ASSUME NEW b \in 1..N
       PROVE  /\ credit'[b] = (Len(out) + 1) * WeightOf(b) - cursor'[b] * T
              /\ credit'[b] > -T
  <2> DEFINE v == WeightOf(b)
             n == Len(out)
             c == cursor[b]
  <2>1. v \in Int /\ v >= 1 /\ n \in Nat /\ c \in Nat /\ T \in Int
    BY <1>4, <1>5
  <2>2. Credited[b] = n * v - c * T + v
    BY <1>3, <1>4, <1>8, <1>11
  <2>3. Credited[b] > -T
    <3>1. credit[b] > -T
      BY <1>3, <1>4
    <3>2. Credited[b] = credit[b] + v /\ credit[b] \in Int
      BY <1>4, <1>8, <1>11
    <3> QED  BY <3>1, <3>2, <2>1
  <2>4. credit'[b] = Credited[b] + charge[b]
        /\ cursor'[b] = IF b = Best THEN c + 1 ELSE c
    BY <1>9
  <2> HIDE DEF v, n, c
  <2>5. (n + 1) * v = n * v + v /\ (c + 1) * T = c * T + T
    BY <2>1
  <2>6. n * v \in Int /\ c * T \in Int
    BY <2>1
  <2>7. CASE b = Best
    <3>1. charge[b] = -T /\ cursor'[b] = c + 1
      BY <2>4, <2>7, <1>10
    <3>2. credit'[b] = n * v - c * T + v - T
      BY <2>1, <2>2, <2>4, <2>6, <3>1
    <3>3. credit'[b] = (n + 1) * v - (c + 1) * T
      BY <3>2, <2>1, <2>5, <2>6
    <3>4. credit'[b] > -T
      BY <3>1, <2>4, <2>7, <1>8, <1>15, <2>1
    <3> QED  BY <3>1, <3>3, <3>4 DEF v, n
  <2>8. CASE b # Best
    <3>1. charge[b] = 0 /\ cursor'[b] = c
      BY <2>4, <2>8, <1>10
    <3>2. credit'[b] = Credited[b]
      BY <2>4, <3>1, <1>8
    <3>3. credit'[b] = (n + 1) * v - c * T
      BY <3>2, <2>1, <2>2, <2>5, <2>6
    <3> QED  BY <3>1, <3>2, <3>3, <2>3 DEF v, n
  <2> QED  BY <2>7, <2>8
<1> QED  BY <1>4, <1>7, <1>14, <1>16 DEF T

\* With every weight 1 the slot after q rounds and r slots is bucket r + 1's.
LEMMA NextInTurn ==
  ASSUME IndInv, Deal, NoneDryBefore(Len(out))', Unweighted
  PROVE  \E q \in Nat, r \in 0..(Len(order) - 1) :
           /\ InRound(q, r) /\ Best = r + 1
           /\ Len(order) \in Nat \ {0} /\ Buckets = 1..Len(order)
<1> DEFINE N == Len(order)
<1>1. Shape /\ Counted /\ Balanced /\ Walks
  BY DEF IndInv
<1>2. Live = Buckets /\ NoneDryBefore(Len(out))
  BY <1>1, StillLive
<1>3. Best \in Buckets
  BY <1>1, <1>2, SlotDealt
<1>4. PICK q \in Nat, r \in 0..(N - 1) : InRound(q, r)
  BY <1>1, <1>2, <1>3 DEF Walks
<1>5. N \in Nat \ {0} /\ Buckets = 1..N
  BY <1>1, <1>3 DEF Shape
<1>6. TotalOf(Buckets) = N
  BY <1>1, TotalIs DEF TotalRight
<1>7. \A b \in Buckets : credit[b] = Len(out) - cursor[b] * N
  <2> TAKE b \in Buckets
  <2>1. credit[b] = Len(out) * WeightOf(b) - cursor[b] * TotalOf(Buckets)
    BY <1>1, <1>2 DEF Balanced
  <2>2. WeightOf(b) = 1 /\ Len(out) \in Nat
    BY <1>1 DEF Unweighted, Shape
  <2> QED  BY <1>6, <2>1, <2>2
<1>8. \A b \in Buckets : Credited[b] = credit[b] + 1
  BY <1>2 DEF Credited, Unweighted
<1> HIDE DEF N
<1>9. q * N \in Nat /\ (q + 1) * N = q * N + N
  BY <1>4, <1>5
<1>10. Len(out) = q * N + r
  BY <1>4 DEF InRound, N
<1>11. \A b \in Buckets : Credited[b] = IF b <= r THEN r + 1 - N ELSE r + 1
  <2> TAKE b \in Buckets
  <2>1. cursor[b] = IF b <= r THEN q + 1 ELSE q
    BY <1>4 DEF InRound
  <2>2. Credited[b] = (q * N + r) - cursor[b] * N + 1
    <3>1. credit[b] = Len(out) - cursor[b] * N /\ Credited[b] = credit[b] + 1
      BY <1>7, <1>8
    <3> QED  BY <3>1, <1>10
  <2>3. CASE b <= r
    <3>1. cursor[b] * N = q * N + N
      BY <2>1, <2>3, <1>9
    <3> QED  BY <2>2, <2>3, <3>1, <1>4, <1>5, <1>9
  <2>4. CASE ~(b <= r)
    <3>1. cursor[b] * N = q * N
      BY <2>1, <2>4
    <3> QED  BY <2>2, <2>4, <3>1, <1>4, <1>5, <1>9
  <2> QED  BY <2>3, <2>4
<1>12. Best = r + 1
  <2>1. r + 1 \in Buckets /\ Best \in 1..N /\ r \in Nat
    BY <1>3, <1>4, <1>5
  <2>2. Credited[Best] > Credited[r + 1] \/ (Credited[Best] = Credited[r + 1] /\ Best <= r + 1)
    BY <1>1, <1>2, <2>1, BestIs
  <2>3. Credited[r + 1] = r + 1
    BY <1>11, <2>1
  <2>4. CASE Best <= r
    <3>1. Credited[Best] = r + 1 - N
      BY <1>3, <1>11, <2>4
    <3> QED  BY <2>1, <2>2, <2>3, <3>1, <1>5
  <2>5. CASE ~(Best <= r)
    <3>1. Credited[Best] = r + 1
      BY <1>3, <1>11, <2>5
    <3> QED  BY <2>1, <2>2, <2>3, <2>5, <3>1
  <2> QED  BY <2>4, <2>5
<1> QED  BY <1>4, <1>5, <1>12 DEF N

LEMMA DealWalks ==
  ASSUME IndInv, Deal
  PROVE  Walks' /\ InTurn'
<1>1. Shape /\ Counted /\ InTurn
  BY DEF IndInv
<1>2. /\ order' = order /\ Buckets' = Buckets /\ Len(out) \in Nat /\ Len(out') = Len(out) + 1
      /\ \A i \in 1..Len(out) : out'[i] = out[i]
      /\ DOMAIN out = 1..Len(out) /\ DOMAIN out' = 1..(Len(out) + 1)
      /\ out'[Len(out) + 1].bucket = Best
  BY <1>1, SlotDealt, DealtCounts DEF Shape
<1>3. cursor' = [b \in Buckets |-> IF b = Best THEN cursor[b] + 1 ELSE cursor[b]]
  BY <1>1, SlotDealt
<1>4. Unweighted' = Unweighted
  BY <1>2 DEF Unweighted, WeightOf
<1>5. Walks'
  <2> SUFFICES ASSUME Unweighted', NoneDryBefore(Len(out))'
               PROVE  (\E q \in Nat, r \in 0..(Len(order) - 1) : InRound(q, r))'
    BY DEF Walks
  <2>1. PICK q \in Nat, r \in 0..(Len(order) - 1) :
          /\ InRound(q, r) /\ Best = r + 1
          /\ Len(order) \in Nat \ {0} /\ Buckets = 1..Len(order)
    BY <1>4, NextInTurn
  <2> DEFINE N == Len(order)
  <2>2. Len(out) = q * N + r /\ \A b \in Buckets : cursor[b] = IF b <= r THEN q + 1 ELSE q
    BY <2>1 DEF InRound
  <2>3. N \in Nat \ {0} /\ q * N \in Nat /\ (q + 1) * N = q * N + N
    BY <2>1
  <2>4. \A b \in Buckets : cursor'[b] = IF b <= r + 1 THEN q + 1 ELSE q
    BY <1>3, <2>1, <2>2
  <2>5. CASE r + 1 < N
    <3>1. r + 1 \in 0..(Len(order') - 1)
      BY <1>2, <2>1, <2>5
    <3>2. Len(out') = q * N + (r + 1)
      BY <1>2, <2>1, <2>2, <2>3
    <3>3. InRound(q, r + 1)'
      BY <1>2, <2>4, <3>2 DEF InRound
    <3> QED  BY <3>1, <3>3
  <2>6. CASE r + 1 = N
    <3>1. 0 \in 0..(Len(order') - 1) /\ q + 1 \in Nat
      BY <1>2, <2>1
    <3>2. Len(out') = (q + 1) * N + 0
      <4>1. Len(out') = q * N + (r + 1)
        BY <1>2, <2>1, <2>2, <2>3
      <4> HIDE DEF N
      <4> QED  BY <4>1, <2>3, <2>6
    <3>3. \A b \in Buckets : cursor'[b] = IF b <= 0 THEN (q + 1) + 1 ELSE q + 1
      BY <2>1, <2>4, <2>6
    <3>4. InRound(q + 1, 0)'
      BY <1>2, <3>2, <3>3 DEF InRound
    <3> QED  BY <3>1, <3>4
  <2> QED  BY <2>1, <2>5, <2>6
<1>6. InTurn'
  <2> SUFFICES ASSUME Unweighted', NEW i \in DOMAIN out', NoneDryBefore(i)'
               PROVE  out'[i].bucket = ((i - 1) % Len(order')) + 1
    BY DEF InTurn, Unweighted
  <2>1. CASE i \in 1..Len(out)
    <3>1. NoneDryBefore(i)
      <4>1. \A k \in 1..i : k - 1 \in 0..Len(out)
        BY <1>2, <2>1
      <4>2. \A k \in 1..i : \A b \in Buckets : Dealt(b, k - 1)' = Dealt(b, k - 1)
        BY <1>1, <4>1, DealtCounts
      <4> QED  BY <1>2, <4>2 DEF NoneDryBefore
    <3>2. out[i].bucket = ((i - 1) % Len(order)) + 1
      BY <1>1, <1>2, <1>4, <2>1, <3>1 DEF InTurn, Unweighted
    <3> QED  BY <1>2, <2>1, <3>2
  <2>2. CASE i = Len(out) + 1
    <3>1. NoneDryBefore(Len(out))'
      BY <1>2, <2>2
    <3>2. PICK q \in Nat, r \in 0..(Len(order) - 1) :
            /\ InRound(q, r) /\ Best = r + 1
            /\ Len(order) \in Nat \ {0} /\ Buckets = 1..Len(order)
      BY <1>4, <3>1, NextInTurn
    <3>3. Len(out) = q * Len(order) + r
      BY <3>2 DEF InRound
    <3>4. (q * Len(order) + r) % Len(order) = r
      BY <3>2, Remainder
    <3>5. i - 1 = Len(out)
      BY <1>2, <2>2
    <3> QED  BY <1>2, <2>2, <3>2, <3>3, <3>4, <3>5
  <2> QED  BY <1>2, <2>1, <2>2
<1> QED  BY <1>5, <1>6

----------------------------------------------------------------------------
(* The theorems.                                                           *)

LEMMA Unmoved ==
  ASSUME IndInv, UNCHANGED <<cfg, watched, missed, order, credit, cursor, out>>,
         stage' = stage \/ stage' = "done"
  PROVE  IndInv'
<1>1. \A b, k : Dealt(b, k)' = Dealt(b, k)
  BY DEF Dealt
<1>2. \A i : NoneDryBefore(i)' = NoneDryBefore(i)
  BY <1>1 DEF NoneDryBefore, Buckets
<1>3. \A q, r : InRound(q, r)' = InRound(q, r)
  BY DEF InRound, Buckets
<1>4. TotalOf(Buckets)' = TotalOf(Buckets) /\ \A b : WeightOf(b)' = WeightOf(b)
  BY DEF TotalOf, WeightOf, Buckets
<1>5. Shape'
  BY <1>4 DEF IndInv, Shape, Buckets
<1>6. Counted'
  BY <1>1 DEF IndInv, Counted, Buckets
<1>7. Balanced'
  BY <1>2, <1>4 DEF IndInv, Balanced, Buckets
<1>8. Walks'
  BY <1>2, <1>3, <1>4 DEF IndInv, Walks, Unweighted, Buckets
<1>9. InTurn'
  BY <1>2, <1>4 DEF IndInv, InTurn, Buckets
<1> QED  BY <1>5, <1>6, <1>7, <1>8, <1>9 DEF IndInv

LEMMA EveryStep == IndInv /\ [Next]_vars => IndInv'
<1> SUFFICES ASSUME IndInv, [Next]_vars PROVE IndInv'
  OBVIOUS
<1>1. CASE Build
  BY <1>1, BuildStep
<1>2. CASE Deal
  BY <1>2, DealtCounts, DealBalanced, DealWalks DEF IndInv
<1>3. CASE Deliver
  BY <1>3, Unmoved DEF Deliver
<1>4. CASE UNCHANGED vars
  BY <1>4, Unmoved DEF vars
<1> QED  BY <1>1, <1>2, <1>3, <1>4 DEF Next

\* weight.ts: the interleave keeps the shape of its state, a cursor counts what
\* its bucket was dealt, and a credit is what the bucket is behind its share.
THEOREM Invariance == Spec => []IndInv
BY Initially, EveryStep, PTL DEF Spec

LEMMA SharesAreFair ==
  ASSUME IndInv
  PROVE  FairShares
<1> SUFFICES ASSUME NoneDryBefore(Len(out)), NEW b \in Buckets
             PROVE  LET total == TotalOf(Buckets)
                        ahead == cursor[b] * total - Len(out) * WeightOf(b)
                    IN  ahead < total /\ (Len(out) % total = 0 => ahead = 0)
  BY DEF FairShares
<1> DEFINE T == TotalOf(Buckets)
           n == Len(out)
<1>1. Shape /\ SumTo(credit, Len(order)) = 0
  BY DEF IndInv, Balanced
<1>2. \A o \in Buckets : credit[o] = n * WeightOf(o) - cursor[o] * T
  BY DEF IndInv, Balanced
<1>3. \A o \in Buckets : credit[o] > -T
  BY DEF IndInv, Balanced
<1>4. \A o \in Buckets : WeightOf(o) \in Int /\ cursor[o] \in Nat /\ credit[o] \in Int
  BY <1>1, RotationAssumption DEF Shape
<1>5. n \in Nat /\ T \in Int /\ T > 0
  BY <1>1, TotalIs DEF Shape, TotalRight
<1> HIDE DEF T, n
<1>6. cursor[b] * T - n * WeightOf(b) = -credit[b]
  <2>1. cursor[b] * T \in Int /\ n * WeightOf(b) \in Int
    BY <1>4, <1>5
  <2> QED  BY <1>2, <2>1
<1>7. cursor[b] * T - n * WeightOf(b) < T
  BY <1>3, <1>4, <1>5, <1>6
<1>8. ASSUME n % T = 0 PROVE cursor[b] * T - n * WeightOf(b) = 0
  <2> DEFINE k == n \div T
  <2>1. k \in Int /\ n = T * k
    BY <1>5, <1>8
  <2> HIDE DEF k
  <2>2. ASSUME NEW o \in Buckets PROVE credit[o] >= 0
    <3> DEFINE x == k * WeightOf(o) - cursor[o]
    <3>1. x \in Int
      BY <1>4, <2>1
    <3>2. credit[o] = T * x
      <4>1. credit[o] = (T * k) * WeightOf(o) - cursor[o] * T
        BY <1>2, <2>1
      <4> QED  BY <4>1, <1>4, <1>5, <2>1
    <3> HIDE DEF x
    <3>3. x > -1
      <4> SUFFICES ASSUME x <= -1 PROVE FALSE
        BY <3>1
      <4>1. T * x <= -T
        BY <1>5, <3>1
      <4> QED  BY <4>1, <3>2, <1>3, <1>4, <1>5
    <3> QED  BY <3>1, <3>2, <3>3, <1>5
  <2>3. credit[b] = 0
    <3>1. Len(order) \in Nat /\ Buckets = 1..Len(order) /\ credit \in [1..Len(order) -> Int]
      BY <1>1 DEF Shape
    <3> QED  BY <1>1, <2>2, <3>1, SumOfNothing
  <2> QED  BY <1>6, <2>3
<1> QED  BY <1>7, <1>8 DEF T, n

\* weight.ts: a weight is slots per round.  Whatever the weights, until a bucket
\* runs dry none is a whole slot ahead, and every round gives each its weight.
THEOREM SharesHold == Spec => []FairShares
<1>1. IndInv => FairShares
  BY SharesAreFair
<1> QED  BY <1>1, Invariance, PTL

\* weight.ts: with every weight 1 the interleave is the plain round-robin, however
\* many buckets there are, until one of them has run dry.
THEOREM TurnsHold == Spec => []InTurn
BY Invariance, PTL DEF IndInv

----------------------------------------------------------------------------
(* What the buckets of a channel hold.                                     *)

\* A list of what is in a set is one of what is in a larger set.
LEMMA Wider ==
  ASSUME NEW X, NEW Y, X \subseteq Y, NEW s \in Seq(X)
  PROVE  s \in Seq(Y)
<1>1. Len(s) \in Nat /\ s \in [1..Len(s) -> X]
  OBVIOUS
<1>2. s \in [1..Len(s) -> Y]
  BY <1>1
<1> QED  BY <1>1, <1>2

LEMMA InItself ==
  ASSUME NEW X, NEW s \in Seq(X)
  PROVE  s \in Seq(ToSet(s)) /\ ToSet(s) \subseteq X
<1>1. Len(s) \in Nat /\ s \in [1..Len(s) -> X] /\ DOMAIN s = 1..Len(s)
  OBVIOUS
<1>2. s \in [1..Len(s) -> ToSet(s)]
  BY <1>1 DEF ToSet
<1> QED  BY <1>1, <1>2 DEF ToSet

\* What playing a title gives: its leaves, or the film itself.
GivenBy(t) == IF t \in Shows THEN LeafKeys(t) ELSE {t}

LEMMA GivenApart ==
  ASSUME NEW t \in Titles, NEW u \in Titles, t # u
  PROVE  GivenBy(t) \intersect GivenBy(u) = {}
BY LibraryAssumption DEF GivenBy

LEMMA LeavesAre ==
  ASSUME NEW t \in Shows
  PROVE  /\ Leaves[t] \in Seq(ToSet(Leaves[t])) /\ IsInjective(Leaves[t]) /\ Keyed(Leaves[t])
         /\ LeafKeys(t) \intersect Titles = {}
         /\ \A u \in Shows : u # t => LeafKeys(t) \intersect LeafKeys(u) = {}
<1>1. /\ Leaves[t] \in Seq(ToSet(Leaves[t])) /\ IsInjective(KeysOf(Leaves[t]))
      /\ LeafKeys(t) \intersect Titles = {}
      /\ \A u \in Shows \ {t} : LeafKeys(t) \intersect LeafKeys(u) = {}
  BY LibraryAssumption
<1> QED  BY <1>1, KeysAre

\* The keys of some of a show's leaves, each leaf once.
LEMMA SomeLeaves ==
  ASSUME NEW t \in Shows, NEW s \in Seq(ToSet(Leaves[t])), IsInjective(s)
  PROVE  /\ KeysOf(s) \in Seq(LeafKeys(t)) /\ IsInjective(KeysOf(s))
         /\ ToSet(KeysOf(s)) = {e.key : e \in ToSet(s)}
<1>1. ToSet(s) \subseteq ToSet(Leaves[t])
  BY InItself
<1>2. Keyed(s)
  BY <1>1, LeavesAre DEF Keyed
<1>3. /\ KeysOf(s) \in Seq({e.key : e \in ToSet(s)})
      /\ ToSet(KeysOf(s)) = {e.key : e \in ToSet(s)}
      /\ IsInjective(KeysOf(s))
  BY <1>2, KeysAre
<1>4. {e.key : e \in ToSet(s)} \subseteq LeafKeys(t)
  BY <1>1 DEF LeafKeys
<1> QED  BY <1>3, <1>4, Wider

\* What the rule owes of a show, for a history of its own.
Owes(c, seen, t, k) ==
  LET floored == {e \in ToSet(Leaves[t]) : AtOrAfterStart(e, c.starts[t])}
      finished == \A e \in floored : e.key \in seen
  IN  \E e \in floored : e.key = k /\ (k \notin seen \/ (finished /\ RestartsFor(c, t)))

LEMMA ShowGives ==
  ASSUME NEW c, NEW seen, NEW t \in Shows
  PROVE  /\ ShowBucket(c, seen, t).items \in Seq(LeafKeys(t)) /\ IsInjective(ShowBucket(c, seen, t).items)
         /\ \A k : k \in ToSet(ShowBucket(c, seen, t).items) <=> Owes(c, seen, t, k)
<1> DEFINE items == ShowBucket(c, seen, t).items
           X == ToSet(Leaves[t])
           F == {e \in X : AtOrAfterStart(e, c.starts[t])}
           floored == Only(Leaves[t], F)
           done == {e \in ToSet(floored) : e.key \in seen}
           fresh == Without(floored, done)
           left == LeftOf(c, t, fresh, floored)
<1>1. items = KeysOf(left)
  BY DEF ShowBucket
<1>2. Leaves[t] \in Seq(X) /\ IsInjective(Leaves[t]) /\ Keyed(Leaves[t])
  BY LeavesAre
<1> HIDE DEF X, items
<1>3. floored \in Seq(X) /\ ToSet(floored) = F /\ IsInjective(floored)
  <2>1. /\ floored \in Seq(X) /\ ToSet(floored) = ToSet(Leaves[t]) \intersect F
        /\ IsInjective(floored)
    BY <1>2, OnlyKeeps
  <2> QED  BY <2>1 DEF X
<1> HIDE DEF floored
<1>4. fresh \in Seq(X) /\ ToSet(fresh) = F \ done /\ IsInjective(fresh)
  BY <1>3, WithoutKeeps
<1>5. done = {e \in F : e.key \in seen}
  BY <1>3
<1> HIDE DEF fresh, F, done
<1>6. left = IF fresh # <<>> \/ ~RestartsFor(c, t) THEN fresh ELSE floored
  BY DEF LeftOf
<1>7. left \in Seq(X) /\ IsInjective(left)
  BY <1>3, <1>4, <1>6
<1> HIDE DEF left
<1>8. /\ KeysOf(left) \in Seq(LeafKeys(t)) /\ IsInjective(KeysOf(left))
      /\ ToSet(KeysOf(left)) = {e.key : e \in ToSet(left)}
  BY <1>7, SomeLeaves DEF X
<1> DEFINE finished == \A e \in F : e.key \in seen
<1>9. fresh = <<>> <=> finished
  <2>1. fresh = <<>> <=> ToSet(fresh) = {}
    BY <1>4 DEF ToSet
  <2> QED  BY <2>1, <1>4, <1>5
<1>10. \A k : k \in ToSet(items) <=> \E e \in ToSet(left) : e.key = k
  BY <1>1, <1>8
<1>11. \A e : e \in ToSet(left) <=> e \in F /\ (e.key \notin seen \/ (finished /\ RestartsFor(c, t)))
  BY <1>3, <1>4, <1>5, <1>6, <1>9
<1>12. \A k : Owes(c, seen, t, k) <=> \E e \in F : e.key = k /\ (k \notin seen \/ (finished /\ RestartsFor(c, t)))
  BY DEF Owes, F, X
<1> QED  BY <1>1, <1>8, <1>10, <1>11, <1>12 DEF items

LEMMA SectionGives ==
  ASSUME NEW c, NEW seen, NEW miss, NEW s \in DOMAIN Sections
  PROVE  /\ ItemBucket(c, seen, miss, s).items \in Seq(ToSet(Sections[s].rows))
         /\ IsInjective(ItemBucket(c, seen, miss, s).items)
<1> DEFINE items == ItemBucket(c, seen, miss, s).items
           rows == Sections[s].rows
           X == ToSet(rows)
           some == RowsOf(c, miss, s)
           fresh == Without(some, seen)
<1>1. rows \in Seq(X) /\ IsInjective(rows)
  BY LibraryAssumption
<1> HIDE DEF X
<1>2. some \in Seq(X) /\ IsInjective(some)
  BY <1>1, OnlyKeeps DEF RowsOf
<1> HIDE DEF some
<1>3. fresh \in Seq(X) /\ IsInjective(fresh)
  BY <1>2, WithoutKeeps
<1> HIDE DEF fresh
<1>4. items = LeftOf(c, s, fresh, some)
  BY DEF ItemBucket, fresh, some
<1>5. items \in {fresh, some}
  BY <1>4 DEF LeftOf
<1> QED  BY <1>2, <1>3, <1>5 DEF X

LEMMA MemberGives ==
  ASSUME NEW c, NEW seen, NEW t
  PROVE  MemberItems(c, seen, t) \in Seq(GivenBy(t)) /\ IsInjective(MemberItems(c, seen, t))
<1>1. CASE t \notin Shows
  <2>1. MemberItems(c, seen, t) = Without(<<t>>, seen)
    BY <1>1 DEF MemberItems
  <2> DEFINE one == <<t>>
  <2>2. one \in Seq({t}) /\ IsInjective(one)
    BY Single
  <2> HIDE DEF one
  <2>3. Without(one, seen) \in Seq({t}) /\ IsInjective(Without(one, seen))
    BY <2>2, WithoutKeeps
  <2> QED  BY <1>1, <2>1, <2>3 DEF GivenBy, one
<1>2. CASE t \in Shows
  <2> DEFINE X == ToSet(Leaves[t])
             real == {e \in X : e.real}
             R == {e \in real : e.season # 0}
             C == {e \in real : e.season = 0 /\ e.key \in c.specials}
             regular == Only(Leaves[t], R)
             chosen == Only(Leaves[t], C)
             placed == PlaceSpecials(regular, chosen)
             played == IF regular = <<>> THEN <<>> ELSE placed
  <2>1. MemberItems(c, seen, t) = Without(KeysOf(played), seen \union c.skipped)
    BY <1>2 DEF MemberItems, Unspent, OrderedPlayableEpisodes
  <2>2. Leaves[t] \in Seq(X) /\ IsInjective(Leaves[t])
    BY <1>2, LeavesAre
  <2>3. R \intersect C = {}
    OBVIOUS
  <2> HIDE DEF X, R, C
  <2>4. regular \in Seq(X) /\ ToSet(regular) \subseteq R /\ IsInjective(regular)
    BY <2>2, OnlyKeeps
  <2>5. chosen \in Seq(X) /\ ToSet(chosen) \subseteq C /\ IsInjective(chosen)
    BY <2>2, OnlyKeeps
  <2> HIDE DEF regular, chosen
  <2>6. placed \in Seq(X) /\ IsInjective(placed)
    <3>1. ToSet(regular) \intersect ToSet(chosen) = {}
      BY <2>3, <2>4, <2>5
    <3> QED  BY <2>4, <2>5, <3>1, SpecialsPlaced
  <2> HIDE DEF placed
  <2>7. played \in Seq(X) /\ IsInjective(played)
    BY <2>6 DEF IsInjective
  <2> HIDE DEF played
  <2>8. KeysOf(played) \in Seq(LeafKeys(t)) /\ IsInjective(KeysOf(played))
    BY <1>2, <2>7, SomeLeaves DEF X
  <2>9. /\ Without(KeysOf(played), seen \union c.skipped) \in Seq(LeafKeys(t))
        /\ IsInjective(Without(KeysOf(played), seen \union c.skipped))
    BY <2>8, WithoutKeeps
  <2> QED  BY <1>2, <2>1, <2>9 DEF GivenBy
<1> QED  BY <1>1, <1>2

LEMMA ChildrenAre ==
  ASSUME NEW c, NEW name
  PROVE  ChildrenIn(c, name) \in Seq(Titles) /\ IsInjective(ChildrenIn(c, name))
<1>1. <<>> \in Seq(Titles) /\ IsInjective(<<>>)
  BY DEF IsInjective
<1> QED  BY <1>1, LibraryAssumption DEF ChildrenIn

\* What the titles of a set give together.
AllGivenBy(T) == UNION {GivenBy(t) : t \in T}

LEMMA CollectionGives ==
  ASSUME NEW c, NEW seen, NEW name
  PROVE  /\ CollectionItems(c, seen, name) \in Seq(AllGivenBy(ToSet(ChildrenIn(c, name))))
         /\ IsInjective(CollectionItems(c, seen, name))
<1> DEFINE children == ChildrenIn(c, name)
           kept == Without(children, c.skipped)
           Y == AllGivenBy(ToSet(children))
           ss == [i \in DOMAIN kept |-> MemberItems(c, seen, kept[i])]
<1>1. kept \in Seq(Titles) /\ ToSet(kept) \subseteq ToSet(children) /\ IsInjective(kept)
  BY ChildrenAre, WithoutKeeps
<1>2. CollectionItems(c, seen, name) = FlattenSeq(ss)
  BY DEF CollectionItems
<1> HIDE DEF kept
<1>3. /\ Len(kept) \in Nat /\ DOMAIN kept = 1..Len(kept)
      /\ \A i \in DOMAIN kept : kept[i] \in Titles /\ kept[i] \in ToSet(children)
  BY <1>1 DEF ToSet
<1>4. ASSUME NEW i \in DOMAIN kept
      PROVE  ss[i] \in Seq(GivenBy(kept[i])) /\ ss[i] \in Seq(Y) /\ IsInjective(ss[i])
  <2>1. ss[i] \in Seq(GivenBy(kept[i])) /\ IsInjective(ss[i])
    BY MemberGives
  <2>2. GivenBy(kept[i]) \subseteq Y
    BY <1>3 DEF AllGivenBy
  <2> HIDE DEF ss, Y
  <2> QED  BY <2>1, <2>2, Wider
<1>5. ss \in Seq(Seq(Y)) /\ DOMAIN ss = DOMAIN kept
  <2>1. ss = [i \in 1..Len(kept) |-> ss[i]]
    BY <1>3
  <2> HIDE DEF ss, Y
  <2>2. ss \in [1..Len(kept) -> Seq(Y)]
    BY <1>3, <1>4, <2>1
  <2> QED  BY <1>3, <2>2
<1> HIDE DEF ss, Y
<1>6. ASSUME NEW i \in DOMAIN kept, NEW j \in DOMAIN kept, i # j
      PROVE  ToSet(ss[i]) \intersect ToSet(ss[j]) = {}
  <2>1. kept[i] # kept[j]
    BY <1>1, <1>6 DEF IsInjective
  <2>2. GivenBy(kept[i]) \intersect GivenBy(kept[j]) = {}
    BY <1>3, <2>1, GivenApart
  <2>3. ToSet(ss[i]) \subseteq GivenBy(kept[i]) /\ ToSet(ss[j]) \subseteq GivenBy(kept[j])
    BY <1>4, InItself
  <2> QED  BY <2>2, <2>3
<1>7. FlattenSeq(ss) \in Seq(Y) /\ IsInjective(FlattenSeq(ss))
  BY <1>4, <1>5, <1>6, Flattened
<1> QED  BY <1>2, <1>7 DEF Y

\* The titles the members of a channel speak for, as the pool finds them, and
\* as the channel names them.
Speaks(c, seen, miss) == {b.rk : b \in MemberBuckets(c, seen, miss)} \union CollectionCover(c, miss)

SpokenBy(c) ==
  LET of == {c.members[i].of : i \in DOMAIN c.members}
  IN  of \union UNION {ToSet(Collections[n].children) :
                        n \in {o \in of \intersect DOMAIN Collections :
                                 Collections[o].section \in c.sections}}

LEMMA MembersOf ==
  ASSUME NEW c \in Configs, NEW miss, NEW i \in DOMAIN c.members
  PROVE  /\ i \in Nat \ {0}
         /\ c.members[i].of \in Titles \union DOMAIN Collections
         /\ c.members[i].of \in SpokenBy(c)
         /\ ToSet(ChildrenIn(c, c.members[i].of)) \subseteq SpokenBy(c)
         /\ (i \in CollectionMembers(c) /\ i \notin miss.cover) =>
              ToSet(ChildrenIn(c, c.members[i].of)) \subseteq CollectionCover(c, miss)
<1> DEFINE of == c.members[i].of
<1>1. c.members \in Seq(ToSet(c.members)) /\ \A m \in ToSet(c.members) : m.of \in Titles \union DOMAIN Collections
  BY ChannelAssumption
<1>2. i \in Nat \ {0}
  BY <1>1
<1>3. c.members[i] \in ToSet(c.members)
  BY DEF ToSet
<1>4. ASSUME i \in CollectionMembers(c), i \notin miss.cover
      PROVE  ToSet(ChildrenIn(c, of)) \subseteq CollectionCover(c, miss)
  BY <1>4 DEF CollectionCover
<1>5. ToSet(ChildrenIn(c, of)) \subseteq SpokenBy(c)
  <2>1. CASE of \in DOMAIN Collections /\ Collections[of].section \in c.sections
    BY <2>1 DEF ChildrenIn, SpokenBy
  <2>2. CASE ~(of \in DOMAIN Collections /\ Collections[of].section \in c.sections)
    <3>1. ChildrenIn(c, of) = <<>>
      BY <2>2 DEF ChildrenIn
    <3> QED  BY <3>1 DEF ToSet
  <2> QED  BY <2>1, <2>2
<1> QED  BY <1>1, <1>2, <1>3, <1>4, <1>5 DEF SpokenBy

\* A member is a title the channel speaks for, or, whole, a collection it names.
LEMMA DescIs ==
  ASSUME NEW c \in Configs, NEW m \in MemberDescs(c)
  PROVE  /\ m.at # ByRule /\ m.of \in SpokenBy(c)
         /\ \/ /\ m.of \in DOMAIN Collections /\ ~c.split
               /\ \E i \in CollectionMembers(c) : m.at = <<i, 0>> /\ m.of = c.members[i].of
            \/ m.of \in Titles \ DOMAIN Collections
<1> DEFINE w(i) == c.members[i]
           children(i) == ChildrenIn(c, w(i).of)
           Split(i) == {[of |-> children(i)[j], weight |-> w(i).weight, at |-> <<i, j>>] : j \in DOMAIN children(i)}
           Whole(i) == {[of |-> w(i).of, weight |-> w(i).weight, at |-> <<i, 0>>]}
<1>1. PICK i \in DOMAIN c.members :
        m \in IF c.split /\ w(i).of \in DOMAIN Collections THEN Split(i) ELSE Whole(i)
  BY DEF MemberDescs
<1>2. /\ i \in Nat \ {0} /\ w(i).of \in Titles \union DOMAIN Collections /\ w(i).of \in SpokenBy(c)
      /\ ToSet(children(i)) \subseteq SpokenBy(c)
  BY MembersOf
<1>3. CASE m \in Split(i)
  <2>1. PICK j \in DOMAIN children(i) : m = [of |-> children(i)[j], weight |-> w(i).weight, at |-> <<i, j>>]
    BY <1>3
  <2>2. m.of = children(i)[j] /\ m.at = <<i, j>>
    BY <2>1
  <2>3. m.of \in ToSet(children(i))
    BY <2>2 DEF ToSet
  <2>4. ToSet(children(i)) \subseteq Titles
    BY ChildrenAre, InItself
  <2>5. m.of \notin DOMAIN Collections
    BY <2>3, <2>4, LibraryAssumption
  <2>6. m.at # ByRule
    BY <1>2, <2>2 DEF ByRule
  <2> QED  BY <1>2, <2>3, <2>4, <2>5, <2>6
<1>4. CASE m \in Whole(i) /\ ~(c.split /\ w(i).of \in DOMAIN Collections)
  <2>1. m.of = w(i).of /\ m.at = <<i, 0>>
    BY <1>4
  <2>2. m.at # ByRule
    BY <1>2, <2>1 DEF ByRule
  <2>3. m.of \in DOMAIN Collections => i \in CollectionMembers(c) /\ ~c.split
    BY <1>4, <2>1 DEF CollectionMembers
  <2> QED  BY <1>2, <2>1, <2>2, <2>3
<1> QED  BY <1>1, <1>3, <1>4

LEMMA MembersSpeak ==
  ASSUME NEW c \in Configs, NEW seen, NEW miss
  PROVE  Speaks(c, seen, miss) \subseteq SpokenBy(c)
<1>1. ASSUME NEW b \in MemberBuckets(c, seen, miss) PROVE b.rk \in SpokenBy(c)
  <2>1. PICK m \in MemberDescs(c) : b = MemberBucket(c, seen, m)
    BY DEF MemberBuckets
  <2>2. b.rk = m.of
    BY <2>1 DEF MemberBucket
  <2> QED  BY <2>2, DescIs
<1>2. CollectionCover(c, miss) \subseteq SpokenBy(c)
  BY MembersOf DEF CollectionCover, CollectionMembers
<1> QED  BY <1>1, <1>2 DEF Speaks

\* What a bucket holds, each once.
Holds(b, S) == b.items \in Seq(S) /\ IsInjective(b.items)

\* The titles a pool takes from its members: those they speak for, and those of
\* a collection that answered as a member and not for the cover.
Taken(c, seen, miss) == Titles \intersect (Speaks(c, seen, miss) \union Uncovered(c, miss))

LEMMA TakenIs ==
  ASSUME NEW c \in Configs, NEW seen, NEW miss \in Misses(c)
  PROVE  Taken(c, seen, miss) \subseteq SpokenBy(c)
<1>1. Uncovered(c, miss) \subseteq SpokenBy(c)
  <2>1. miss.cover \subseteq DOMAIN c.members
    BY DEF Misses, CollectionMembers
  <2>2. \A i \in DOMAIN c.members : ToSet(ChildrenIn(c, c.members[i].of)) \subseteq SpokenBy(c)
    BY MembersOf
  <2> QED  BY <2>1, <2>2 DEF Uncovered
<1> QED  BY <1>1, MembersSpeak DEF Taken

\* A member's bucket holds what titles give that the pool takes from its members.
LEMMA MemberHolds ==
  ASSUME NEW c \in Configs, NEW seen, NEW miss, NEW b \in MemberBuckets(c, seen, miss)
  PROVE  b.at # ByRule /\ Holds(b, AllGivenBy(Taken(c, seen, miss)))
<1>1. PICK m \in MemberDescs(c) : m.at \notin miss.member /\ b = MemberBucket(c, seen, m)
  BY DEF MemberBuckets
<1>2. /\ b.rk = m.of /\ b.at = m.at
      /\ b.items = IF m.of \in DOMAIN Collections THEN CollectionItems(c, seen, m.of) ELSE MemberItems(c, seen, m.of)
  BY <1>1 DEF MemberBucket
<1>3. CollectionCover(c, miss) \subseteq Speaks(c, seen, miss) /\ m.of \in Speaks(c, seen, miss)
  BY <1>2 DEF Speaks
<1>4. CASE m.of \in DOMAIN Collections
  <2> DEFINE T == ToSet(ChildrenIn(c, m.of))
  <2>1. PICK i \in CollectionMembers(c) : ~c.split /\ m.at = <<i, 0>> /\ m.of = c.members[i].of
    <3>1. m.of \notin Titles \ DOMAIN Collections
      BY <1>4
    <3> QED  BY <3>1, DescIs
  <2>2. T \subseteq Titles
    BY ChildrenAre, InItself
  <2>3. T \subseteq Speaks(c, seen, miss) \union Uncovered(c, miss)
    <3>1. CASE i \in miss.cover
      BY <1>1, <2>1, <3>1 DEF Uncovered
    <3>2. CASE i \notin miss.cover
      BY <1>3, <2>1, <3>2, MembersOf DEF CollectionMembers
    <3> QED  BY <3>1, <3>2
  <2>4. b.items \in Seq(AllGivenBy(T)) /\ IsInjective(b.items)
    BY <1>2, <1>4, CollectionGives
  <2> HIDE DEF T
  <2>5. AllGivenBy(T) \subseteq AllGivenBy(Taken(c, seen, miss))
    BY <2>2, <2>3 DEF AllGivenBy, Taken
  <2> QED  BY <1>2, <2>4, <2>5, Wider, DescIs DEF Holds
<1>5. CASE m.of \notin DOMAIN Collections
  <2>1. m.of \in Titles
    BY <1>5, DescIs
  <2>2. b.items \in Seq(GivenBy(m.of)) /\ IsInjective(b.items)
    BY <1>2, <1>5, MemberGives
  <2>3. GivenBy(m.of) \subseteq AllGivenBy(Taken(c, seen, miss))
    BY <1>3, <2>1 DEF AllGivenBy, Taken
  <2> QED  BY <1>2, <2>2, <2>3, Wider, DescIs DEF Holds
<1> QED  BY <1>4, <1>5

\* What the rule may use of a show, and nothing else.
LEMMA RuleUses ==
  ASSUME NEW c \in Configs, NEW miss
  PROVE  /\ ScopedCfg(c, miss).sections \subseteq DOMAIN Sections
         /\ \A s \in DOMAIN Sections : ToSet(RowsOf(ScopedCfg(c, miss), miss, s)) =
              ToSet(Sections[s].rows) \intersect (ScopedCfg(c, miss).allowed \ ExpandedBlocklist(ScopedCfg(c, miss), miss))
<1>1. ScopedCfg(c, miss).sections \subseteq DOMAIN Sections
  <2>1. "sections" \in DOMAIN c /\ c.sections \subseteq DOMAIN Sections
    BY ChannelAssumption
  <2> QED  BY <2>1 DEF ScopedCfg
<1>2. ASSUME NEW s \in DOMAIN Sections
      PROVE  ToSet(RowsOf(ScopedCfg(c, miss), miss, s)) =
               ToSet(Sections[s].rows) \intersect (ScopedCfg(c, miss).allowed \ ExpandedBlocklist(ScopedCfg(c, miss), miss))
  <2>1. Sections[s].rows \in Seq(ToSet(Sections[s].rows))
    BY LibraryAssumption
  <2> QED  BY <2>1, OnlyKeeps DEF RowsOf
<1> QED  BY <1>1, <1>2

ShowOfRule(c, seen, miss, b) ==
  \E t \in Shows : /\ b = ShowBucket(ScopedCfg(c, miss), seen, t) /\ t \notin Speaks(c, seen, miss)
SectionOfRule(c, seen, miss, b) ==
  \E s \in DOMAIN Sections : Sections[s].type = "movie" /\ b = ItemBucket(ScopedCfg(c, miss), seen, miss, s)

\* A bucket is a member's, or a show's or a film library's by the rule.
LEMMA PoolIs ==
  ASSUME NEW c \in Configs, NEW seen, NEW miss, NEW b \in ChannelBuckets(c, seen, miss)
  PROVE  \/ b \in MemberBuckets(c, seen, miss)
         \/ ShowOfRule(c, seen, miss, b) \/ SectionOfRule(c, seen, miss, b)
<1> DEFINE sc == ScopedCfg(c, miss)
           ofType(type) == {s \in sc.sections : Sections[s].type = type}
<1> SUFFICES ASSUME b \notin MemberBuckets(c, seen, miss)
             PROVE  ShowOfRule(c, seen, miss, b) \/ SectionOfRule(c, seen, miss, b)
  OBVIOUS
<1>1. b \in UnwatchedBuckets(c, seen, miss) /\ (c.members = <<>> \/ b.rk \notin Speaks(c, seen, miss))
  BY DEF ChannelBuckets, Speaks
<1>2. c.members = <<>> => Speaks(c, seen, miss) = {}
  <2> SUFFICES ASSUME c.members = <<>> PROVE Speaks(c, seen, miss) = {}
    OBVIOUS
  <2>1. MemberDescs(c) = {}
    BY DEF MemberDescs
  <2>2. MemberBuckets(c, seen, miss) = {}
    BY <2>1 DEF MemberBuckets
  <2>3. CollectionMembers(c) = {}
    BY DEF CollectionMembers
  <2>4. CollectionCover(c, miss) = {}
    BY <2>3 DEF CollectionCover
  <2> QED  BY <2>2, <2>4 DEF Speaks
<1>3. b.rk \notin Speaks(c, seen, miss)
  BY <1>1, <1>2
<1>4. \/ \E t \in UNION {ToSet(RowsOf(sc, miss, s)) : s \in ofType("show")} : b = ShowBucket(sc, seen, t)
      \/ \E s \in ofType("movie") : b = ItemBucket(sc, seen, miss, s)
  BY <1>1 DEF UnwatchedBuckets
<1>5. ASSUME NEW t \in UNION {ToSet(RowsOf(sc, miss, s)) : s \in ofType("show")}, b = ShowBucket(sc, seen, t)
      PROVE  ShowOfRule(c, seen, miss, b)
  <2>1. PICK s \in ofType("show") : t \in ToSet(RowsOf(sc, miss, s))
    OBVIOUS
  <2>2. s \in DOMAIN Sections /\ t \in ToSet(Sections[s].rows)
    BY <2>1, RuleUses
  <2>3. t \in Shows
    BY <2>1, <2>2, LibraryAssumption
  <2>4. b.rk = t
    BY <1>5 DEF ShowBucket
  <2> QED  BY <1>3, <1>5, <2>3, <2>4 DEF ShowOfRule
<1>6. ASSUME NEW s \in ofType("movie"), b = ItemBucket(sc, seen, miss, s) PROVE SectionOfRule(c, seen, miss, b)
  BY <1>6, RuleUses DEF SectionOfRule
<1> QED  BY <1>4, <1>5, <1>6

\* What a bucket of the rule holds.
LEMMA ShowHolds ==
  ASSUME NEW c \in Configs, NEW seen, NEW miss, NEW t \in Shows, NEW b, b = ShowBucket(ScopedCfg(c, miss), seen, t)
  PROVE  Holds(b, LeafKeys(t))
BY ShowGives DEF Holds

LEMMA SectionHolds ==
  ASSUME NEW c \in Configs, NEW seen, NEW miss, NEW s \in DOMAIN Sections, NEW b, b = ItemBucket(ScopedCfg(c, miss), seen, miss, s)
  PROVE  Holds(b, ToSet(Sections[s].rows))
BY SectionGives DEF Holds

LEMMA HeldIn ==
  ASSUME NEW S, NEW b, Holds(b, S)
  PROVE  b.items \in Seq(ToSet(b.items)) /\ ToSet(b.items) \subseteq S
BY InItself DEF Holds

\* Every bucket holds each of its keys once.
LEMMA PoolTidy ==
  ASSUME NEW c \in Configs, NEW seen, NEW miss, NEW b \in ChannelBuckets(c, seen, miss)
  PROVE  b.items \in Seq(ToSet(b.items)) /\ IsInjective(b.items)
<1>1. ASSUME NEW S, Holds(b, S) PROVE b.items \in Seq(ToSet(b.items)) /\ IsInjective(b.items)
  BY <1>1, HeldIn DEF Holds
<1>2. CASE b \in MemberBuckets(c, seen, miss)
  BY <1>1, <1>2, MemberHolds
<1>3. CASE ShowOfRule(c, seen, miss, b)
  <2>1. PICK t \in Shows : b = ShowBucket(ScopedCfg(c, miss), seen, t)
    BY <1>3 DEF ShowOfRule
  <2> QED  BY <1>1, <2>1, ShowHolds
<1>4. CASE SectionOfRule(c, seen, miss, b)
  <2>1. PICK s \in DOMAIN Sections : b = ItemBucket(ScopedCfg(c, miss), seen, miss, s)
    BY <1>4 DEF SectionOfRule
  <2> QED  BY <1>1, <2>1, SectionHolds
<1> QED  BY <1>2, <1>3, <1>4, PoolIs

\* A title of a film library is no leaf, and one of a show library is a show.
LEMMA RowsAre ==
  ASSUME NEW s \in DOMAIN Sections
  PROVE  /\ ToSet(Sections[s].rows) \subseteq Titles
         /\ Sections[s].type = "movie" => \A t \in Shows : LeafKeys(t) \intersect ToSet(Sections[s].rows) = {}
BY LibraryAssumption DEF Titles

\* What a member's bucket holds is given by a title the pool takes from its members.
LEMMA MemberHoldsOf ==
  ASSUME NEW c \in Configs, NEW seen, NEW miss, NEW b \in MemberBuckets(c, seen, miss), NEW k \in ToSet(b.items)
  PROVE  \E t \in Taken(c, seen, miss) : k \in GivenBy(t)
<1> DEFINE S == AllGivenBy(Taken(c, seen, miss))
<1>1. Holds(b, S)
  BY MemberHolds
<1> HIDE DEF S
<1>2. k \in S
  BY <1>1, HeldIn
<1> QED  BY <1>2 DEF S, AllGivenBy

\* What may be dealt twice: a film the members speak for, and the leaves of a show
\* of a collection that could not be read again for the cover.
Twice(c, miss, k) ==
  \/ k \in SpokenBy(c) \ Shows
  \/ \E t \in Uncovered(c, miss) \intersect Shows : k \in LeafKeys(t)

\* What a member and the rule both hold is one of those.
LEMMA MemberAndRule ==
  ASSUME NEW c \in Configs, NEW seen, NEW miss \in Misses(c), NEW b \in MemberBuckets(c, seen, miss),
         NEW d, NEW k \in ToSet(b.items), k \in ToSet(d.items),
         ShowOfRule(c, seen, miss, d) \/ SectionOfRule(c, seen, miss, d)
  PROVE  Twice(c, miss, k)
<1>1. PICK t \in Taken(c, seen, miss) : k \in GivenBy(t)
  BY MemberHoldsOf
<1>2. t \in SpokenBy(c) /\ t \in Titles /\ t \in Speaks(c, seen, miss) \union Uncovered(c, miss)
  BY TakenIs DEF Taken
<1>3. CASE t \notin Shows
  BY <1>1, <1>2, <1>3 DEF GivenBy, Twice
<1>4. CASE t \in Shows
  <2>1. k \in LeafKeys(t)
    BY <1>1, <1>4 DEF GivenBy
  <2>2. ASSUME ShowOfRule(c, seen, miss, d) PROVE t \notin Speaks(c, seen, miss)
    <3>1. PICK u \in Shows : d = ShowBucket(ScopedCfg(c, miss), seen, u) /\ u \notin Speaks(c, seen, miss)
      BY <2>2 DEF ShowOfRule
    <3>2. k \in LeafKeys(u)
      BY <3>1, ShowHolds, HeldIn
    <3>3. u = t
      BY <1>4, <2>1, <3>2, LeavesAre
    <3> QED  BY <3>1, <3>3
  <2>3. ASSUME SectionOfRule(c, seen, miss, d) PROVE FALSE
    <3>1. PICK s \in DOMAIN Sections : /\ Sections[s].type = "movie"
                                       /\ d = ItemBucket(ScopedCfg(c, miss), seen, miss, s)
      BY <2>3 DEF SectionOfRule
    <3>2. k \in ToSet(Sections[s].rows)
      BY <3>1, SectionHolds, HeldIn
    <3> QED  BY <1>4, <2>1, <3>1, <3>2, RowsAre
  <2>4. t \in Uncovered(c, miss)
    BY <1>2, <2>2, <2>3
  <2> QED  BY <1>4, <2>1, <2>4 DEF Twice
<1> QED  BY <1>3, <1>4

\* Two buckets of the rule hold nothing in common.
LEMMA RuleApart ==
  ASSUME NEW c \in Configs, NEW seen, NEW miss, NEW b, NEW d, b # d,
         ShowOfRule(c, seen, miss, b) \/ SectionOfRule(c, seen, miss, b),
         ShowOfRule(c, seen, miss, d) \/ SectionOfRule(c, seen, miss, d)
  PROVE  ToSet(b.items) \intersect ToSet(d.items) = {}
<1>1. ASSUME NEW x, ShowOfRule(c, seen, miss, x)
      PROVE  \E t \in Shows : x = ShowBucket(ScopedCfg(c, miss), seen, t) /\ ToSet(x.items) \subseteq LeafKeys(t)
  BY <1>1, ShowHolds, HeldIn DEF ShowOfRule
<1>2. ASSUME NEW x, SectionOfRule(c, seen, miss, x)
      PROVE  \E s \in DOMAIN Sections : /\ x = ItemBucket(ScopedCfg(c, miss), seen, miss, s) /\ Sections[s].type = "movie"
                                        /\ ToSet(x.items) \subseteq ToSet(Sections[s].rows)
  BY <1>2, SectionHolds, HeldIn DEF SectionOfRule
<1>3. CASE ShowOfRule(c, seen, miss, b) /\ ShowOfRule(c, seen, miss, d)
  BY <1>1, <1>3, LeavesAre
<1>4. CASE SectionOfRule(c, seen, miss, b) /\ SectionOfRule(c, seen, miss, d)
  <2>1. \A s, r \in DOMAIN Sections : s # r => ToSet(Sections[s].rows) \intersect ToSet(Sections[r].rows) = {}
    BY LibraryAssumption
  <2> QED  BY <1>2, <1>4, <2>1
<1>5. CASE ShowOfRule(c, seen, miss, b) /\ SectionOfRule(c, seen, miss, d)
  BY <1>1, <1>2, <1>5, RowsAre
<1>6. CASE SectionOfRule(c, seen, miss, b) /\ ShowOfRule(c, seen, miss, d)
  BY <1>1, <1>2, <1>6, RowsAre
<1> QED  BY <1>3, <1>4, <1>5, <1>6

\* A key of two buckets is one that may be dealt twice, or two members'.
LEMMA PoolApart ==
  ASSUME NEW c \in Configs, NEW seen, NEW miss \in Misses(c), NEW b \in ChannelBuckets(c, seen, miss), NEW d \in ChannelBuckets(c, seen, miss),
         b # d, NEW k \in ToSet(b.items), k \in ToSet(d.items)
  PROVE  Twice(c, miss, k) \/ (b.at # ByRule /\ d.at # ByRule)
<1> DEFINE Ruled(x) == ShowOfRule(c, seen, miss, x) \/ SectionOfRule(c, seen, miss, x)
<1>1. b \in MemberBuckets(c, seen, miss) \/ Ruled(b)
  BY PoolIs
<1>2. d \in MemberBuckets(c, seen, miss) \/ Ruled(d)
  BY PoolIs
<1>3. CASE b \in MemberBuckets(c, seen, miss) /\ d \in MemberBuckets(c, seen, miss)
  BY <1>3, MemberHolds
<1>4. CASE b \in MemberBuckets(c, seen, miss) /\ Ruled(d)
  BY <1>4, MemberAndRule
<1>5. CASE Ruled(b) /\ d \in MemberBuckets(c, seen, miss)
  BY <1>5, MemberAndRule
<1>6. CASE Ruled(b) /\ Ruled(d)
  BY <1>6, RuleApart
<1> QED  BY <1>1, <1>2, <1>3, <1>4, <1>5, <1>6

\* The shows of the rule that no member speaks for.
Free(c) ==
  LET sc == ScopedCfg(c, NoMiss)
      titles == {t \in Shows : \E s \in sc.sections :
                   Sections[s].type = "show" /\ t \in ToSet(Sections[s].rows)}
  IN  {t \in titles : t \in sc.allowed /\ t \notin ExpandedBlocklist(sc, NoMiss) \union SpokenBy(c)}

\* The pool holds of such a show what the rule owes of it, and no other leaf.
LEMMA PoolOwes ==
  ASSUME NEW c \in Configs, NEW seen, NEW miss \in Misses(c), ~miss.scope,
         NEW t \in Free(c), NEW k \in LeafKeys(t)
  PROVE  (\E b \in ChannelBuckets(c, seen, miss) : k \in ToSet(b.items)) <=> Owes(ScopedCfg(c, NoMiss), seen, t, k)
<1> DEFINE sc == ScopedCfg(c, miss)
           own == ShowBucket(sc, seen, t)
<1>0. sc = ScopedCfg(c, NoMiss)
  BY DEF ScopedCfg, NoMiss
<1>1. t \in Shows /\ t \in sc.allowed /\ t \notin ExpandedBlocklist(sc, miss) /\ t \notin SpokenBy(c)
  <2>1. ExpandedBlocklist(sc, miss) \subseteq ExpandedBlocklist(sc, NoMiss)
    BY DEF ExpandedBlocklist, NoMiss
  <2> QED  BY <1>0, <2>1 DEF Free
<1>2. PICK s \in sc.sections : Sections[s].type = "show" /\ t \in ToSet(Sections[s].rows)
  BY <1>0 DEF Free
<1>3. s \in DOMAIN Sections /\ t \in ToSet(RowsOf(sc, miss, s)) /\ t \in Titles
  BY <1>1, <1>2, RuleUses, RowsAre
<1>4. t \notin Speaks(c, seen, miss)
  BY <1>1, MembersSpeak
<1>5. \A x : x \in ToSet(own.items) <=> Owes(sc, seen, t, x)
  BY <1>1, ShowGives
<1>6. ASSUME Owes(sc, seen, t, k) PROVE \E b \in ChannelBuckets(c, seen, miss) : k \in ToSet(b.items)
  <2>1. k \in ToSet(own.items)
    BY <1>5, <1>6
  <2>2. own.items # <<>>
    BY <2>1 DEF ToSet
  <2>3. own \in UnwatchedBuckets(c, seen, miss)
    BY <1>2, <1>3, <2>2 DEF UnwatchedBuckets
  <2>4. own.rk = t
    BY DEF ShowBucket
  <2>5. own \in ChannelBuckets(c, seen, miss)
    BY <1>4, <2>3, <2>4 DEF ChannelBuckets, Speaks
  <2> QED  BY <2>1, <2>5
<1>7. ASSUME NEW b \in ChannelBuckets(c, seen, miss), k \in ToSet(b.items) PROVE Owes(sc, seen, t, k)
  <2>1. CASE b \in MemberBuckets(c, seen, miss)
    <3>1. PICK u \in Taken(c, seen, miss) : k \in GivenBy(u)
      BY <1>7, <2>1, MemberHoldsOf
    <3>2. k \in GivenBy(t)
      BY <1>1 DEF GivenBy
    <3>3. u = t
      BY <1>3, <3>1, <3>2, GivenApart DEF Taken
    <3> QED  BY <1>1, <3>3, TakenIs
  <2>2. CASE ShowOfRule(c, seen, miss, b)
    <3>1. PICK u \in Shows : b = ShowBucket(sc, seen, u)
      BY <2>2 DEF ShowOfRule
    <3>2. k \in LeafKeys(u)
      BY <1>7, <3>1, ShowHolds, HeldIn
    <3>3. u = t
      BY <1>1, <3>2, LeavesAre
    <3> QED  BY <1>5, <1>7, <3>1, <3>3
  <2>3. CASE SectionOfRule(c, seen, miss, b)
    <3>1. PICK r \in DOMAIN Sections : Sections[r].type = "movie" /\ b = ItemBucket(sc, seen, miss, r)
      BY <2>3 DEF SectionOfRule
    <3>2. k \in ToSet(Sections[r].rows)
      BY <1>7, <3>1, SectionHolds, HeldIn
    <3> QED  BY <1>1, <3>1, <3>2, RowsAre
  <2> QED  BY <2>1, <2>2, <2>3, PoolIs
<1> QED  BY <1>0, <1>6, <1>7

----------------------------------------------------------------------------
(* What a lineup holds of its pool.                                        *)

\* The shuffled buckets are those of the pool, each once.
Drawn ==
  /\ \A b \in Buckets : order[b] \in ChannelBuckets(cfg, watched, missed)
  /\ \A d \in ChannelBuckets(cfg, watched, missed) : \E b \in Buckets : order[b] = d
  /\ \A b, d \in Buckets : order[b] = order[d] => b = d

\* A bucket was dealt from its head to its cursor, and nothing of it twice.
Headed ==
  /\ \A b \in Buckets : cursor[b] <= Len(order[b].items)
  /\ \A i \in DOMAIN out : \E n \in 1..cursor[out[i].bucket] : out[i].key = order[out[i].bucket].items[n]
  /\ \A b \in Buckets : \A n \in 1..cursor[b] :
       \E i \in DOMAIN out : out[i].bucket = b /\ out[i].key = order[b].items[n]
  /\ \A i, j \in DOMAIN out : (i # j /\ out[i].bucket = out[j].bucket) => out[i].key # out[j].key

Ended == stage = "done" => (Len(out) >= RotationLength(cfg) \/ Live = {})

PoolInv == (stage # "build" => Drawn /\ Headed) /\ Ended

\* A bucket in the lineup's order holds a list of keys, each once.
LEMMA OrderTidy ==
  ASSUME Shape, Drawn, NEW b \in Buckets
  PROVE  /\ order[b].items \in Seq(ToSet(order[b].items)) /\ IsInjective(order[b].items)
         /\ Len(order[b].items) \in Nat /\ DOMAIN order[b].items = 1..Len(order[b].items)
<1>1. cfg \in Configs /\ order[b] \in ChannelBuckets(cfg, watched, missed)
  BY DEF Shape, Drawn
<1>2. order[b].items \in Seq(ToSet(order[b].items)) /\ IsInjective(order[b].items)
  BY <1>1, PoolTidy
<1> QED  BY <1>2

LEMMA BuildDraws ==
  ASSUME IndInv, IndInv', Build
  PROVE  PoolInv'
<1> DEFINE pool == ChannelBuckets(cfg, watched, missed')
           n == Cardinality(pool)
<1>1. /\ stage = "build" /\ out = <<>> /\ cfg \in Configs /\ watched \in Histories
      /\ stage' = "deal" /\ out' = <<>> /\ cfg' = cfg /\ watched' = watched
      /\ missed' \in Misses(cfg)
  BY DEF IndInv, Shape, Build
<1>2. IsFiniteSet(pool) /\ n \in Nat
  BY <1>1, PoolAssumption, FS_CardinalityType
<1>3. order' \in [1..n -> pool] /\ IsInjective(order')
  <2>1. order' \in SetToSeqs(pool)
    BY DEF Build
  <2> HIDE DEF pool
  <2>2. order' \in [1..n -> pool] /\ \A i, j \in 1..n : i # j => order'[i] # order'[j]
    BY <2>1 DEF SetToSeqs
  <2> HIDE DEF n
  <2> QED  BY <2>2 DEF IsInjective
<1>4. Buckets' = 1..n /\ \A b \in Buckets' : cursor'[b] = 0
  BY <1>3 DEF Build, Buckets
<1> HIDE DEF pool, n
<1>5. \A d \in pool : \E b \in 1..n : order'[b] = d
  <2>1. order' \in Injection(1..n, pool)
    BY <1>3 DEF Injection, IsInjective
  <2>2. IsFiniteSet(1..n) /\ Cardinality(1..n) = n
    <3>1. IsFiniteSet(1..n) /\ Cardinality(1..n) = IF 1 > n THEN 0 ELSE n - 1 + 1
      BY <1>2, FS_Interval
    <3> QED  BY <1>2, <3>1
  <2>3. Cardinality(1..n) = Cardinality(pool)
    BY <2>2 DEF n
  <2>4. order' \in Surjection(1..n, pool)
    BY <1>2, <2>1, <2>2, <2>3, FS_SurjSameCardinalityImpliesInj, FS_Injection
  <2> QED  BY <2>4 DEF Surjection
<1>6. \A b, d \in 1..n : order'[b] = order'[d] => b = d
  BY <1>3 DEF IsInjective
<1>7. ChannelBuckets(cfg, watched, missed)' = pool
  BY <1>1 DEF pool
<1>8. Drawn'
  BY <1>3, <1>4, <1>5, <1>6, <1>7 DEF Drawn
<1>9. Headed'
  <2>1. \A b \in Buckets' : Len(order'[b].items) \in Nat
    BY <1>1, <1>3, <1>4, PoolTidy DEF pool
  <2>2. \A b \in Buckets' : 1..cursor'[b] = {} /\ cursor'[b] <= Len(order'[b].items)
    BY <1>4, <2>1
  <2>3. DOMAIN out' = {}
    BY <1>1
  <2> QED  BY <2>2, <2>3 DEF Headed
<1> QED  BY <1>1, <1>8, <1>9 DEF PoolInv, Ended

LEMMA DealHeads ==
  ASSUME IndInv, IndInv', PoolInv, Deal
  PROVE  PoolInv'
<1> DEFINE n == Len(out) + 1
           k == cursor[Best] + 1
<1>1. stage = "deal" /\ Shape /\ Counted /\ Drawn /\ Headed
  BY DEF IndInv, PoolInv, Deal
<1>2. /\ Best \in Live
      /\ order' = order /\ cfg' = cfg /\ watched' = watched /\ missed' = missed /\ stage' = "deal"
      /\ Len(out') = n /\ out' = [i \in 1..Len(out') |-> out'[i]]
      /\ \A i \in 1..Len(out) : out'[i] = out[i]
      /\ out'[n].bucket = Best
      /\ cursor' = [b \in Buckets |-> IF b = Best THEN k ELSE cursor[b]]
  BY <1>1, SlotDealt
<1>3. /\ Len(out) \in Nat /\ DOMAIN out = 1..Len(out) /\ DOMAIN out' = 1..n
      /\ cursor \in [Buckets -> Nat] /\ \A i \in DOMAIN out : out[i].bucket \in Buckets
  BY <1>1, <1>2 DEF Shape
<1>4. Best \in Buckets /\ cursor[Best] < Len(order[Best].items) /\ k \in Nat \ {0}
  BY <1>2, <1>3 DEF Live
<1>5. out'[n].key = order[Best].items[k]
  <2> DEFINE slot == [bucket |-> Best, key |-> order[Best].items[k]]
  <2>1. out' = Append(out, slot) /\ slot.key = order[Best].items[k]
    BY DEF Deal
  <2> HIDE DEF slot
  <2>2. out \in Seq({out[i] : i \in 1..Len(out)} \union {slot})
    BY <1>1 DEF Shape
  <2> QED  BY <2>1, <2>2
<1>6. \A b \in Buckets : Len(order[b].items) \in Nat /\ IsInjective(order[b].items)
                         /\ DOMAIN order[b].items = 1..Len(order[b].items)
  BY <1>1, OrderTidy
<1>7. Buckets' = Buckets
  BY <1>2 DEF Buckets
<1>8. Drawn'
  BY <1>1, <1>2, <1>7 DEF Drawn
<1> HIDE DEF n, k
<1>9. n = Len(out) + 1 /\ k = cursor[Best] + 1
  BY DEF n, k
<1>10. 1..n = 1..Len(out) \union {n} /\ n \notin 1..Len(out)
  BY <1>3, <1>9
<1>11. ASSUME NEW b \in Buckets
       PROVE  /\ cursor'[b] <= Len(order[b].items)
              /\ 1..cursor[b] \subseteq 1..cursor'[b]
              /\ \A m \in 1..cursor'[b] : m \in 1..cursor[b] \/ (b = Best /\ m = k)
              /\ b = Best => k \in 1..cursor'[b]
  <2>1. cursor[b] \in Nat /\ cursor[b] <= Len(order[b].items) /\ Len(order[b].items) \in Nat
    BY <1>1, <1>3, <1>6 DEF Headed
  <2>2. cursor'[b] = IF b = Best THEN k ELSE cursor[b]
    BY <1>2
  <2> QED  BY <1>4, <1>9, <2>1, <2>2
<1>12. ASSUME NEW i \in 1..n
       PROVE  \E m \in 1..cursor'[out'[i].bucket] : out'[i].key = order[out'[i].bucket].items[m]
  <2>1. CASE i = n
    BY <1>2, <1>4, <1>5, <1>11, <2>1
  <2>2. CASE i \in 1..Len(out)
    <3>1. out'[i] = out[i] /\ out[i].bucket \in Buckets
      BY <1>2, <1>3, <2>2
    <3>2. PICK m \in 1..cursor[out[i].bucket] : out[i].key = order[out[i].bucket].items[m]
      BY <1>1, <1>3, <2>2 DEF Headed
    <3> QED  BY <1>11, <3>1, <3>2
  <2> QED  BY <1>10, <2>1, <2>2
<1>13. ASSUME NEW b \in Buckets, NEW m \in 1..cursor'[b]
       PROVE  \E i \in 1..n : out'[i].bucket = b /\ out'[i].key = order[b].items[m]
  <2>1. CASE b = Best /\ m = k
    BY <1>2, <1>5, <1>10, <2>1
  <2>2. CASE m \in 1..cursor[b]
    <3>1. PICK i \in 1..Len(out) : out[i].bucket = b /\ out[i].key = order[b].items[m]
      BY <1>1, <1>3, <2>2 DEF Headed
    <3> QED  BY <1>2, <1>10, <3>1
  <2> QED  BY <1>11, <2>1, <2>2
<1>14. ASSUME NEW i \in 1..Len(out), out[i].bucket = Best
       PROVE  out[i].key # order[Best].items[k]
  <2>1. PICK m \in 1..cursor[Best] : out[i].key = order[Best].items[m]
    BY <1>1, <1>3, <1>14 DEF Headed
  <2>2. m \in 1..Len(order[Best].items) /\ k \in 1..Len(order[Best].items) /\ m # k
    BY <1>3, <1>4, <1>6, <1>9
  <2> QED  BY <1>4, <1>6, <2>1, <2>2 DEF IsInjective
<1>15. ASSUME NEW i \in 1..n, NEW j \in 1..n, i # j, out'[i].bucket = out'[j].bucket
       PROVE  out'[i].key # out'[j].key
  <2>1. CASE i \in 1..Len(out) /\ j \in 1..Len(out)
    <3>1. out'[i] = out[i] /\ out'[j] = out[j]
      BY <1>2, <2>1
    <3> QED  BY <1>1, <1>3, <1>15, <2>1, <3>1 DEF Headed
  <2>2. CASE i \in 1..Len(out) /\ j = n
    BY <1>2, <1>5, <1>14, <1>15, <2>2
  <2>3. CASE i = n /\ j \in 1..Len(out)
    BY <1>2, <1>5, <1>14, <1>15, <2>3
  <2> QED  BY <1>10, <1>15, <2>1, <2>2, <2>3
<1>16. Headed'
  <2>1. \A b \in Buckets' : cursor'[b] <= Len(order'[b].items)
    BY <1>2, <1>7, <1>11
  <2>2. \A i \in DOMAIN out' : \E m \in 1..cursor'[out'[i].bucket] : out'[i].key = order'[out'[i].bucket].items[m]
    BY <1>2, <1>3, <1>12
  <2>3. \A b \in Buckets' : \A m \in 1..cursor'[b] :
          \E i \in DOMAIN out' : out'[i].bucket = b /\ out'[i].key = order'[b].items[m]
    BY <1>2, <1>3, <1>7, <1>13
  <2>4. \A i, j \in DOMAIN out' : (i # j /\ out'[i].bucket = out'[j].bucket) => out'[i].key # out'[j].key
    BY <1>3, <1>15
  <2> QED  BY <2>1, <2>2, <2>3, <2>4 DEF Headed
<1> QED  BY <1>2, <1>8, <1>16 DEF PoolInv, Ended

\* The end of the lineup, and a step that does nothing.
LEMMA PoolUnmoved ==
  ASSUME PoolInv, UNCHANGED <<cfg, watched, missed, order, credit, cursor, out>>,
         Deliver \/ stage' = stage
  PROVE  PoolInv'
<1>1. Drawn => Drawn'
  BY DEF Drawn, Buckets
<1>2. Headed => Headed'
  BY DEF Headed, Buckets
<1>3. Live' = Live
  BY DEF Live, Buckets
<1>4. CASE Deliver
  BY <1>1, <1>2, <1>3, <1>4 DEF Deliver, PoolInv, Ended
<1>5. CASE stage' = stage
  BY <1>1, <1>2, <1>3, <1>5 DEF PoolInv, Ended
<1> QED  BY <1>4, <1>5

LEMMA PoolStep ==
  ASSUME IndInv, IndInv', PoolInv, [Next]_vars
  PROVE  PoolInv'
<1>1. CASE Build
  BY <1>1, BuildDraws
<1>2. CASE Deal
  BY <1>2, DealHeads
<1>3. CASE Deliver
  BY <1>3, PoolUnmoved DEF Deliver
<1>4. CASE UNCHANGED vars
  BY <1>4, PoolUnmoved DEF vars
<1> QED  BY <1>1, <1>2, <1>3, <1>4 DEF Next

\* buildRotation and weightedInterleave: whatever the shuffle, the lineup holds
\* the head of every bucket of the pool as far as its cursor, and each key of a
\* bucket once.
THEOREM PoolInvariance == Spec => []PoolInv
<1>1. Init => PoolInv
  BY DEF Init, PoolInv, Ended
<1>2. IndInv /\ IndInv' /\ PoolInv /\ [Next]_vars => PoolInv'
  BY PoolStep
<1> QED  BY <1>1, <1>2, Invariance, PTL DEF Spec

\* The key of a slot is one of its bucket's.
LEMMA SlotIs ==
  ASSUME Shape, Drawn, Headed, NEW i \in DOMAIN out
  PROVE  /\ out[i].bucket \in Buckets /\ order[out[i].bucket] \in ChannelBuckets(cfg, watched, missed)
         /\ out[i].key \in ToSet(order[out[i].bucket].items)
<1> DEFINE b == out[i].bucket
<1>1. b \in Buckets /\ order[b] \in ChannelBuckets(cfg, watched, missed)
  BY DEF Shape, Drawn
<1>2. PICK m \in 1..cursor[b] : out[i].key = order[b].items[m]
  BY DEF Headed
<1> HIDE DEF b
<1>3. /\ Len(order[b].items) \in Nat /\ DOMAIN order[b].items = 1..Len(order[b].items)
      /\ cursor[b] <= Len(order[b].items) /\ cursor[b] \in Nat
  BY <1>1, OrderTidy DEF Headed, Shape
<1>4. m \in DOMAIN order[b].items
  BY <1>3
<1>5. out[i].key \in ToSet(order[b].items)
  BY <1>2, <1>4 DEF ToSet
<1> QED  BY <1>1, <1>5 DEF b

LEMMA NoneAgain == IndInv /\ PoolInv => OncePerLineup
<1> SUFFICES ASSUME IndInv, PoolInv, NEW i \in DOMAIN out, NEW j \in DOMAIN out,
                    i # j, out[i].key = out[j].key
             PROVE  /\ out[i].bucket # out[j].bucket
                    /\ \/ Twice(cfg, missed, out[i].key)
                       \/ order[out[i].bucket].at # ByRule /\ order[out[j].bucket].at # ByRule
  <2>1. Spoken = SpokenBy(cfg)
    BY DEF Spoken, SpokenBy
  <2> QED  BY <2>1 DEF OncePerLineup, Twice
<1>1. Shape /\ cfg \in Configs /\ missed \in Misses(cfg) /\ stage # "build"
  <2>1. Shape /\ cfg \in Configs /\ missed \in Misses(cfg)
    BY DEF IndInv, Shape
  <2>2. stage # "build"
    BY <2>1 DEF Shape
  <2> QED  BY <2>1, <2>2
<1>2. Drawn /\ Headed
  BY <1>1 DEF PoolInv
<1>3. out[i].bucket # out[j].bucket
  BY <1>2 DEF Headed
<1> DEFINE b == order[out[i].bucket]
           d == order[out[j].bucket]
<1>4. /\ out[i].bucket \in Buckets /\ b \in ChannelBuckets(cfg, watched, missed) /\ out[i].key \in ToSet(b.items)
      /\ out[j].bucket \in Buckets /\ d \in ChannelBuckets(cfg, watched, missed) /\ out[j].key \in ToSet(d.items)
  BY <1>1, <1>2, SlotIs
<1>5. b # d
  BY <1>2, <1>3, <1>4 DEF Drawn
<1> HIDE DEF b, d
<1>6. Twice(cfg, missed, out[i].key) \/ (b.at # ByRule /\ d.at # ByRule)
  BY <1>1, <1>4, <1>5, PoolApart
<1> QED  BY <1>3, <1>6 DEF b, d

\* rotation.ts, channelBuckets: members win over the rule, and a collection speaks
\* for its children, so no lineup of any length, of any library, deals a key twice
\* but by two members, or a film that a member names, or a leaf of a collection's
\* show when the read for what the collection covers failed.
THEOREM NoneTwice == Spec => []OncePerLineup
BY NoneAgain, Invariance, PoolInvariance, PTL

\* A lineup with nothing live holds the whole pool.
LEMMA AllDealt ==
  ASSUME Shape, Drawn, Headed, Live = {}, NEW k
  PROVE  (k \in {out[i].key : i \in DOMAIN out}) <=>
           \E b \in ChannelBuckets(cfg, watched, missed) : k \in ToSet(b.items)
<1>1. ASSUME NEW i \in DOMAIN out, k = out[i].key
      PROVE  \E b \in ChannelBuckets(cfg, watched, missed) : k \in ToSet(b.items)
  BY <1>1, SlotIs
<1>2. ASSUME NEW d \in ChannelBuckets(cfg, watched, missed), k \in ToSet(d.items)
      PROVE  \E i \in DOMAIN out : k = out[i].key
  <2>1. PICK b \in Buckets : order[b] = d
    BY DEF Drawn
  <2>2. /\ Len(order[b].items) \in Nat /\ DOMAIN order[b].items = 1..Len(order[b].items)
        /\ cursor[b] \in Nat /\ ~(cursor[b] < Len(order[b].items))
    BY OrderTidy DEF Live, Shape
  <2>3. PICK m \in DOMAIN order[b].items : order[b].items[m] = k
    BY <1>2, <2>1 DEF ToSet
  <2>4. m \in 1..cursor[b]
    BY <2>2
  <2> QED  BY <2>3, <2>4 DEF Headed
<1> QED  BY <1>1, <1>2

LEMMA RuleKept == IndInv /\ PoolInv => RuleDelivers
<1> DEFINE c == ScopedCfg(cfg, NoMiss)
           dealt == {out[i].key : i \in DOMAIN out}
<1> SUFFICES ASSUME IndInv, PoolInv, stage = "done", Len(out) < RotationLength(cfg), ~missed.scope,
                    NEW t \in Free(cfg), NEW e \in ToSet(Leaves[t])
             PROVE  (e.key \in dealt) <=> Promised(c, t, e.key)
  <2>1. Spoken = SpokenBy(cfg)
    BY DEF Spoken, SpokenBy
  <2> QED  BY <2>1 DEF RuleDelivers, Free
<1>1. Shape /\ cfg \in Configs /\ missed \in Misses(cfg) /\ Len(out) \in Nat
  BY DEF IndInv, Shape
<1>2. Drawn /\ Headed
  BY DEF PoolInv
<1>3. Live = {}
  <2>1. RotationLength(cfg) \in Int
    BY <1>1, RotationAssumption, ChannelAssumption DEF RotationLength
  <2>2. ~(Len(out) >= RotationLength(cfg))
    BY <1>1, <2>1
  <2> QED  BY <2>2 DEF PoolInv, Ended
<1>4. (e.key \in dealt) <=> \E b \in ChannelBuckets(cfg, watched, missed) : e.key \in ToSet(b.items)
  BY <1>1, <1>2, <1>3, AllDealt
<1>5. e.key \in LeafKeys(t)
  BY DEF LeafKeys
<1>6. (\E b \in ChannelBuckets(cfg, watched, missed) : e.key \in ToSet(b.items)) <=> Owes(c, watched, t, e.key)
  BY <1>1, <1>5, PoolOwes
<1>7. Promised(c, t, e.key) <=> Owes(c, watched, t, e.key)
  BY DEF Promised, Owes
<1> QED  BY <1>4, <1>6, <1>7

\* select.ts, unwatchedBuckets: a lineup that stopped short for want of titles has
\* dealt of every show left to the rule what the rule owes of it and nothing else,
\* in any library and for any history, whichever other reads failed, if the
\* channel named its libraries or the list of them could be read.
THEOREM PromiseDelivered == Spec => []RuleDelivers
BY RuleKept, Invariance, PoolInvariance, PTL
----------------------------------------------------------------------------
(* What one read of a curated queue decides.                               *)

LEMMA LinesAre ==
  ASSUME NEW s \in Seq(LineRecords), NEW l \in ToSet(s)
  PROVE  /\ l \in LineRecords /\ l.key \in Keys /\ l.done \in BOOLEAN
         /\ l.age \in {Never} \union 0..Ttl /\ l.placement \in Placements
<1>1. l \in LineRecords
  <2>1. \A i \in DOMAIN s : s[i] \in LineRecords
    OBVIOUS
  <2> QED  BY <2>1 DEF ToSet
<1> QED  BY <1>1 DEF LineRecords

\* A list of entries is one without repeats.
LEMMA OneEach ==
  ASSUME NEW s \in Seq(LineRecords), OnePerKey(s)
  PROVE  IsInjective(s) /\ \A l, m \in ToSet(s) : l.key = m.key => l = m
BY DEF OnePerKey, IsInjective, ToSet

\* The batches a scan shuffles: one for each line that has something to play.
\* Only the lines of the promoted lane whose window is over are its promises, each
\* once, whatever the shuffle and the cap.
LEMMA PromisesOf ==
  ASSUME NEW active \in Seq(LineRecords), OnePerKey(active), NEW items, NEW seenBy, NEW leads,
         NEW batches, batches = [i \in DOMAIN active |-> [line |-> active[i], items |-> items[active[i]]]],
         NEW ordered \in Orders(batches, seenBy, leads)
  PROVE  LET promised == LedOf(ordered, seenBy, leads)
         IN  /\ promised \in Seq(Keys) /\ IsInjective(promised)
             /\ \A k \in ToSet(promised) : MayLead(leads[k])
<1> DEFINE B == {[line |-> l, items |-> items[l]] : l \in ToSet(active)}
           first == {b \in ToSet(batches) : LaneOf(b.line) = "priority" /\ ~Suppressed(b, seenBy, leads)}
           resuming == {b \in ToSet(batches) \ first : InProgress(b, seenBy)}
<1>1. IsInjective(active) /\ \A l, m \in ToSet(active) : l.key = m.key => l = m
  BY OneEach
<1>2. /\ DOMAIN active = 1..Len(active) /\ Len(active) \in Nat
      /\ \A i \in DOMAIN active : active[i] \in ToSet(active) /\ active[i] \in LineRecords
  BY DEF ToSet
<1>3. batches \in Seq(B) /\ IsInjective(batches)
  <2>1. \A i \in 1..Len(active) : batches[i] \in B /\ batches[i].line = active[i]
    BY <1>2
  <2>2. batches = [i \in 1..Len(active) |-> batches[i]] /\ DOMAIN batches = DOMAIN active
    BY <1>2
  <2> HIDE DEF B
  <2>3. batches \in Seq(B)
    BY <1>2, <2>1, <2>2
  <2>4. IsInjective(batches)
    BY <1>1, <1>2, <2>1, <2>2 DEF IsInjective
  <2> QED  BY <2>3, <2>4
<1>4. \A b, c \in B : b.line.key = c.line.key => b = c
  BY <1>1
<1>5. \A b \in B : b.line.key \in Keys
  <2>1. \A l \in ToSet(active) : l \in LineRecords
    BY <1>2 DEF ToSet
  <2> QED  BY <2>1 DEF LineRecords
<1> HIDE DEF B
<1>6. PICK rest \in Shuffles(Without(batches, first \union resuming)) :
        ordered = Only(batches, first) \o Only(batches, resuming) \o rest
  BY DEF Orders
<1> HIDE DEF first, resuming
<1>7. /\ Only(batches, first) \in Seq(B) /\ IsInjective(Only(batches, first))
      /\ ToSet(Only(batches, first)) = ToSet(batches) \intersect first
  BY <1>3, OnlyKeeps
<1>8. /\ Only(batches, resuming) \in Seq(B) /\ IsInjective(Only(batches, resuming))
      /\ ToSet(Only(batches, resuming)) = ToSet(batches) \intersect resuming
  BY <1>3, OnlyKeeps
<1>9. /\ rest \in Seq(B) /\ IsInjective(rest)
      /\ ToSet(rest) \subseteq ToSet(batches) \ (first \union resuming)
  <2> DEFINE others == Without(batches, first \union resuming)
  <2>1. /\ others \in Seq(B) /\ IsInjective(others)
        /\ ToSet(others) = ToSet(batches) \ (first \union resuming)
    BY <1>3, WithoutKeeps
  <2>2. rest \in Shuffles(others)
    OBVIOUS
  <2> HIDE DEF others
  <2> QED  BY <2>1, <2>2, Shuffled
<1>10. first \intersect resuming = {}
  BY DEF first, resuming
<1>11. ordered \in Seq(B) /\ IsInjective(ordered)
  <2> DEFINE led1 == Only(batches, first)
             led2 == Only(batches, resuming)
  <2> HIDE DEF led1, led2
  <2>1. /\ led1 \o led2 \in Seq(B) /\ IsInjective(led1 \o led2)
        /\ ToSet(led1 \o led2) = ToSet(led1) \union ToSet(led2)
    <3>1. ToSet(led1) \intersect ToSet(led2) = {}
      BY <1>7, <1>8, <1>10 DEF led1, led2
    <3>2. led1 \in Seq(B) /\ led2 \in Seq(B) /\ IsInjective(led1) /\ IsInjective(led2)
      BY <1>7, <1>8 DEF led1, led2
    <3> QED  BY <3>1, <3>2, Joined
  <2>2. ToSet(led1 \o led2) \intersect ToSet(rest) = {}
    BY <1>7, <1>8, <1>9, <2>1 DEF led1, led2
  <2>3. ordered = (led1 \o led2) \o rest
    BY <1>6 DEF led1, led2
  <2> DEFINE both == led1 \o led2
  <2> HIDE DEF both
  <2>4. both \in Seq(B) /\ IsInjective(both) /\ ToSet(both) \intersect ToSet(rest) = {} /\ ordered = both \o rest
    BY <2>1, <2>2, <2>3 DEF both
  <2> QED  BY <1>9, <2>4, Joined
<1> DEFINE keeps == {ordered[i] : i \in {j \in DOMAIN ordered : Contributes(ordered, j)}}
           asked == {b \in keeps : Candidate(b, seenBy, leads)}
           kept == Only(ordered, asked)
           promised == LedOf(ordered, seenBy, leads)
<1>12. promised = [i \in DOMAIN kept |-> kept[i].line.key]
  BY DEF LedOf
<1>13. \A b \in asked : MayLead(leads[b.line.key])
  BY DEF Candidate
<1> HIDE DEF asked
<1>14. kept \in Seq(B) /\ IsInjective(kept) /\ ToSet(kept) \subseteq asked
  BY <1>11, OnlyKeeps
<1> HIDE DEF kept, promised
<1>15. DOMAIN kept = 1..Len(kept) /\ Len(kept) \in Nat
       /\ \A i \in DOMAIN kept : kept[i] \in B /\ kept[i] \in asked
  BY <1>14 DEF ToSet
<1>16. promised \in Seq(Keys)
  <2>1. \A i \in 1..Len(kept) : promised[i] \in Keys
    BY <1>5, <1>12, <1>15
  <2>2. promised = [i \in 1..Len(kept) |-> promised[i]]
    BY <1>12, <1>15
  <2> QED  BY <1>15, <2>1, <2>2
<1>17. IsInjective(promised)
  <2> SUFFICES ASSUME NEW i \in DOMAIN kept, NEW j \in DOMAIN kept, promised[i] = promised[j]
               PROVE  i = j
    BY <1>12 DEF IsInjective
  <2>1. kept[i] = kept[j]
    BY <1>4, <1>12, <1>15
  <2> QED  BY <1>14, <2>1 DEF IsInjective
<1>18. \A k \in ToSet(promised) : MayLead(leads[k])
  BY <1>12, <1>13, <1>15 DEF ToSet
<1> QED  BY <1>16, <1>17, <1>18 DEF promised

\* What a read revives, what it marks, and what it promises.
LEMMA ReadOf ==
  ASSUME NEW seen \in Seq(LineRecords), OnePerKey(seen), NEW failed,
         NEW r \in NextQueue(seen, present, history, led, failed)
  PROVE  /\ r.revived \in SUBSET Keys /\ r.newly \in SUBSET Keys
         /\ r.led \in Seq(Keys) /\ IsInjective(r.led) /\ \A k \in ToSet(r.led) : MayLead(led[k])
         /\ \A m \in ToSet(seen) :
              (m.key \notin failed /\ ItemsOf(m.key, present, history) # <<>> /\ m.done /\ m.age # Never)
                => m.key \in r.revived
<1> DEFINE items(line) == IF line.key \in failed THEN <<>> ELSE ItemsOf(line.key, present, history)
           revived == {line.key : line \in {l \in ToSet(seen) : ComesBack(l, items(l), history)}}
           newly == {line.key : line \in {l \in ToSet(seen) :
                       ~l.done /\ l.key \notin failed /\ items(l) = <<>>}}
           wanted == {l \in ToSet(seen) : items(l) # <<>> /\ (l.done => l.key \in revived)}
           active == Only(seen, wanted)
           itemsOf == [l \in ToSet(seen) |-> items(l)]
           batches == [i \in DOMAIN active |-> [line |-> active[i], items |-> items(active[i])]]
<1>1. PICK ordered \in Orders(batches, history, led) :
        r = [revived |-> revived, newly |-> newly, play |-> PlayOf(ordered),
             led |-> LedOf(ordered, history, led)]
  BY DEF NextQueue
<1>2. r.revived = revived /\ r.newly = newly /\ r.led = LedOf(ordered, history, led)
  BY <1>1
<1>3. \A l \in ToSet(seen) : l \in LineRecords /\ l.key \in Keys
  BY LinesAre
<1>4. revived \in SUBSET Keys /\ newly \in SUBSET Keys
  BY <1>3
<1>5. \A m \in ToSet(seen) :
        (m.key \notin failed /\ ItemsOf(m.key, present, history) # <<>> /\ m.done /\ m.age # Never)
          => m.key \in revived
  BY DEF ComesBack
<1>6. /\ active \in Seq(LineRecords) /\ ToSet(active) \subseteq ToSet(seen) /\ OnePerKey(active)
  <2> HIDE DEF wanted
  <2>1. active \in Seq(LineRecords) /\ ToSet(active) \subseteq ToSet(seen)
    BY OnlyKeeps
  <2>2. IsInjective(active)
    BY OneEach, OnlyKeeps
  <2>3. \A l, m \in ToSet(seen) : l.key = m.key => l = m
    BY OneEach
  <2> HIDE DEF active
  <2>4. \A i \in DOMAIN active : active[i] \in ToSet(seen)
    BY <2>1 DEF ToSet
  <2>5. OnePerKey(active)
    BY <2>2, <2>3, <2>4 DEF OnePerKey, IsInjective
  <2> QED  BY <2>1, <2>5
<1> HIDE DEF wanted, active, revived, newly
<1>7. batches = [i \in DOMAIN active |-> [line |-> active[i], items |-> itemsOf[active[i]]]]
  <2>1. \A i \in DOMAIN active : active[i] \in ToSet(seen)
    BY <1>6 DEF ToSet
  <2> HIDE DEF items
  <2>2. \A i \in DOMAIN active : itemsOf[active[i]] = items(active[i])
    BY <2>1
  <2> QED  BY <2>2
<1> HIDE DEF batches, itemsOf
<1>8. LET promised == LedOf(ordered, history, led)
      IN  /\ promised \in Seq(Keys) /\ IsInjective(promised)
          /\ \A k \in ToSet(promised) : MayLead(led[k])
  BY <1>6, <1>7, PromisesOf
<1> QED  BY <1>2, <1>4, <1>5, <1>8

----------------------------------------------------------------------------
(* The inductive invariant of the rounds.                                  *)

\* A job carries its promises from its resolution on, which only a scan has,
\* and what it found only as far as the sweep.
Fits(r) ==
  /\ r.pc = "idle" => r = Idle
  /\ r.led # <<>> => r.kind = "scan"
  /\ r.pc \in {"handoff", "stamp"} => r.led # <<>> /\ r.found = {}
  /\ r.pc \in {"season", "load", "resolve"} \/ r.why = "date" => r.led = <<>> /\ r.found = {}
  /\ r.why = "date" => r.pc \in {"list", "unmark", "forget"}
  /\ OnePerKey(r.seen) /\ IsInjective(r.led)

\* Of the lines old enough for the sweep, what a job found playable: those it
\* still has to resolve it read as marked, those it has to revive it will, and
\* after that there are none.
Spares(r, lines) ==
  \A l \in lines : Expired(l) =>
    /\ r.pc = "resolve" => \E m \in ToSet(r.seen) : m.key = l.key /\ m.done /\ m.age # Never
    /\ r.pc = "revive" => (l.key \in r.found => l.key \in r.revived)
    /\ r.pc \notin {"resolve", "revive"} => l.key \notin r.found

\* The promises of the newest scan have not been spent.
Owed(j) == \A k \in ToSet(jobs[j].led) : MayLead(led[k])

RoundsInv ==
  /\ RoundsTypeOK
  /\ \A j \in Jobs : Fits(jobs[j]) /\ Spares(jobs[j], Lines)
  /\ Owed(newest) /\ PromiseSpentOnce

\* No line of the second list is newly old enough for the sweep.
NoneOlder(s, t) == \A m \in ToSet(t) : Expired(m) => \E l \in ToSet(s) : l.key = m.key /\ Expired(l)

LEMMA StillSpares ==
  ASSUME NEW r, NEW s, NEW t, Spares(r, ToSet(s)), NoneOlder(s, t)
  PROVE  Spares(r, ToSet(t))
<1> SUFFICES ASSUME NEW m \in ToSet(t), Expired(m)
             PROVE  /\ r.pc = "resolve" => \E o \in ToSet(r.seen) : o.key = m.key /\ o.done /\ o.age # Never
                    /\ r.pc = "revive" => (m.key \in r.found => m.key \in r.revived)
                    /\ r.pc \notin {"resolve", "revive"} => m.key \notin r.found
  BY DEF Spares
<1>1. PICK l \in ToSet(s) : l.key = m.key /\ Expired(l)
  BY DEF NoneOlder
<1> QED  BY <1>1 DEF Spares

\* A rewrite keeps a line a line of the same entry.
LEMMA RewriteKeeps ==
  ASSUME file \in Seq(LineRecords), OnePerKey(file), NEW g, DOMAIN g = DOMAIN file,
         g = [i \in DOMAIN file |-> g[i]],
         \A i \in DOMAIN file : g[i] \in LineRecords /\ g[i].key = file[i].key,
         \A i \in DOMAIN file : Expired(g[i]) => Expired(file[i])
  PROVE  g \in Seq(LineRecords) /\ OnePerKey(g) /\ NoneOlder(file, g)
<1>1. Len(file) \in Nat /\ DOMAIN file = 1..Len(file)
  OBVIOUS
<1>2. g \in Seq(LineRecords)
  <2>1. g = [i \in 1..Len(file) |-> g[i]] /\ \A i \in 1..Len(file) : g[i] \in LineRecords
    BY <1>1
  <2> QED  BY <1>1, <2>1
<1>3. OnePerKey(g)
  BY DEF OnePerKey
<1>4. NoneOlder(file, g)
  BY DEF NoneOlder, ToSet
<1> QED  BY <1>2, <1>3, <1>4

LEMMA RemovalKeeps ==
  ASSUME file \in Seq(LineRecords), OnePerKey(file), NEW S
  PROVE  LET g == Without(file, S)
         IN  g \in Seq(LineRecords) /\ OnePerKey(g) /\ NoneOlder(file, g) /\ ToSet(g) = ToSet(file) \ S
<1> DEFINE g == Without(file, S)
<1>1. g \in Seq(LineRecords) /\ ToSet(g) = ToSet(file) \ S
  BY WithoutKeeps
<1>2. IsInjective(g)
  BY OneEach, WithoutKeeps
<1>3. \A l, m \in ToSet(file) : l.key = m.key => l = m
  BY OneEach
<1> HIDE DEF g
<1>4. \A i \in DOMAIN g : g[i] \in ToSet(file)
  BY <1>1 DEF ToSet
<1>5. OnePerKey(g)
  BY <1>2, <1>3, <1>4 DEF OnePerKey, IsInjective
<1>6. NoneOlder(file, g)
  BY <1>1 DEF NoneOlder
<1> QED  BY <1>1, <1>5, <1>6 DEF g

----------------------------------------------------------------------------
(* Its steps.                                                              *)

\* What a step must leave of the file, the windows and the jobs.
LEMMA StepKeeps ==
  ASSUME RoundsInv,
         file' \in Seq(LineRecords), OnePerKey(file'), NoneOlder(file, file'),
         present' \in [Keys -> Nat], \A k \in Keys : present'[k] \in 1..MaxLeaves[k],
         \A l \in DOMAIN history' : history'[l] \in {"new", "half", "watched"},
         season' \in Seasons, newest' \in Jobs, respent' = respent,
         led' \in [Keys -> {Never} \union 0..Window],
         \A k \in Keys : led'[k] = led[k] \/ led'[k] = Never,
         jobs' \in [Jobs -> JobRecords],
         \A j \in Jobs : jobs'[j] = jobs[j]
                           \/ (Fits(jobs'[j]) /\ Spares(jobs'[j], ToSet(file'))),
         \/ newest' = newest /\ jobs'[newest].led = jobs[newest].led
         \/ \A k \in ToSet(jobs'[newest'].led) : MayLead(led'[k])
  PROVE  RoundsInv'
<1>1. RoundsTypeOK'
  BY DEF RoundsTypeOK
<1>2. ASSUME NEW j \in Jobs PROVE Fits(jobs'[j]) /\ Spares(jobs'[j], ToSet(file'))
  <2>1. Fits(jobs[j]) /\ Spares(jobs[j], ToSet(file))
    BY DEF RoundsInv, Lines
  <2> QED  BY <2>1, StillSpares
<1>3. Owed(newest)'
  <2>1. CASE newest' = newest /\ jobs'[newest].led = jobs[newest].led
    <3>1. \A k \in ToSet(jobs[newest].led) : k \in Keys /\ MayLead(led[k])
      <4>1. jobs[newest].led \in Seq(Keys)
        BY DEF RoundsInv, RoundsTypeOK, JobRecords
      <4> DEFINE s == jobs[newest].led
      <4>2. \A i \in DOMAIN s : s[i] \in Keys
        <5> HIDE DEF s
        <5> QED  BY <4>1 DEF s
      <4> QED  BY <4>2 DEF ToSet, RoundsInv, Owed
    <3> QED  BY <2>1, <3>1 DEF Owed, MayLead
  <2>2. CASE \A k \in ToSet(jobs'[newest'].led) : MayLead(led'[k])
    BY <2>2 DEF Owed, MayLead
  <2> QED  BY <2>1, <2>2
<1>4. PromiseSpentOnce'
  BY DEF RoundsInv, PromiseSpentOnce
<1> QED  BY <1>1, <1>2, <1>3, <1>4 DEF RoundsInv, Lines

LEMMA RoundsBegin == RoundsInit => RoundsInv
<1> SUFFICES ASSUME RoundsInit PROVE RoundsInv
  OBVIOUS
<1>1. PICK b \in Beginnings :
        /\ file = b.file /\ present = b.present /\ season = b.season
        /\ history = [l \in UNION {{<<k, i>> : i \in 1..MaxLeaves[k]} : k \in Keys} |->
                        IF l \in b.watched THEN "watched" ELSE "new"]
  BY DEF RoundsInit
<1>2. /\ led = [k \in Keys |-> Never] /\ respent = {} /\ jobs = [j \in Jobs |-> Idle]
      /\ newest = CHOOSE j \in Jobs : TRUE
  BY DEF RoundsInit
<1>3. newest \in Jobs
  BY <1>2, RoundsAssumption
<1>4. Idle \in JobRecords
  BY DEF Idle, JobRecords, Steps
<1>5. /\ Idle.led = <<>> /\ Idle.found = {} /\ Idle.seen = <<>> /\ Idle.pc = "idle"
      /\ Idle.why = "none"
  BY DEF Idle
<1>6. Fits(Idle)
  BY <1>5 DEF Fits, OnePerKey, IsInjective
<1>7. \A lines : Spares(Idle, lines)
  BY <1>5 DEF Spares
<1>8. RoundsTypeOK
  <2>1. file \in Seq(LineRecords) /\ OnePerKey(file) /\ season \in Seasons
        /\ present \in [Keys -> Nat] /\ \A k \in Keys : present[k] \in 1..MaxLeaves[k]
    BY <1>1, RoundsAssumption
  <2>2. \A l \in DOMAIN history : history[l] \in {"new", "half", "watched"}
    BY <1>1
  <2>3. jobs \in [Jobs -> JobRecords] /\ led \in [Keys -> {Never} \union 0..Window]
    BY <1>2, <1>4
  <2> QED  BY <1>3, <2>1, <2>2, <2>3 DEF RoundsTypeOK
<1>9. ToSet(jobs[newest].led) = {}
  BY <1>2, <1>3, <1>5 DEF ToSet
<1> QED  BY <1>2, <1>6, <1>7, <1>8, <1>9 DEF RoundsInv, Owed, PromiseSpentOnce

\* The same, of a step of one job.
LEMMA JobKeeps ==
  ASSUME RoundsInv, NEW j \in Jobs, NEW r \in JobRecords, jobs' = [jobs EXCEPT ![j] = r],
         Fits(r), Spares(r, ToSet(file')),
         file' \in Seq(LineRecords), OnePerKey(file'), NoneOlder(file, file'),
         \A l \in DOMAIN history' : history'[l] \in {"new", "half", "watched"},
         led' \in [Keys -> {Never} \union 0..Window],
         \A k \in Keys : led'[k] = led[k] \/ led'[k] = Never,
         season' \in Seasons, UNCHANGED world,
         r.led = jobs[j].led \/ r.led = <<>>
           \/ (newest = j => \A k \in ToSet(r.led) : MayLead(led'[k]))
  PROVE  RoundsInv'
<1>1. jobs \in [Jobs -> JobRecords] /\ newest \in Jobs
      /\ present \in [Keys -> Nat] /\ \A k \in Keys : present[k] \in 1..MaxLeaves[k]
  BY DEF RoundsInv, RoundsTypeOK
<1>2. /\ jobs' \in [Jobs -> JobRecords] /\ jobs'[j] = r
      /\ \A i \in Jobs : i # j => jobs'[i] = jobs[i]
  BY <1>1
<1>3. present' = present /\ newest' = newest /\ respent' = respent
  BY DEF world
<1>4. \/ jobs'[newest].led = jobs[newest].led
      \/ \A k \in ToSet(jobs'[newest'].led) : MayLead(led'[k])
  <2>1. CASE newest = j /\ r.led = <<>>
    BY <1>2, <1>3, <2>1 DEF ToSet
  <2> QED  BY <1>1, <1>2, <1>3, <2>1
<1> QED  BY <1>1, <1>2, <1>3, <1>4, StepKeeps

\* The file and the windows as they were.
LEMMA Untouched ==
  ASSUME RoundsInv
  PROVE  /\ file \in Seq(LineRecords) /\ OnePerKey(file) /\ NoneOlder(file, file)
         /\ \A l \in DOMAIN history : history[l] \in {"new", "half", "watched"}
         /\ led \in [Keys -> {Never} \union 0..Window]
         /\ present \in [Keys -> Nat] /\ \A k \in Keys : present[k] \in 1..MaxLeaves[k]
         /\ season \in Seasons /\ newest \in Jobs /\ jobs \in [Jobs -> JobRecords]
BY DEF RoundsInv, RoundsTypeOK, NoneOlder

LEMMA IdleFits ==
  /\ Idle \in JobRecords /\ Fits(Idle) /\ \A lines : Spares(Idle, lines)
  /\ Idle.led = <<>> /\ Idle.found = {} /\ Idle.seen = <<>> /\ Idle.why = "none"
<1>1. Idle.led = <<>> /\ Idle.found = {} /\ Idle.seen = <<>> /\ Idle.pc = "idle" /\ Idle.why = "none"
  BY DEF Idle
<1>2. Idle \in JobRecords
  BY DEF Idle, JobRecords, Steps
<1>3. Fits(Idle)
  BY <1>1 DEF Fits, OnePerKey, IsInjective
<1>4. \A lines : Spares(Idle, lines)
  BY <1>1 DEF Spares
<1> QED  BY <1>1, <1>2, <1>3, <1>4

LEMMA JobIs ==
  ASSUME RoundsInv, NEW j \in Jobs
  PROVE  /\ jobs[j] \in JobRecords /\ Fits(jobs[j]) /\ Spares(jobs[j], Lines)
         /\ jobs[j].seen \in Seq(LineRecords) /\ jobs[j].led \in Seq(Keys)
         /\ jobs[j].found \in SUBSET Keys
BY Untouched DEF RoundsInv, JobRecords

LEMMA StartKeeps ==
  ASSUME RoundsInv, NEW j \in Jobs, Start(j)
  PROVE  RoundsInv'
<1>1. jobs[j] = Idle /\ jobs \in [Jobs -> JobRecords]
  BY JobIs, Untouched DEF Start, At, Fits
<1>2. UNCHANGED <<file, present, history, led, respent, season>>
  BY DEF Start
<1>3. PICK r \in JobRecords :
        /\ jobs' = [jobs EXCEPT ![j] = r] /\ r.led = <<>> /\ Fits(r) /\ Spares(r, ToSet(file))
        /\ newest' \in {j, newest}
  <2>1. CASE jobs' = [jobs EXCEPT ![j].pc = "season"] /\ newest' = j
    <3> DEFINE r == [Idle EXCEPT !.pc = "season"]
    <3>1. /\ r \in JobRecords /\ r.pc = "season" /\ r.led = <<>> /\ r.found = {} /\ r.seen = <<>> /\ r.why = "none"
      BY IdleFits DEF JobRecords, Steps
    <3>2. jobs' = [jobs EXCEPT ![j] = r]
      BY <1>1, <2>1
    <3> HIDE DEF r
    <3>3. Fits(r) /\ Spares(r, ToSet(file))
      BY <3>1 DEF Fits, Spares, OnePerKey, IsInjective
    <3> QED  BY <2>1, <3>1, <3>2, <3>3
  <2>2. CASE jobs' = [jobs EXCEPT ![j].pc = "load", ![j].kind = "reconcile"] /\ newest' = newest
    <3> DEFINE r == [Idle EXCEPT !.pc = "load", !.kind = "reconcile"]
    <3>1. /\ r \in JobRecords /\ r.pc = "load" /\ r.led = <<>> /\ r.found = {} /\ r.seen = <<>> /\ r.why = "none"
      BY IdleFits DEF JobRecords, Steps
    <3>2. jobs' = [jobs EXCEPT ![j] = r]
      BY <1>1, <2>2
    <3> HIDE DEF r
    <3>3. Fits(r) /\ Spares(r, ToSet(file))
      BY <3>1 DEF Fits, Spares, OnePerKey, IsInjective
    <3> QED  BY <2>2, <3>1, <3>2, <3>3
  <2> QED  BY <2>1, <2>2 DEF Start
<1>4. jobs' \in [Jobs -> JobRecords] /\ jobs'[j] = r /\ \A i \in Jobs : i # j => jobs'[i] = jobs[i]
  BY <1>1, <1>3
<1>5. newest \in Jobs /\ newest' \in Jobs
  BY <1>3, Untouched
<1>6. \/ newest' = newest /\ jobs'[newest].led = jobs[newest].led
      \/ \A k \in ToSet(jobs'[newest'].led) : MayLead(led'[k])
  <2>1. CASE newest' = j
    BY <1>3, <1>4, <2>1 DEF ToSet
  <2>2. CASE newest' # j
    BY <1>3, <1>4, <1>5, <2>2
  <2> QED  BY <2>1, <2>2
<1>7. \A i \in Jobs : jobs'[i] = jobs[i] \/ (Fits(jobs'[i]) /\ Spares(jobs'[i], ToSet(file')))
  BY <1>2, <1>3, <1>4
<1> QED  BY <1>2, <1>4, <1>5, <1>6, <1>7, Untouched, StepKeeps

LEMMA LoadedFits ==
  ASSUME RoundsInv, NEW j \in Jobs, At(j, "season") \/ At(j, "load")
  PROVE  /\ Loaded(j) \in JobRecords /\ Fits(Loaded(j)) /\ Spares(Loaded(j), ToSet(file))
         /\ Loaded(j).led = <<>>
<1>1. CASE Superseded(j)
  BY <1>1, IdleFits DEF Loaded
<1>2. CASE ~Superseded(j)
  <2> DEFINE r == [jobs[j] EXCEPT !.pc = "resolve", !.seen = file]
  <2>1. /\ jobs[j].led = <<>> /\ jobs[j].found = {} /\ jobs[j] \in JobRecords /\ Fits(jobs[j])
        /\ jobs[j].why # "date"
    BY JobIs DEF Fits, At
  <2>2. /\ r \in JobRecords /\ r.pc = "resolve" /\ r.led = <<>> /\ r.found = {} /\ r.seen = file
        /\ r.why # "date"
    BY <2>1, Untouched DEF JobRecords, Steps
  <2>3. Loaded(j) = r
    BY <1>2 DEF Loaded
  <2> HIDE DEF r
  <2>4. Fits(r)
    BY <2>2, Untouched DEF Fits, IsInjective
  <2>5. Spares(r, ToSet(file))
    BY <2>2 DEF Spares, Expired
  <2> QED  BY <2>2, <2>3, <2>4, <2>5
<1> QED  BY <1>1, <1>2

LEMMA LoadKeeps ==
  ASSUME RoundsInv, NEW j \in Jobs, Load(j)
  PROVE  RoundsInv'
BY LoadedFits, Untouched, JobKeeps DEF Load, At

LEMMA SeasonKeeps ==
  ASSUME RoundsInv, NEW j \in Jobs, Season(j)
  PROVE  RoundsInv'
<1>1. UNCHANGED <<file, history, led, world>> /\ season' \in Seasons
  BY Untouched DEF Season, Seasons
<1>2. CASE season = "owed"
  <2> DEFINE r == [jobs[j] EXCEPT !.pc = "list", !.why = "date"]
  <2>1. jobs[j].led = <<>> /\ jobs[j].found = {} /\ jobs[j] \in JobRecords /\ Fits(jobs[j])
    BY JobIs DEF Fits, At, Season
  <2>2. /\ r \in JobRecords /\ r.pc = "list" /\ r.led = <<>> /\ r.found = {} /\ r.seen = jobs[j].seen
    BY <2>1 DEF JobRecords, Steps
  <2>3. jobs' = [jobs EXCEPT ![j] = r]
    BY <1>2 DEF Season
  <2> HIDE DEF r
  <2>4. Fits(r)
    BY <2>1, <2>2 DEF Fits, IsInjective
  <2>5. Spares(r, ToSet(file'))
    BY <2>2 DEF Spares
  <2> QED  BY <1>1, <2>2, <2>3, <2>4, <2>5, Untouched, JobKeeps
<1>3. CASE season # "owed"
  <2>1. jobs' = [jobs EXCEPT ![j] = Loaded(j)]
    BY <1>3 DEF Season
  <2>2. /\ Loaded(j) \in JobRecords /\ Fits(Loaded(j)) /\ Spares(Loaded(j), ToSet(file'))
        /\ Loaded(j).led = <<>>
    BY <1>1, LoadedFits DEF Season
  <2> QED  BY <1>1, <2>1, <2>2, Untouched, JobKeeps
<1> QED  BY <1>2, <1>3

\* A step that only moves a job on, its promises and what it found as they were.
LEMMA MoveFits ==
  ASSUME RoundsInv, NEW j \in Jobs, NEW r \in JobRecords,
         jobs[j].pc \notin {"idle", "season", "load", "resolve", "revive", "handoff", "stamp"},
         r.pc \notin {"idle", "season", "load", "resolve", "revive", "handoff", "stamp"},
         r.led = jobs[j].led, r.found = jobs[j].found, r.seen = jobs[j].seen, r.kind = jobs[j].kind,
         r.why = "date" => jobs[j].why = "date" /\ r.pc \in {"list", "unmark", "forget"}
  PROVE  Fits(r) /\ \A lines : Spares(jobs[j], lines) => Spares(r, lines)
<1>1. Fits(jobs[j])
  BY JobIs
<1>2. Fits(r)
  BY <1>1 DEF Fits
<1>3. \A lines : Spares(jobs[j], lines) => Spares(r, lines)
  BY DEF Spares
<1> QED  BY <1>2, <1>3

LEMMA ResolveKeeps ==
  ASSUME RoundsInv, NEW j \in Jobs, Resolve(j)
  PROVE  RoundsInv'
<1>1. UNCHANGED <<file, history, led, season, world>>
  BY DEF Resolve
<1>2. PICK failed \in SUBSET Keys : \E r \in NextQueue(jobs[j].seen, present, history, led, failed) :
        jobs' = [jobs EXCEPT ![j] =
          IF Superseded(j) THEN Idle
          ELSE [jobs[j] EXCEPT !.pc = "revive", !.seen = <<>>, !.revived = r.revived, !.newly = r.newly,
                         !.led = IF jobs[j].kind = "scan" THEN r.led ELSE <<>>,
                         !.whole = failed = {},
                         !.found = {k \in Keys \ failed : ItemsOf(k, present, history) # <<>>}]]
  BY DEF Resolve
<1>3. PICK r \in NextQueue(jobs[j].seen, present, history, led, failed) :
        jobs' = [jobs EXCEPT ![j] =
          IF Superseded(j) THEN Idle
          ELSE [jobs[j] EXCEPT !.pc = "revive", !.seen = <<>>, !.revived = r.revived, !.newly = r.newly,
                         !.led = IF jobs[j].kind = "scan" THEN r.led ELSE <<>>,
                         !.whole = failed = {},
                         !.found = {k \in Keys \ failed : ItemsOf(k, present, history) # <<>>}]]
  BY <1>2
<1>4. CASE Superseded(j)
  <2>1. jobs' = [jobs EXCEPT ![j] = Idle]
    BY <1>3, <1>4
  <2> QED  BY <1>1, <2>1, IdleFits, Untouched, JobKeeps
<1>5. CASE ~Superseded(j)
  <2> DEFINE promises == IF jobs[j].kind = "scan" THEN r.led ELSE <<>>
             found == {k \in Keys \ failed : ItemsOf(k, present, history) # <<>>}
             whole == failed = {}
             w == [jobs[j] EXCEPT !.pc = "revive", !.seen = <<>>, !.revived = r.revived,
                     !.newly = r.newly, !.led = promises, !.whole = whole, !.found = found]
  <2>1. jobs[j] \in JobRecords /\ Fits(jobs[j]) /\ Spares(jobs[j], Lines) /\ At(j, "resolve")
        /\ jobs[j].seen \in Seq(LineRecords) /\ OnePerKey(jobs[j].seen)
        /\ jobs[j].kind \in {"scan", "reconcile"} /\ jobs[j].why # "date"
    <3>1. jobs[j] \in JobRecords /\ Fits(jobs[j]) /\ Spares(jobs[j], Lines) /\ At(j, "resolve")
          /\ jobs[j].seen \in Seq(LineRecords)
      BY JobIs DEF Resolve
    <3>2. jobs[j].kind \in {"scan", "reconcile"}
      BY <3>1 DEF JobRecords
    <3> QED  BY <3>1, <3>2 DEF Fits, At
  <2>2. /\ r.revived \in SUBSET Keys /\ r.newly \in SUBSET Keys
        /\ r.led \in Seq(Keys) /\ IsInjective(r.led) /\ \A k \in ToSet(r.led) : MayLead(led[k])
        /\ \A m \in ToSet(jobs[j].seen) :
             (m.key \notin failed /\ ItemsOf(m.key, present, history) # <<>> /\ m.done /\ m.age # Never)
               => m.key \in r.revived
    BY <2>1, ReadOf
  <2>3. /\ promises \in Seq(Keys) /\ IsInjective(promises) 
        /\ promises # <<>> => jobs[j].kind = "scan"
        /\ \A k \in ToSet(promises) : MayLead(led[k])
    <3>1. IsInjective(<<>>) /\ ToSet(<<>>) = {} /\ <<>> \in Seq(Keys)
      BY DEF IsInjective, ToSet
    <3> QED  BY <2>2, <3>1
  <2>4. found \in SUBSET Keys /\ whole \in BOOLEAN /\ <<>> \in Seq(LineRecords) /\ OnePerKey(<<>>)
    BY DEF OnePerKey
  <2>5. jobs' = [jobs EXCEPT ![j] = w]
    BY <1>3, <1>5
  <2> HIDE DEF promises, found, whole
  <2>6. /\ w \in JobRecords /\ w.pc = "revive" /\ w.seen = <<>> /\ w.led = promises
        /\ w.found = found /\ w.revived = r.revived /\ w.kind = jobs[j].kind /\ w.why = jobs[j].why
    BY <2>1, <2>2, <2>3, <2>4 DEF JobRecords, Steps
  <2> HIDE DEF w
  <2>7. Fits(w)
    <3>1. OnePerKey(w.seen) /\ IsInjective(w.led)
      BY <2>3, <2>4, <2>6
    <3>2. w.why # "date" /\ (w.led # <<>> => w.kind = "scan")
      BY <2>1, <2>3, <2>6
    <3> QED  BY <2>6, <3>1, <3>2 DEF Fits
  <2>8. Spares(w, ToSet(file'))
    <3> SUFFICES ASSUME NEW l \in ToSet(file), Expired(l), l.key \in found PROVE l.key \in r.revived
      BY <1>1, <2>6 DEF Spares
    <3>1. PICK m \in ToSet(jobs[j].seen) : m.key = l.key /\ m.done /\ m.age # Never
      BY <2>1 DEF Spares, Lines, At
    <3> QED  BY <2>2, <3>1 DEF found
  <2>9. newest = j => \A k \in ToSet(w.led) : MayLead(led'[k])
    BY <1>1, <2>3, <2>6
  <2> QED  BY <1>1, <2>5, <2>6, <2>7, <2>8, <2>9, Untouched, JobKeeps
<1> QED  BY <1>4, <1>5

LEMMA UnmarkedIs ==
  ASSUME NEW l \in LineRecords
  PROVE  Unmarked(l) \in LineRecords /\ Unmarked(l).key = l.key /\ ~Expired(Unmarked(l))
BY DEF Unmarked, LineRecords, Expired, Never

\* A line is unmarked, and of the lines left none is newly old.
LEMMA UnmarkingKeeps ==
  ASSUME file \in Seq(LineRecords), OnePerKey(file), NEW keys, NEW g,
         g = [i \in DOMAIN file |-> IF file[i].key \in keys THEN Unmarked(file[i]) ELSE file[i]]
  PROVE  /\ g \in Seq(LineRecords) /\ OnePerKey(g) /\ NoneOlder(file, g)
         /\ \A m \in ToSet(g) : Expired(m) => m.key \notin keys /\ m \in ToSet(file)
<1>1. \A i \in DOMAIN file : file[i] \in LineRecords
  OBVIOUS
<1>2. \A i \in DOMAIN file : /\ g[i] \in LineRecords /\ g[i].key = file[i].key
                             /\ Expired(g[i]) => g[i] = file[i] /\ file[i].key \notin keys
  BY <1>1, UnmarkedIs
<1>3. DOMAIN g = DOMAIN file /\ g = [i \in DOMAIN file |-> g[i]]
  OBVIOUS
<1>4. g \in Seq(LineRecords) /\ OnePerKey(g) /\ NoneOlder(file, g)
  BY <1>2, <1>3, RewriteKeeps
<1>5. \A m \in ToSet(g) : Expired(m) => m.key \notin keys /\ m \in ToSet(file)
  BY <1>2, <1>3 DEF ToSet
<1> QED  BY <1>4, <1>5

LEMMA ReviveKeeps ==
  ASSUME RoundsInv, NEW j \in Jobs, Revive(j)
  PROVE  RoundsInv'
<1>1. UNCHANGED <<history, led, season, world>>
  BY DEF Revive
<1>2. file' = [i \in DOMAIN file |-> IF file[i].key \in jobs[j].revived THEN Unmarked(file[i]) ELSE file[i]]
  BY DEF Revive, Rewritten
<1>3. /\ file' \in Seq(LineRecords) /\ OnePerKey(file') /\ NoneOlder(file, file')
      /\ \A m \in ToSet(file') : Expired(m) => m.key \notin jobs[j].revived /\ m \in ToSet(file)
  BY <1>2, Untouched, UnmarkingKeeps
<1> DEFINE r == [jobs[j] EXCEPT !.pc = "mark"]
<1>4. jobs[j] \in JobRecords /\ Fits(jobs[j]) /\ Spares(jobs[j], Lines) /\ jobs[j].pc = "revive"
  BY JobIs DEF Revive, At
<1>5. /\ r \in JobRecords /\ r.pc = "mark" /\ r.led = jobs[j].led /\ r.found = jobs[j].found
      /\ r.seen = jobs[j].seen /\ r.kind = jobs[j].kind /\ r.why = jobs[j].why
      /\ jobs' = [jobs EXCEPT ![j] = r]
  BY <1>4 DEF JobRecords, Steps, Revive, Go
<1> HIDE DEF r
<1>6. Fits(r)
  BY <1>4, <1>5 DEF Fits
<1>7. Spares(r, ToSet(file'))
  <2> SUFFICES ASSUME NEW m \in ToSet(file'), Expired(m), m.key \in jobs[j].found PROVE FALSE
    BY <1>5 DEF Spares
  <2>1. m.key \notin jobs[j].revived /\ m \in Lines
    BY <1>3 DEF Lines
  <2> QED  BY <1>4, <2>1 DEF Spares
<1> QED  BY <1>1, <1>3, <1>5, <1>6, <1>7, Untouched, JobKeeps

LEMMA MarkKeeps ==
  ASSUME RoundsInv, NEW j \in Jobs, Mark(j)
  PROVE  RoundsInv'
<1> DEFINE marks(l) == ~Keep /\ l.key \in jobs[j].newly /\ ~(l.done /\ l.age # Never)
           made(l) == IF marks(l) THEN [l EXCEPT !.done = TRUE, !.age = 0] ELSE l
<1>1. UNCHANGED <<history, led, season, world>>
  BY DEF Mark
<1>2. file' = [i \in DOMAIN file |-> made(file[i])]
  BY DEF Mark, Rewritten
<1>3. \A i \in DOMAIN file : file[i] \in LineRecords
  BY Untouched
<1>4. \A l \in LineRecords : made(l) \in LineRecords /\ made(l).key = l.key /\ (Expired(made(l)) => Expired(l))
  <2> TAKE l \in LineRecords
  <2>1. Ttl \in Nat \ {0}
    BY RoundsAssumption
  <2>2. CASE marks(l)
    <3> DEFINE m == [l EXCEPT !.done = TRUE, !.age = 0]
    <3>1. m \in LineRecords /\ m.key = l.key /\ m.age = 0
      <4> DEFINE Ages == {Never} \union 0..Ttl
      <4>1. 0 \in Ages
        BY <2>1
      <4>2. LineRecords = [key : Keys, done : BOOLEAN, age : Ages, placement : Placements]
        BY DEF LineRecords
      <4> HIDE DEF Ages
      <4> QED  BY <4>1, <4>2
    <3> QED  BY <2>1, <2>2, <3>1 DEF Expired
  <2>3. CASE ~marks(l)
    BY <2>3
  <2> QED  BY <2>2, <2>3
<1> HIDE DEF made
<1>5. /\ file' \in Seq(LineRecords) /\ OnePerKey(file') /\ NoneOlder(file, file')
  <2>1. DOMAIN file' = DOMAIN file /\ file' = [i \in DOMAIN file |-> file'[i]]
        /\ \A i \in DOMAIN file : file'[i] = made(file[i])
    BY <1>2
  <2>2. \A i \in DOMAIN file : /\ file'[i] \in LineRecords /\ file'[i].key = file[i].key
                               /\ Expired(file'[i]) => Expired(file[i])
    BY <1>3, <1>4, <2>1
  <2> QED  BY <2>1, <2>2, Untouched, RewriteKeeps
<1> DEFINE r == [jobs[j] EXCEPT !.pc = IF Restart THEN "exhaust" ELSE "sweep",
                                !.revived = {}, !.newly = {}, !.whole = FALSE]
<1>6. /\ jobs[j] \in JobRecords /\ Spares(jobs[j], Lines) /\ jobs[j].pc = "mark"
      /\ jobs[j].why # "date"
  BY JobIs DEF Mark, At, Fits
<1>7. /\ r \in JobRecords /\ r.pc \in {"exhaust", "sweep"} /\ r.led = jobs[j].led
      /\ r.found = jobs[j].found /\ r.seen = jobs[j].seen /\ r.kind = jobs[j].kind
      /\ r.why = jobs[j].why
  BY <1>6 DEF JobRecords, Steps
<1>8. jobs' = [jobs EXCEPT ![j] = r]
  BY DEF Mark
<1> HIDE DEF r
<1>9. Fits(r) /\ Spares(r, ToSet(file))
  BY <1>6, <1>7, MoveFits DEF Lines
<1>10. Spares(r, ToSet(file'))
  BY <1>5, <1>9, StillSpares
<1> QED  BY <1>1, <1>5, <1>7, <1>8, <1>9, <1>10, Untouched, JobKeeps

LEMMA ExhaustKeeps ==
  ASSUME RoundsInv, NEW j \in Jobs, Exhaust(j)
  PROVE  RoundsInv'
<1> DEFINE r == [jobs[j] EXCEPT !.pc = IF Exhausted THEN "list" ELSE "sweep",
                                !.why = IF Exhausted THEN "round" ELSE "none"]
<1>1. UNCHANGED <<file, history, led, season, world>> /\ jobs' = [jobs EXCEPT ![j] = r]
  BY DEF Exhaust
<1>2. jobs[j] \in JobRecords /\ Spares(jobs[j], Lines) /\ jobs[j].pc = "exhaust"
  BY JobIs DEF Exhaust, At
<1>3. /\ r \in JobRecords /\ r.pc \in {"list", "sweep"} /\ r.led = jobs[j].led
      /\ r.found = jobs[j].found /\ r.seen = jobs[j].seen /\ r.kind = jobs[j].kind
      /\ r.why # "date"
  BY <1>2 DEF JobRecords, Steps
<1> HIDE DEF r
<1>4. Fits(r) /\ Spares(r, ToSet(file'))
  BY <1>1, <1>2, <1>3, MoveFits DEF Lines
<1> QED  BY <1>1, <1>3, <1>4, Untouched, JobKeeps

LEMMA ListDoneKeeps ==
  ASSUME RoundsInv, NEW j \in Jobs, ListDone(j)
  PROVE  RoundsInv'
<1> DEFINE listed == {l.key : l \in {m \in Lines : m.done}}
           r == [jobs[j] EXCEPT !.pc = "unmark", !.listed = listed]
<1>1. UNCHANGED <<file, history, led, season, world>> /\ jobs' = [jobs EXCEPT ![j] = r]
  BY DEF ListDone
<1>2. jobs[j] \in JobRecords /\ Spares(jobs[j], Lines) /\ jobs[j].pc = "list"
  BY JobIs DEF ListDone, At
<1>3. listed \in SUBSET Keys
  BY LinesAre, Untouched DEF Lines
<1> HIDE DEF listed
<1>4. /\ r \in JobRecords /\ r.pc = "unmark" /\ r.led = jobs[j].led
      /\ r.found = jobs[j].found /\ r.seen = jobs[j].seen /\ r.kind = jobs[j].kind
      /\ r.why = jobs[j].why
  BY <1>2, <1>3 DEF JobRecords, Steps
<1> HIDE DEF r
<1>5. Fits(r) /\ Spares(r, ToSet(file'))
  BY <1>1, <1>2, <1>4, MoveFits DEF Lines
<1> QED  BY <1>1, <1>4, <1>5, Untouched, JobKeeps

LEMMA UnmarkKeeps ==
  ASSUME RoundsInv, NEW j \in Jobs, Unmark(j)
  PROVE  RoundsInv'
<1> DEFINE r == [jobs[j] EXCEPT !.pc = "forget"]
<1>1. UNCHANGED <<history, led, season, world>> /\ jobs' = [jobs EXCEPT ![j] = r]
  BY DEF Unmark, Go
<1>2. file' = [i \in DOMAIN file |-> IF file[i].key \in jobs[j].listed THEN Unmarked(file[i]) ELSE file[i]]
  BY DEF Unmark, Rewritten
<1>3. file' \in Seq(LineRecords) /\ OnePerKey(file') /\ NoneOlder(file, file')
  BY <1>2, Untouched, UnmarkingKeeps
<1>4. jobs[j] \in JobRecords /\ Spares(jobs[j], Lines) /\ jobs[j].pc = "unmark"
  BY JobIs DEF Unmark, At
<1>5. /\ r \in JobRecords /\ r.pc = "forget" /\ r.led = jobs[j].led
      /\ r.found = jobs[j].found /\ r.seen = jobs[j].seen /\ r.kind = jobs[j].kind
      /\ r.why = jobs[j].why
  BY <1>4 DEF JobRecords, Steps
<1> HIDE DEF r
<1>6. Fits(r) /\ Spares(r, ToSet(file))
  BY <1>4, <1>5, MoveFits DEF Lines
<1>7. Spares(r, ToSet(file'))
  BY <1>3, <1>6, StillSpares
<1> QED  BY <1>1, <1>3, <1>5, <1>6, <1>7, Untouched, JobKeeps

LEMMA ForgetKeeps ==
  ASSUME RoundsInv, NEW j \in Jobs, Forget(j)
  PROVE  RoundsInv'
<1> DEFINE r == [jobs[j] EXCEPT !.pc = IF jobs[j].why = "date" THEN "load" ELSE "sweep",
                                !.listed = {}, !.why = "none"]
<1>1. UNCHANGED <<file, world>> /\ jobs' = [jobs EXCEPT ![j] = r]
  BY DEF Forget
<1>2. /\ \A l \in DOMAIN history' : history'[l] \in {"new", "half", "watched"}
      /\ led' \in [Keys -> {Never} \union 0..Window] /\ \A k \in Keys : led'[k] = Never
      /\ season' \in Seasons
  BY Untouched DEF Forget, ClearedHistory, Seasons
<1>3. /\ jobs[j] \in JobRecords /\ Fits(jobs[j]) /\ Spares(jobs[j], Lines) /\ jobs[j].pc = "forget"
  BY JobIs DEF Forget, At
<1>4. /\ r \in JobRecords /\ r.led = jobs[j].led /\ r.found = jobs[j].found /\ r.seen = jobs[j].seen
      /\ r.kind = jobs[j].kind /\ r.why = "none"
      /\ r.pc = IF jobs[j].why = "date" THEN "load" ELSE "sweep"
  BY <1>3 DEF JobRecords, Steps
<1> HIDE DEF r
<1>5. Fits(r)
  BY <1>3, <1>4 DEF Fits
<1>6. Spares(r, ToSet(file'))
  BY <1>1, <1>3, <1>4 DEF Spares, Lines
<1> QED  BY <1>1, <1>2, <1>4, <1>5, <1>6, Untouched, JobKeeps

\* Whatever is forgotten of the windows, the rest is as it was.
LEMMA ClearingKeeps ==
  ASSUME RoundsInv, NEW keys
  PROVE  /\ ClearedLeads(keys) \in [Keys -> {Never} \union 0..Window]
         /\ \A k \in Keys : ClearedLeads(keys)[k] = led[k] \/ ClearedLeads(keys)[k] = Never
BY Untouched DEF ClearedLeads

LEMMA SweepKeeps ==
  ASSUME RoundsInv, NEW j \in Jobs, Sweep(j)
  PROVE  RoundsInv'
<1>1. UNCHANGED <<history, season, world>>
  BY DEF Sweep
<1>2. PICK swept : file' = Without(file, swept) /\ led' = ClearedLeads({l.key : l \in swept})
  BY DEF Sweep
<1>3. file' \in Seq(LineRecords) /\ OnePerKey(file') /\ NoneOlder(file, file')
  BY <1>2, Untouched, RemovalKeeps
<1>4. /\ led' \in [Keys -> {Never} \union 0..Window]
      /\ \A k \in Keys : led'[k] = led[k] \/ led'[k] = Never
  BY <1>2, ClearingKeeps
<1> DEFINE w == [Idle EXCEPT !.pc = "handoff", !.led = jobs[j].led]
           r == IF Superseded(j) \/ jobs[j].led = <<>> THEN Idle ELSE w
<1>5. jobs' = [jobs EXCEPT ![j] = r]
  BY DEF Sweep
<1>6. CASE Superseded(j) \/ jobs[j].led = <<>>
  <2>1. r = Idle
    BY <1>6
  <2> HIDE DEF r
  <2> QED  BY <1>1, <1>3, <1>4, <1>5, <2>1, IdleFits, Untouched, JobKeeps
<1>7. CASE ~(Superseded(j) \/ jobs[j].led = <<>>)
  <2>1. jobs[j].led \in Seq(Keys) /\ Fits(jobs[j]) /\ Idle.kind = "scan"
    BY JobIs DEF Idle
  <2>2. /\ w \in JobRecords /\ w.pc = "handoff" /\ w.led = jobs[j].led /\ w.found = {}
        /\ w.seen = <<>> /\ w.kind = "scan" /\ w.why = "none"
    BY <2>1, IdleFits DEF JobRecords, Steps
  <2>3. r = w
    BY <1>7
  <2> HIDE DEF r, w
  <2>4. Fits(w)
    BY <1>7, <2>1, <2>2 DEF Fits, OnePerKey
  <2>5. Spares(w, ToSet(file'))
    BY <2>2 DEF Spares
  <2> QED  BY <1>1, <1>3, <1>4, <1>5, <2>2, <2>3, <2>4, <2>5, Untouched, JobKeeps
<1> QED  BY <1>6, <1>7

LEMMA HandoffKeeps ==
  ASSUME RoundsInv, NEW j \in Jobs, Handoff(j)
  PROVE  RoundsInv'
<1>1. UNCHANGED <<file, history, led, season, world>>
  BY DEF Handoff
<1> DEFINE w == [jobs[j] EXCEPT !.pc = "stamp"]
<1>2. jobs' = [jobs EXCEPT ![j] = Idle] \/ jobs' = [jobs EXCEPT ![j] = w]
  BY DEF Handoff
<1>3. CASE jobs' = [jobs EXCEPT ![j] = Idle]
  BY <1>1, <1>3, IdleFits, Untouched, JobKeeps
<1>4. CASE jobs' = [jobs EXCEPT ![j] = w]
  <2>1. jobs[j] \in JobRecords /\ Fits(jobs[j]) /\ Spares(jobs[j], Lines) /\ jobs[j].pc = "handoff"
    BY JobIs DEF Handoff, At
  <2>2. /\ w \in JobRecords /\ w.pc = "stamp" /\ w.led = jobs[j].led /\ w.found = jobs[j].found
        /\ w.seen = jobs[j].seen /\ w.kind = jobs[j].kind /\ w.why = jobs[j].why
    BY <2>1 DEF JobRecords, Steps
  <2> HIDE DEF w
  <2>3. Fits(w)
    BY <2>1, <2>2 DEF Fits
  <2>4. Spares(w, ToSet(file'))
    BY <1>1, <2>1, <2>2 DEF Spares, Lines
  <2> QED  BY <1>1, <1>4, <2>2, <2>3, <2>4, Untouched, JobKeeps
<1> QED  BY <1>2, <1>3, <1>4

\* The newest scan stamps its promises one by one, and each of them once.
LEMMA StampKeeps ==
  ASSUME RoundsInv, NEW j \in Jobs, Stamp(j)
  PROVE  RoundsInv'
<1>1. UNCHANGED <<file, present, history, season, newest, events>>
  BY DEF Stamp
<1> DEFINE s == jobs[j].led
           rest == Tail(s)
           w == [jobs[j] EXCEPT !.led = rest]
           r == IF rest = <<>> THEN Idle ELSE w
<1>2. /\ jobs[j] \in JobRecords /\ Fits(jobs[j]) /\ Spares(jobs[j], Lines) /\ jobs[j].pc = "stamp"
      /\ s \in Seq(Keys) /\ s # <<>> /\ IsInjective(s) /\ jobs[j].kind = "scan"
      /\ jobs[j].found = {} /\ jobs[j].why # "date"
  BY JobIs DEF Stamp, At, Fits
<1>3. CASE Superseded(j)
  <2>1. jobs' = [jobs EXCEPT ![j] = Idle] /\ led' = led /\ respent' = respent
    BY <1>3 DEF Stamp
  <2>2. UNCHANGED <<file, history, led, season, world>>
    BY <1>1, <2>1 DEF world
  <2> QED  BY <2>1, <2>2, IdleFits, Untouched, JobKeeps
<1>4. CASE ~Superseded(j)
  <2>1. newest = j
    BY <1>2, <1>4 DEF Superseded
  <2>2. /\ jobs' = [jobs EXCEPT ![j] = r]
        /\ led' = [led EXCEPT ![Head(s)] = 0]
        /\ respent' = IF MayLead(led[Head(s)]) THEN respent ELSE respent \union {Head(s)}
    BY <1>4 DEF Stamp, Stamped, Stamping
  <2>3. /\ Head(s) \in ToSet(s) /\ Head(s) \in Keys /\ rest \in Seq(Keys) /\ IsInjective(rest)
        /\ ToSet(rest) \subseteq ToSet(s) \ {Head(s)}
    <3>1. /\ Len(s) \in Nat \ {0} /\ DOMAIN s = 1..Len(s) /\ Head(s) = s[1]
          /\ rest \in Seq(Keys) /\ Len(rest) = Len(s) - 1 /\ DOMAIN rest = 1..(Len(s) - 1)
          /\ \A i \in 1..(Len(s) - 1) : rest[i] = s[i + 1]
      BY <1>2
    <3> HIDE DEF s, rest
    <3>2. \A i \in 1..(Len(s) - 1) : i + 1 \in DOMAIN s /\ i + 1 # 1 /\ 1 \in DOMAIN s
      BY <3>1
    <3>3. IsInjective(rest)
      <4> SUFFICES ASSUME NEW a \in DOMAIN rest, NEW b \in DOMAIN rest, rest[a] = rest[b] PROVE a = b
        BY DEF IsInjective
      <4>1. s[a + 1] = s[b + 1]
        BY <3>1
      <4>2. a + 1 = b + 1
        BY <1>2, <3>1, <3>2, <4>1 DEF IsInjective
      <4> QED  BY <3>1, <4>2
    <3>4. \A i \in 1..(Len(s) - 1) : rest[i] \in ToSet(s) /\ rest[i] # Head(s)
      BY <1>2, <3>1, <3>2 DEF IsInjective, ToSet
    <3>5. 1 \in DOMAIN s /\ s[1] \in Keys
      BY <1>2, <3>1
    <3> QED  BY <3>1, <3>3, <3>4, <3>5 DEF ToSet
  <2>4. \A k \in ToSet(s) : MayLead(led[k])
    BY <2>1 DEF RoundsInv, Owed
  <2>5. respent' = respent
    BY <2>2, <2>3, <2>4
  <2>6. led \in [Keys -> {Never} \union 0..Window] /\ led' \in [Keys -> {Never} \union 0..Window]
        /\ \A k \in ToSet(rest) : led'[k] = led[k]
    <3>1. 0 \in {Never} \union 0..Window
      BY LineupAssumption
    <3> DEFINE Ages == {Never} \union 0..Window
    <3>2. led \in [Keys -> Ages] /\ 0 \in Ages
      BY <3>1, Untouched
    <3> HIDE DEF Ages, s, rest
    <3>3. led' \in [Keys -> Ages] /\ \A k \in Keys : k # Head(s) => led'[k] = led[k]
      BY <2>2, <2>3, <3>2
    <3>4. \A k \in ToSet(rest) : k \in Keys
      <4>1. \A i \in DOMAIN rest : rest[i] \in Keys
        BY <2>3
      <4> QED  BY <4>1 DEF ToSet
    <3> QED  BY <2>3, <3>2, <3>3, <3>4 DEF Ages
  <2>7. r \in JobRecords /\ Fits(r) /\ Spares(r, ToSet(file)) /\ (r.led = rest)
    <3>1. CASE rest = <<>>
      BY <3>1, IdleFits
    <3>2. CASE rest # <<>>
      <4>1. /\ w \in JobRecords /\ w.pc = "stamp" /\ w.led = rest /\ w.found = {}
            /\ w.seen = jobs[j].seen /\ w.kind = "scan" /\ w.why = jobs[j].why
        <5> HIDE DEF rest
        <5> QED  BY <1>2, <2>3 DEF JobRecords
      <4>2. r = w
        BY <3>2
      <4> HIDE DEF r, w, rest
      <4>3. Fits(w)
        BY <1>2, <2>3, <3>2, <4>1 DEF Fits
      <4>4. Spares(w, ToSet(file))
        BY <4>1 DEF Spares
      <4> QED  BY <4>1, <4>2, <4>3, <4>4
    <3> QED  BY <3>1, <3>2
  <2> HIDE DEF r, rest
  <2>8. jobs' \in [Jobs -> JobRecords] /\ jobs'[j] = r /\ \A i \in Jobs : i # j => jobs'[i] = jobs[i]
    BY <2>2, <2>7, Untouched
  <2>9. RoundsTypeOK'
    BY <1>1, <2>6, <2>8, Untouched DEF RoundsTypeOK
  <2>10. \A i \in Jobs : Fits(jobs'[i]) /\ Spares(jobs'[i], ToSet(file'))
    BY <1>1, <2>7, <2>8, JobIs DEF Lines
  <2>11. Owed(newest)'
    <3>1. \A k \in ToSet(rest) : MayLead(led'[k])
      BY <2>3, <2>4, <2>6
    <3> QED  BY <1>1, <2>1, <2>7, <2>8, <3>1 DEF Owed
  <2>12. PromiseSpentOnce'
    BY <2>5 DEF RoundsInv, PromiseSpentOnce
  <2> QED  BY <2>9, <2>10, <2>11, <2>12 DEF RoundsInv, Lines
<1> QED  BY <1>3, <1>4

----------------------------------------------------------------------------
(* The steps of the viewer, the library, the owner and the clock.          *)

\* While the jobs stand still.
LEMMA WorldKeeps ==
  ASSUME RoundsInv, Event,
         file' \in Seq(LineRecords), OnePerKey(file'), NoneOlder(file, file'),
         present' \in [Keys -> Nat], \A k \in Keys : present'[k] \in 1..MaxLeaves[k],
         \A l \in DOMAIN history' : history'[l] \in {"new", "half", "watched"},
         season' \in Seasons,
         led' \in [Keys -> {Never} \union 0..Window],
         \A k \in Keys : led'[k] = led[k] \/ led'[k] = Never
  PROVE  RoundsInv'
<1>1. jobs' = jobs /\ newest' = newest /\ respent' = respent
  BY DEF Event
<1> QED  BY <1>1, Untouched, StepKeeps

LEMMA WatchKeeps ==
  ASSUME RoundsInv, NEW k, NEW i, NEW to \in {"new", "half", "watched"}, Watch(k, i, to)
  PROVE  RoundsInv'
<1>1. UNCHANGED <<file, present, led, season>> /\ Event
  BY DEF Watch
<1>2. \A l \in DOMAIN history' : history'[l] \in {"new", "half", "watched"}
  BY Untouched DEF Watch
<1> QED  BY <1>1, <1>2, Untouched, WorldKeeps

LEMMA ArriveKeeps ==
  ASSUME RoundsInv, NEW k \in Keys, Arrive(k)
  PROVE  RoundsInv'
<1>1. UNCHANGED <<file, history, led, season>> /\ Event
  BY DEF Arrive
<1>2. present' \in [Keys -> Nat] /\ \A q \in Keys : present'[q] \in 1..MaxLeaves[q]
  <2>1. MaxLeaves \in [Keys -> Nat] /\ present[k] < MaxLeaves[k] /\ present' = [present EXCEPT ![k] = @ + 1]
    BY RoundsAssumption DEF Arrive
  <2>2. present \in [Keys -> Nat] /\ \A q \in Keys : present[q] \in 1..MaxLeaves[q]
    BY Untouched
  <2>3. present'[k] = present[k] + 1 /\ \A q \in Keys : q # k => present'[q] = present[q]
    BY <2>1, <2>2
  <2>4. present' \in [Keys -> Nat]
    BY <2>1, <2>2
  <2> QED  BY <2>1, <2>2, <2>3, <2>4
<1> QED  BY <1>1, <1>2, Untouched, WorldKeeps

LEMMA AddItemKeeps ==
  ASSUME RoundsInv, NEW k \in Keys, AddItem(k)
  PROVE  RoundsInv'
<1>1. UNCHANGED <<present, history, led, season>> /\ Event /\ ~InFile(k)
  BY DEF AddItem
<1> DEFINE l == Line(k)
<1>2. l \in LineRecords /\ l.key = k /\ ~Expired(l)
  BY DEF Line, LineRecords, Placements, Expired, Never
<1>3. file' = <<l>> \o file /\ file \in Seq(LineRecords) /\ OnePerKey(file)
  BY Untouched DEF AddItem
<1> HIDE DEF l
<1>4. /\ file' \in Seq(LineRecords) /\ Len(file) \in Nat
      /\ DOMAIN file' = 1..(Len(file) + 1) /\ DOMAIN file = 1..Len(file)
      /\ file'[1] = l /\ \A i \in 2..(Len(file) + 1) : file'[i] = file[i - 1]
  BY <1>2, <1>3
<1>5. \A i \in 2..(Len(file) + 1) : i - 1 \in DOMAIN file /\ file'[i].key # k
  <2>1. \A i \in DOMAIN file : file[i].key # k
    BY <1>1 DEF InFile, Lines, ToSet
  <2> QED  BY <1>4, <2>1
<1>6. \A i \in DOMAIN file' : i = 1 \/ i \in 2..(Len(file) + 1)
  BY <1>4
<1>7. OnePerKey(file')
  <2> SUFFICES ASSUME NEW a \in DOMAIN file', NEW b \in DOMAIN file', a # b
               PROVE  file'[a].key # file'[b].key
    BY DEF OnePerKey
  <2>1. CASE a = 1 \/ b = 1
    BY <1>2, <1>4, <1>5, <1>6, <2>1
  <2>2. CASE a # 1 /\ b # 1
    <3>1. a - 1 \in DOMAIN file /\ b - 1 \in DOMAIN file /\ a - 1 # b - 1
      BY <1>4, <1>5, <1>6, <2>2
    <3> QED  BY <1>3, <1>4, <1>6, <2>2, <3>1 DEF OnePerKey
  <2> QED  BY <2>1, <2>2
<1>8. NoneOlder(file, file')
  <2> SUFFICES ASSUME NEW i \in DOMAIN file', Expired(file'[i]) PROVE file'[i] \in ToSet(file)
    BY DEF NoneOlder, ToSet
  <2> QED  BY <1>2, <1>4, <1>5, <1>6 DEF ToSet
<1> QED  BY <1>1, <1>4, <1>7, <1>8, Untouched, WorldKeeps

LEMMA RemoveItemKeeps ==
  ASSUME RoundsInv, NEW k, RemoveItem(k)
  PROVE  RoundsInv'
BY RemovalKeeps, ClearingKeeps, Untouched, WorldKeeps DEF RemoveItem

LEMMA RemoveCompletedKeeps ==
  ASSUME RoundsInv, RemoveCompleted
  PROVE  RoundsInv'
BY RemovalKeeps, ClearingKeeps, Untouched, WorldKeeps DEF RemoveCompleted

LEMMA HandTagKeeps ==
  ASSUME RoundsInv, NEW k, HandTag(k)
  PROVE  RoundsInv'
<1> DEFINE made(l) == IF l.key = k THEN [l EXCEPT !.done = TRUE, !.age = Never] ELSE l
<1>1. UNCHANGED <<present, history, led, season>> /\ Event
  BY DEF HandTag
<1>2. file' = [i \in DOMAIN file |-> made(file[i])]
  BY DEF HandTag, Rewritten
<1>3. \A i \in DOMAIN file : file[i] \in LineRecords
  BY Untouched
<1>4. \A l \in LineRecords : made(l) \in LineRecords /\ made(l).key = l.key /\ (Expired(made(l)) => Expired(l))
  BY DEF LineRecords, Expired, Never
<1> HIDE DEF made
<1>5. /\ file' \in Seq(LineRecords) /\ OnePerKey(file') /\ NoneOlder(file, file')
  <2>1. DOMAIN file' = DOMAIN file /\ file' = [i \in DOMAIN file |-> file'[i]]
        /\ \A i \in DOMAIN file : file'[i] = made(file[i])
    BY <1>2
  <2>2. \A i \in DOMAIN file : /\ file'[i] \in LineRecords /\ file'[i].key = file[i].key
                               /\ Expired(file'[i]) => Expired(file[i])
    BY <1>3, <1>4, <2>1
  <2> QED  BY <2>1, <2>2, Untouched, RewriteKeeps
<1> QED  BY <1>1, <1>5, Untouched, WorldKeeps

LEMMA SetPlacementKeeps ==
  ASSUME RoundsInv, NEW k, NEW to \in Placements, SetPlacement(k, to)
  PROVE  RoundsInv'
<1> DEFINE made(l) == IF l.key = k THEN [l EXCEPT !.placement = to] ELSE l
<1>1. UNCHANGED <<present, history, season>> /\ Event
  BY DEF SetPlacement
<1>2. file' = [i \in DOMAIN file |-> made(file[i])]
  BY DEF SetPlacement, Rewritten
<1>3. \A i \in DOMAIN file : file[i] \in LineRecords
  BY Untouched
<1>4. \A l \in LineRecords : made(l) \in LineRecords /\ made(l).key = l.key /\ (Expired(made(l)) => Expired(l))
  BY DEF LineRecords, Expired
<1> HIDE DEF made
<1>5. /\ file' \in Seq(LineRecords) /\ OnePerKey(file') /\ NoneOlder(file, file')
  <2>1. DOMAIN file' = DOMAIN file /\ file' = [i \in DOMAIN file |-> file'[i]]
        /\ \A i \in DOMAIN file : file'[i] = made(file[i])
    BY <1>2
  <2>2. \A i \in DOMAIN file : /\ file'[i] \in LineRecords /\ file'[i].key = file[i].key
                               /\ Expired(file'[i]) => Expired(file[i])
    BY <1>3, <1>4, <2>1
  <2> QED  BY <2>1, <2>2, Untouched, RewriteKeeps
<1>6. /\ led' \in [Keys -> {Never} \union 0..Window]
      /\ \A q \in Keys : led'[q] = led[q] \/ led'[q] = Never
  BY ClearingKeeps, Untouched DEF SetPlacement
<1> QED  BY <1>1, <1>5, <1>6, Untouched, WorldKeeps

LEMMA OccurrenceKeeps ==
  ASSUME RoundsInv, Occurrence
  PROVE  RoundsInv'
<1>1. UNCHANGED <<file, present, history, led>> /\ Event /\ season' \in Seasons
  BY DEF Occurrence, Seasons
<1> QED  BY <1>1, Untouched, WorldKeeps

\* No job runs when the clock moves, so that none has a promise or a finding.
LEMMA TickKeeps ==
  ASSUME RoundsInv, Tick
  PROVE  RoundsInv'
<1> DEFINE made(l) == [l EXCEPT !.age = Capped(@, Ttl)]
<1>1. /\ UNCHANGED <<present, history, season, jobs, newest, respent>>
      /\ led' = [k \in Keys |-> Capped(led[k], Window)]
      /\ \A j \in Jobs : jobs[j] = Idle
  BY JobIs DEF Tick, Event, At, Fits
<1>2. Ttl \in Nat \ {0} /\ Window \in Nat \ {0}
  BY RoundsAssumption, LineupAssumption
<1>3. file' = [i \in DOMAIN file |-> made(file[i])]
  BY DEF Tick, Rewritten
<1>4. \A i \in DOMAIN file : file[i] \in LineRecords
  BY Untouched
<1>5. \A l \in LineRecords : made(l) \in LineRecords /\ made(l).key = l.key
  <2> TAKE l \in LineRecords
  <2> DEFINE Ages == {Never} \union 0..Ttl
             a == Capped(l.age, Ttl)
  <2>1. LineRecords = [key : Keys, done : BOOLEAN, age : Ages, placement : Placements]
    BY DEF LineRecords
  <2>2. a \in Ages
    BY <1>2, <2>1 DEF Capped, Never
  <2>3. made(l) = [l EXCEPT !.age = a]
    OBVIOUS
  <2> HIDE DEF Ages, a, made
  <2> QED  BY <2>1, <2>2, <2>3
<1> HIDE DEF made
<1>6. file' \in Seq(LineRecords) /\ OnePerKey(file')
  <2>1. DOMAIN file' = DOMAIN file /\ DOMAIN file = 1..Len(file) /\ Len(file) \in Nat
        /\ \A i \in DOMAIN file : file'[i] = made(file[i])
    BY <1>3, Untouched
  <2>2. \A i \in DOMAIN file : file'[i] \in LineRecords /\ file'[i].key = file[i].key
    BY <1>4, <1>5, <2>1
  <2>3. file' = [i \in 1..Len(file) |-> file'[i]]
    BY <1>3, <2>1
  <2>4. file' \in Seq(LineRecords)
    BY <2>1, <2>2, <2>3
  <2>5. OnePerKey(file')
    BY <2>1, <2>2, Untouched DEF OnePerKey
  <2> QED  BY <2>4, <2>5
<1>7. led' \in [Keys -> {Never} \union 0..Window]
  <2>1. \A k \in Keys : Capped(led[k], Window) \in {Never} \union 0..Window
    BY <1>2, Untouched DEF Capped, Never
  <2> QED  BY <1>1, <2>1
<1>8. RoundsTypeOK'
  BY <1>1, <1>6, <1>7, Untouched DEF RoundsTypeOK
<1>9. \A j \in Jobs : Fits(jobs'[j]) /\ Spares(jobs'[j], ToSet(file'))
  BY <1>1, IdleFits
<1>10. Owed(newest)'
  BY <1>1, IdleFits, Untouched DEF Owed, ToSet
<1>11. PromiseSpentOnce'
  BY <1>1 DEF RoundsInv, PromiseSpentOnce
<1> QED  BY <1>8, <1>9, <1>10, <1>11 DEF RoundsInv, Lines

LEMMA RoundsStep == RoundsInv /\ [RoundsNext]_roundsVars => RoundsInv'
<1> SUFFICES ASSUME RoundsInv, [RoundsNext]_roundsVars PROVE RoundsInv'
  OBVIOUS
<1>1. ASSUME NEW j \in Jobs, Start(j) PROVE RoundsInv'
  BY <1>1, StartKeeps
<1>2. ASSUME NEW j \in Jobs, Season(j) \/ Load(j) \/ Resolve(j) PROVE RoundsInv'
  BY <1>2, SeasonKeeps, LoadKeeps, ResolveKeeps
<1>3. ASSUME NEW j \in Jobs, Revive(j) \/ Mark(j) \/ Exhaust(j) \/ Sweep(j) PROVE RoundsInv'
  BY <1>3, ReviveKeeps, MarkKeeps, ExhaustKeeps, SweepKeeps
<1>4. ASSUME NEW j \in Jobs, ListDone(j) \/ Unmark(j) \/ Forget(j) PROVE RoundsInv'
  BY <1>4, ListDoneKeeps, UnmarkKeeps, ForgetKeeps
<1>5. ASSUME NEW j \in Jobs, Handoff(j) \/ Stamp(j) PROVE RoundsInv'
  BY <1>5, HandoffKeeps, StampKeeps
<1>6. CASE Environment
  <2>1. ASSUME NEW k \in Keys, NEW i \in 1..MaxLeaves[k], NEW to \in {"new", "half", "watched"}, Watch(k, i, to)
        PROVE  RoundsInv'
    BY <2>1, WatchKeeps
  <2>2. ASSUME NEW k \in Keys, Arrive(k) \/ AddItem(k) \/ RemoveItem(k) \/ HandTag(k) PROVE RoundsInv'
    BY <2>2, ArriveKeeps, AddItemKeeps, RemoveItemKeeps, HandTagKeeps
  <2>3. ASSUME NEW k \in Keys, NEW to \in {"set", "priority", "random"}, SetPlacement(k, to) PROVE RoundsInv'
    BY <2>3, SetPlacementKeeps DEF Placements
  <2>4. CASE RemoveCompleted \/ Tick \/ Occurrence
    BY <2>4, RemoveCompletedKeeps, TickKeeps, OccurrenceKeeps
  <2> QED  BY <1>6, <2>1, <2>2, <2>3, <2>4 DEF Environment
<1>7. CASE UNCHANGED roundsVars
  <2>1. UNCHANGED <<file, present, history, led, respent, season, jobs, newest>>
    BY <1>7 DEF roundsVars
  <2> QED  BY <2>1, Untouched, StepKeeps
<1> QED  BY <1>1, <1>2, <1>3, <1>4, <1>5, <1>6, <1>7 DEF RoundsNext, Step

\* Rounds: what every reachable state of a queue keeps, whatever its lines, its
\* settings, the library and the jobs that run at one time.
THEOREM RoundsInvariance == RoundsSpec => []RoundsInv
<1>1. RoundsInit => RoundsInv
  BY RoundsBegin
<1>2. RoundsInv /\ [RoundsNext]_roundsVars => RoundsInv'
  BY RoundsStep
<1> QED  BY <1>1, <1>2, PTL DEF RoundsSpec

\* session.ts, applyQueueWriteSide and recordLead: a promise is spent once.
THEOREM PromiseKept == RoundsSpec => []PromiseSpentOnce
<1>1. RoundsInv => PromiseSpentOnce
  BY DEF RoundsInv
<1> QED  BY <1>1, RoundsInvariance, PTL

\* Nothing but its own sweep takes a job out of it.
LEMMA SweepsItself ==
  ASSUME RoundsInv, RoundsNext, NEW j \in Jobs, At(j, "sweep"), jobs'[j].pc # "sweep"
  PROVE  Sweep(j)
<1>1. jobs \in [Jobs -> JobRecords]
  BY Untouched
<1>2. ASSUME NEW i \in Jobs, i # j, Start(i) \/ Step(i) PROVE jobs'[j] = jobs[j]
  <2>1. PICK r : jobs' = [jobs EXCEPT ![i] = r]
    <3>1. CASE Start(i)
      BY <1>1, <3>1 DEF Start
    <3>2. CASE Season(i) \/ Load(i) \/ Resolve(i)
      BY <3>2 DEF Season, Load, Resolve
    <3>3. CASE Revive(i) \/ Mark(i) \/ Exhaust(i) \/ Sweep(i)
      BY <1>1, <3>3 DEF Revive, Mark, Exhaust, Sweep, Go
    <3>4. CASE ListDone(i) \/ Unmark(i) \/ Forget(i)
      BY <1>1, <3>4 DEF ListDone, Unmark, Forget, Go
    <3>5. CASE Handoff(i) \/ Stamp(i)
      BY <3>5 DEF Handoff, Stamp
    <3> QED  BY <1>2, <3>1, <3>2, <3>3, <3>4, <3>5 DEF Step
  <2> QED  BY <1>1, <1>2, <2>1
<1>3. ~Environment
  BY DEF Environment, Watch, Arrive, AddItem, RemoveItem, HandTag, SetPlacement, RemoveCompleted,
         Tick, Occurrence, Event, At
<1>4. ~Start(j) /\ ~Season(j) /\ ~Load(j) /\ ~Resolve(j) /\ ~Revive(j) /\ ~Mark(j) /\ ~Exhaust(j)
      /\ ~ListDone(j) /\ ~Unmark(j) /\ ~Forget(j) /\ ~Handoff(j) /\ ~Stamp(j)
  BY DEF Start, Season, Load, Resolve, Revive, Mark, Exhaust, ListDone, Unmark, Forget, Handoff,
         Stamp, At
<1>5. PICK i \in Jobs : Start(i) \/ Step(i)
  BY <1>3 DEF RoundsNext
<1>6. i = j
  BY <1>2, <1>5 DEF At
<1> QED  BY <1>4, <1>5, <1>6 DEF Step

LEMMA SparesPlayable ==
  ASSUME RoundsInv, RoundsNext, NEW j \in Jobs, At(j, "sweep"), jobs'[j].pc # "sweep",
         NEW l \in Lines, l.key \in jobs[j].found
  PROVE  \E m \in ToSet(file') : m.key = l.key
<1>1. Sweep(j)
  BY SweepsItself
<1>2. ~Expired(l)
  BY JobIs DEF Spares, At
<1> DEFINE swept == IF Keep THEN {} ELSE {m \in Lines : Expired(m)}
<1>3. file' = Without(file, swept) /\ l \notin swept
  BY <1>1, <1>2 DEF Sweep
<1> HIDE DEF swept
<1>4. ToSet(file') = ToSet(file) \ swept
  BY <1>3, Untouched, RemovalKeeps
<1> QED  BY <1>3, <1>4 DEF Lines

\* finished.ts, sweepCompleted: a sweep never takes a line that its own job found
\* playable, however many jobs write the file in between.
THEOREM PlayableSpared == RoundsSpec => SweepSparesPlayable
<1> DEFINE Sparing == \A j \in Jobs : (At(j, "sweep") /\ jobs'[j].pc # "sweep") =>
                        \A l \in Lines : l.key \in jobs[j].found => \E m \in ToSet(file') : m.key = l.key
<1>1. RoundsInv /\ [RoundsNext]_roundsVars => [Sparing]_roundsVars
  BY SparesPlayable
<1>2. SweepSparesPlayable <=> [][Sparing]_roundsVars
  BY DEF SweepSparesPlayable
<1> HIDE DEF Sparing
<1> QED  BY <1>1, <1>2, RoundsInvariance, PTL DEF RoundsSpec
=============================================================================
