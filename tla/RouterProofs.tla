---------------------------- MODULE RouterProofs ----------------------------
(* The gateway, for any clients, deployments, squads and prompts: what the   *)
(* strategy selects among deployments that fail, cool down and carry others' *)
(* load; and the account of the calls, for any Pi processes and any          *)
(* configuration of the advisor.                                             *)
EXTENDS Gateway, FleetUsage, FiniteSetTheorems, WellFoundedInduction, TLAPS

-----------------------------------------------------------------------------
(***************************************************************************)
(* Numbers.  Selections of a deployment are added up over their ages, and  *)
(* calls over the clients; a sum over a finite set exists by induction on  *)
(* how many elements it has, the induction being over a set of numbers,    *)
(* the least number outside of which is looked at.                         *)
(***************************************************************************)
First(s) == CHOOSE x \in s : TRUE

\* g adds up f over every set of D, one element after the other.
AddsUp(g, f, D) ==
    \A s \in D : g[s] = IF s = {} THEN 0 ELSE f[First(s)] + g[s \ {First(s)}]

\* A set of numbers has a least one.
LEMMA LeastOf ==
    ASSUME NEW T, T \subseteq Nat, T # {}
    PROVE  \E m \in T : \A k \in T : m <= k
<1> DEFINE R == OpToRel(<, Nat)
<1>1. IsWellFoundedOn(R, Nat)
  BY NatLessThanWellFounded DEF OpToRel
<1>2. \A j, k \in Nat : j < k => <<j, k>> \in R
  BY DEF OpToRel
<1> HIDE DEF R
<1>3. PICK m \in T : \A k \in T : ~ (<<k, m>> \in R)
  BY <1>1, WFMin
<1>4. ASSUME NEW k \in T PROVE m <= k
  <2>1. k \in Nat /\ m \in Nat /\ ~(k < m)
    BY <1>2, <1>3
  <2> QED
    BY <2>1
<1> QED
  BY <1>4

\* A set with zero and every successor has every number.
LEMMA Induct ==
    ASSUME NEW T, 0 \in T, \A n \in Nat : n \in T => n + 1 \in T
    PROVE  Nat \subseteq T
<1> SUFFICES ASSUME Nat \ T # {} PROVE FALSE
  OBVIOUS
<1>1. PICK m \in Nat \ T : \A k \in Nat \ T : m <= k
  BY LeastOf
<1>2. m # 0 /\ m - 1 \in Nat /\ m - 1 + 1 = m
  BY <1>1
<1>3. m - 1 \in T
  BY <1>1, <1>2
<1> QED
  BY <1>1, <1>2, <1>3

\* A set without its first element.
LEMMA WithoutFirst ==
    ASSUME NEW S, IsFiniteSet(S), NEW s \in SUBSET S, s # {}
    PROVE  /\ First(s) \in s /\ s \ {First(s)} \in SUBSET S
           /\ Cardinality(s) \in Nat \ {0}
           /\ Cardinality(s \ {First(s)}) = Cardinality(s) - 1
<1>1. First(s) \in s
  BY DEF First
<1>2. IsFiniteSet(s)
  BY FS_Subset
<1>3. Cardinality(s) \in Nat /\ Cardinality(s) # 0
  BY <1>2, FS_CardinalityType, FS_EmptySet
<1>4. Cardinality(s \ {First(s)}) = Cardinality(s) - 1
  BY <1>1, <1>2, FS_RemoveElement
<1> QED
  BY <1>1, <1>3, <1>4

\* Sums exist: those of at most n elements for every n.
LEMMA SumsExist ==
    ASSUME NEW S, IsFiniteSet(S), NEW f \in [S -> Nat]
    PROVE  \E g \in [SUBSET S -> Nat] : AddsUp(g, f, SUBSET S)
<1> DEFINE Small(n) == {s \in SUBSET S : Cardinality(s) <= n}
           T == {n \in Nat : \E g \in [Small(n) -> Nat] : AddsUp(g, f, Small(n))}
<1>1. 0 \in T
  <2> DEFINE g == [s \in Small(0) |-> 0]
  <2>1. ASSUME NEW s \in SUBSET S, Cardinality(s) <= 0 PROVE s = {}
    <3>1. ASSUME s # {} PROVE FALSE
      <4>1. Cardinality(s) \in Nat \ {0}
        BY <3>1, WithoutFirst
      <4> QED
        BY <2>1, <4>1
    <3> QED
      BY <3>1
  <2>2. g \in [Small(0) -> Nat] /\ AddsUp(g, f, Small(0))
    BY <2>1 DEF AddsUp
  <2> QED
    BY <2>2
<1>2. ASSUME NEW n \in Nat, n \in T PROVE n + 1 \in T
  <2>1. PICK g \in [Small(n) -> Nat] : AddsUp(g, f, Small(n))
    BY <1>2
  <2> DEFINE h == [s \in Small(n + 1) |->
                      IF s = {} THEN 0 ELSE f[First(s)] + g[s \ {First(s)}]]
  <2>2. ASSUME NEW s \in Small(n + 1), s # {}
        PROVE  First(s) \in S /\ s \ {First(s)} \in Small(n)
    <3>1. /\ First(s) \in s /\ s \ {First(s)} \in SUBSET S
          /\ Cardinality(s) \in Nat \ {0} /\ Cardinality(s) <= n + 1
          /\ Cardinality(s \ {First(s)}) = Cardinality(s) - 1
      BY <2>2, WithoutFirst
    <3> QED
      BY <3>1
  <2>3. h \in [Small(n + 1) -> Nat]
    BY <2>2
  <2>4. \A s \in Small(n) : s \in Small(n + 1) /\ h[s] = g[s]
    <3>1. ASSUME NEW s \in Small(n) PROVE s \in Small(n + 1)
      <4>1. Cardinality(s) \in Nat
        BY FS_Subset, FS_CardinalityType
      <4> QED
        BY <4>1
    <3> QED
      BY <2>1, <3>1 DEF AddsUp
  <2>5. AddsUp(h, f, Small(n + 1))
    <3> SUFFICES ASSUME NEW s \in Small(n + 1), s # {}
                 PROVE  h[s] = f[First(s)] + h[s \ {First(s)}]
      BY DEF AddsUp
    <3>1. h[s] = f[First(s)] + g[s \ {First(s)}]
      OBVIOUS
    <3>2. h[s \ {First(s)}] = g[s \ {First(s)}]
      BY <2>2, <2>4
    <3> QED
      BY <3>1, <3>2
  <2> HIDE DEF h
  <2>6. \E k \in [Small(n + 1) -> Nat] : AddsUp(k, f, Small(n + 1))
    BY <2>3, <2>5
  <2> HIDE DEF Small
  <2> QED
    BY <2>6
<1> HIDE DEF T
<1>3. Cardinality(S) \in T
  BY <1>1, <1>2, Induct, FS_CardinalityType
<1>4. Small(Cardinality(S)) = SUBSET S
  BY FS_Subset
<1> QED
  BY <1>3, <1>4 DEF T


\* A sum over a finite set is what such a function says of it.
Sum(f, S) == MapThenSumSet(LAMBDA x : f[x], S)

LEMMA SumIs ==
    ASSUME NEW S, IsFiniteSet(S), NEW f \in [S -> Nat]
    PROVE  \E g : AddsUp(g, f, SUBSET S) /\ Sum(f, S) = g[S]
<1> DEFINE it == CHOOSE g : g = [s \in SUBSET S |->
                        IF s = {} THEN 0 ELSE f[First(s)] + g[s \ {First(s)}]]
<1>1. PICK g \in [SUBSET S -> Nat] : AddsUp(g, f, SUBSET S)
  BY SumsExist
<1>2. g = [s \in SUBSET S |-> IF s = {} THEN 0 ELSE f[First(s)] + g[s \ {First(s)}]]
  BY <1>1 DEF AddsUp
<1>3. it = [s \in SUBSET S |-> IF s = {} THEN 0 ELSE f[First(s)] + it[s \ {First(s)}]]
  BY <1>2
<1>4. Sum(f, S) = it[S]
  BY DEF Sum, MapThenSumSet, MapThenFoldSet, First
<1> HIDE DEF it
<1>5. AddsUp(it, f, SUBSET S)
  BY <1>3 DEF AddsUp
<1> QED
  BY <1>4, <1>5

\* Where one element grows by k, the sum does.
LEMMA SumGrows ==
    ASSUME NEW S, IsFiniteSet(S), NEW f \in [S -> Nat], NEW x \in S, NEW k \in Nat
    PROVE  /\ Sum(f, S) \in Nat
           /\ Sum([f EXCEPT ![x] = @ + k], S) = Sum(f, S) + k
<1> DEFINE h == [f EXCEPT ![x] = @ + k]
<1>1. h \in [S -> Nat] /\ h[x] = f[x] + k /\ \A y \in S \ {x} : h[y] = f[y]
  OBVIOUS
<1> HIDE DEF h
<1>2. PICK g : AddsUp(g, f, SUBSET S) /\ Sum(f, S) = g[S]
  BY SumIs
<1>3. PICK e : AddsUp(e, h, SUBSET S) /\ Sum(h, S) = e[S]
  BY <1>1, SumIs
<1> DEFINE Grown(s) == IF x \in s THEN k ELSE 0
           T == {n \in Nat : \A s \in SUBSET S : Cardinality(s) = n =>
                    g[s] \in Nat /\ e[s] = g[s] + Grown(s)}
<1>4. 0 \in T
  <2>1. ASSUME NEW s \in SUBSET S, Cardinality(s) = 0 PROVE s = {}
    BY <2>1, WithoutFirst
  <2>2. g[{}] = 0 /\ e[{}] = 0 /\ Grown({}) = 0
    BY <1>2, <1>3 DEF AddsUp
  <2> QED
    BY <2>1, <2>2
<1>5. ASSUME NEW n \in Nat, n \in T PROVE n + 1 \in T
  <2> SUFFICES ASSUME NEW s \in SUBSET S, Cardinality(s) = n + 1
               PROVE  g[s] \in Nat /\ e[s] = g[s] + Grown(s)
    OBVIOUS
  <2>1. s # {}
    <3>1. n + 1 # 0 /\ Cardinality({}) = 0
      BY FS_EmptySet
    <3> QED
      BY <3>1
  <2> DEFINE y == First(s)  r == s \ {First(s)}
  <2>2. y \in s /\ y \in S /\ r \in SUBSET S /\ Cardinality(r) = n
    BY <2>1, WithoutFirst
  <2>3. g[r] \in Nat /\ e[r] = g[r] + Grown(r)
    BY <1>5, <2>2
  <2>4. g[s] = f[y] + g[r] /\ e[s] = h[y] + e[r] /\ f[y] \in Nat
    BY <1>2, <1>3, <2>1, <2>2 DEF AddsUp
  <2> HIDE DEF T
  <2>5. CASE y = x
    <3>1. Grown(r) = 0 /\ Grown(s) = k /\ h[y] = f[y] + k
      BY <1>1, <2>2, <2>5
    <3> HIDE DEF y, r, Grown
    <3> QED
      BY <2>3, <2>4, <3>1
  <2>6. CASE y # x
    <3>1. Grown(r) = Grown(s) /\ h[y] = f[y] /\ Grown(s) \in Nat
      BY <1>1, <2>2, <2>6
    <3> HIDE DEF y, r, Grown
    <3> QED
      BY <2>3, <2>4, <3>1
  <2> QED
    BY <2>5, <2>6
<1> HIDE DEF T
<1>6. Cardinality(S) \in T
  BY <1>4, <1>5, Induct, FS_CardinalityType
<1>7. g[S] \in Nat /\ e[S] = g[S] + Grown(S)
  BY <1>6 DEF T
<1> QED
  BY <1>2, <1>3, <1>7 DEF h

\* No element is above the sum.
LEMMA SumAbove ==
    ASSUME NEW S, IsFiniteSet(S), NEW f \in [S -> Nat], NEW x \in S
    PROVE  f[x] <= Sum(f, S)
<1> DEFINE rest == [f EXCEPT ![x] = 0]
<1>1. /\ rest \in [S -> Nat] /\ f[x] \in Nat /\ rest[x] + f[x] = f[x]
      /\ \A y \in S \ {x} : rest[y] = f[y]
  OBVIOUS
<1> HIDE DEF rest
<1>2. f = [rest EXCEPT ![x] = @ + f[x]]
  BY <1>1
<1>3. Sum(rest, S) \in Nat /\ Sum(f, S) = Sum(rest, S) + f[x]
  BY <1>1, <1>2, SumGrows
<1> QED
  BY <1>1, <1>3

-----------------------------------------------------------------------------
\* In a finite set of numbers every rank below its size is taken.
LEMMA Ranked ==
    ASSUME NEW S, S \subseteq Nat, IsFiniteSet(S), NEW k \in Nat, k < Cardinality(S)
    PROVE  \E d \in S : Cardinality({e \in S : e < d}) = k
<1> DEFINE Below(d) == {e \in S : e < d}
           T == {n \in Nat : n < Cardinality(S) => \E d \in S : Cardinality(Below(d)) = n}
<1>1. Cardinality(S) \in Nat
  BY FS_CardinalityType
<1>2. 0 \in T
  <2> SUFFICES ASSUME 0 < Cardinality(S) PROVE \E d \in S : Cardinality(Below(d)) = 0
    OBVIOUS
  <2>1. S # {}
    BY FS_EmptySet
  <2>2. PICK m \in S : \A j \in S : m <= j
    BY <2>1, LeastOf
  <2>3. ASSUME NEW e \in S, e < m PROVE FALSE
    <3>1. m <= e /\ m \in Nat /\ e \in Nat
      BY <2>2
    <3> QED
      BY <2>3, <3>1
  <2>4. Below(m) = {} /\ Cardinality({}) = 0
    BY <2>3, FS_EmptySet
  <2> QED
    BY <2>4
<1>3. ASSUME NEW n \in Nat, n \in T PROVE n + 1 \in T
  <2> SUFFICES ASSUME n + 1 < Cardinality(S)
               PROVE  \E d \in S : Cardinality(Below(d)) = n + 1
    OBVIOUS
  <2>1. n < Cardinality(S)
    BY <1>1
  <2>2. PICK d \in S : Cardinality(Below(d)) = n
    BY <1>3, <2>1
  <2>3. IsFiniteSet(Below(d)) /\ d \notin Below(d)
    <3>1. Below(d) \in SUBSET S /\ d \in Nat
      OBVIOUS
    <3> QED
      BY <3>1, FS_Subset
  <2>4. Cardinality(Below(d) \cup {d}) = n + 1
    BY <2>2, <2>3, FS_AddElement
  <2> DEFINE Above == {e \in S : e > d}
  <2>5. Above # {}
    <3> SUFFICES ASSUME Above = {} PROVE FALSE
      OBVIOUS
    <3>1. ASSUME NEW e \in S PROVE e \in Below(d) \cup {d}
      <4>1. e \in Nat /\ d \in Nat /\ ~(e > d)
        OBVIOUS
      <4> QED
        BY <4>1
    <3>2. S = Below(d) \cup {d}
      BY <3>1
    <3> HIDE DEF Below
    <3> QED
      BY <2>4, <3>2, <1>1
  <2>6. PICK m \in Above : \A j \in Above : m <= j
    BY <2>5, LeastOf
  <2>7. ASSUME NEW e \in S PROVE e < m <=> e < d \/ e = d
    <3>1. e \in Nat /\ d \in Nat /\ m \in Nat /\ m > d /\ (e > d => m <= e)
      BY <2>6
    <3> QED
      BY <3>1
  <2>8. Below(m) = Below(d) \cup {d}
    BY <2>7
  <2> QED
    BY <2>4, <2>6, <2>8
<1> HIDE DEF T
<1>4. k \in T
  BY <1>2, <1>3, Induct
<1> QED
  BY <1>4 DEF T

\* The least of a set of numbers.
LEMMA Least ==
    ASSUME NEW T, T \subseteq Nat, T # {}
    PROVE  Min(T) \in T /\ \A k \in T : Min(T) <= k
  BY LeastOf DEF Min

-----------------------------------------------------------------------------
(***************************************************************************)
(* Which squad.                                                            *)
(***************************************************************************)
\* The tiers are four, each at its place.
LEMMA Places ==
    /\ Tier = {"s0", "s1", "s2", "s3"}
    /\ TierOrder[1] = "s0" /\ TierOrder[2] = "s1" /\ TierOrder[3] = "s2" /\ TierOrder[4] = "s3"
    /\ Place("s0") = 1 /\ Place("s1") = 2 /\ Place("s2") = 3 /\ Place("s3") = 4
  BY DEF Tier, TierOrder, Place

\* The largest and the least place of some.
LEMMA Extremes ==
    ASSUME NEW S, S \subseteq 1..4, S # {}
    PROVE  /\ Max(S) \in S /\ \A i \in S : Max(S) >= i
           /\ Min(S) \in S /\ \A i \in S : Min(S) <= i
<1>0. \A i \in S : i \in {1, 2, 3, 4}
  OBVIOUS
<1>1. \E i \in S : \A j \in S : i >= j
  <2>1. CASE 4 \in S
    BY <1>0, <2>1
  <2>2. CASE 4 \notin S /\ 3 \in S
    BY <1>0, <2>2
  <2>3. CASE 4 \notin S /\ 3 \notin S /\ 2 \in S
    BY <1>0, <2>3
  <2>4. CASE 4 \notin S /\ 3 \notin S /\ 2 \notin S
    <3>1. \A i \in S : i = 1
      BY <1>0, <2>4
    <3>2. PICK i \in S : TRUE
      OBVIOUS
    <3> QED
      BY <3>1, <3>2
  <2> QED
    BY <2>1, <2>2, <2>3, <2>4
<1>2. \E i \in S : \A j \in S : i <= j
  <2>1. CASE 1 \in S
    BY <1>0, <2>1
  <2>2. CASE 1 \notin S /\ 2 \in S
    BY <1>0, <2>2
  <2>3. CASE 1 \notin S /\ 2 \notin S /\ 3 \in S
    BY <1>0, <2>3
  <2>4. CASE 1 \notin S /\ 2 \notin S /\ 3 \notin S
    <3>1. \A i \in S : i = 4
      BY <1>0, <2>4
    <3>2. PICK i \in S : TRUE
      OBVIOUS
    <3> QED
      BY <3>1, <3>2
  <2> QED
    BY <2>1, <2>2, <2>3, <2>4
<1> QED
  BY <1>1, <1>2 DEF Max, Min

\* pick_tier: of the tiers from the base toward s0 the nearest whose budget holds the
\* prompt; s0 where no other does.
THEOREM PromptsEscalate ==
    ASSUME NEW base \in Tier, NEW tokens
    PROVE  \E i \in 1..Place(base) :
               /\ Escalated(base, tokens) = TierOrder[i]
               /\ i = 1 \/ tokens <= Budget[TierOrder[i]]
               /\ \A j \in 1..Place(base) : j > i => ~(tokens <= Budget[TierOrder[j]])
<1> DEFINE fits == {i \in 1..Place(base) : i = 1 \/ tokens <= Budget[TierOrder[i]]}
<1>1. Place(base) \in 1..4
  BY Places
<1>2. fits \subseteq 1..4 /\ 1 \in fits
  BY <1>1
<1>3. Max(fits) \in fits /\ \A i \in fits : Max(fits) >= i
  BY <1>2, Extremes
<1>4. \A j \in 1..Place(base) : j > Max(fits) => ~(tokens <= Budget[TierOrder[j]])
  <2> SUFFICES ASSUME NEW j \in 1..Place(base), j > Max(fits), j \in fits PROVE FALSE
    OBVIOUS
  <2>1. Max(fits) >= j /\ Max(fits) \in Int /\ j \in Int
    BY <1>1, <1>3
  <2> QED
    BY <2>1
<1>5. Escalated(base, tokens) = TierOrder[Max(fits)]
  BY DEF Escalated
<1> QED
  BY <1>3, <1>4, <1>5

\* degrade_squad: what is asked for, where it has a deployment or is no tier, or where no
\* tier has one; else the nearest tier toward s3 that has, and only when there is none on
\* that side the nearest one toward s0.
THEOREM DegradedToNearest ==
    ASSUME NEW requested, NEW available
    PROVE  LET got == DegradeSquad(requested, available)
               home == Place(requested)
               has(i) == TierOrder[i] \in available
           IN
           \/ got = requested
              /\ (requested \in available \/ requested \notin Tier
                  \/ \A i \in 1..4 : i # home => ~has(i))
           \/ \E i \in 1..4 :
                  /\ got = TierOrder[i] /\ has(i) /\ i # home
                  /\ i > home => \A j \in 1..4 : has(j) /\ j > home => i <= j
                  /\ i < home => \A j \in 1..4 : has(j) => j <= i
<1> DEFINE home == Place(requested)
           has(i) == TierOrder[i] \in available
           at(S) == {i \in S : has(i)}
           below == at(home + 1 .. 4)
           above == at(1 .. home - 1)
<1>1. CASE requested \in available \/ requested \notin Tier
  BY <1>1 DEF DegradeSquad
<1>2. CASE requested \notin available /\ requested \in Tier
  <2>1. home \in 1..4 /\ TierOrder[home] = requested
    BY <1>2, Places
  <2>2. below \subseteq 1..4 /\ above \subseteq 1..4
    BY <2>1
  <2>3. DegradeSquad(requested, available) =
            IF below # {} THEN TierOrder[Min(below)]
            ELSE IF above # {} THEN TierOrder[Max(above)]
            ELSE requested
    BY <1>2 DEF DegradeSquad
  <2>4. /\ \A i \in 1..4 : i \in below <=> has(i) /\ i > home
        /\ \A i \in 1..4 : i \in above <=> has(i) /\ i < home
    BY <2>1
  <2>5. ~has(home)
    BY <1>2, <2>1
  <2> HIDE DEF home, has, below, above
  <2>6. CASE below # {}
    <3>1. Min(below) \in below /\ \A i \in below : Min(below) <= i
      BY <2>2, <2>6, Extremes
    <3>2. Min(below) \in 1..4 /\ has(Min(below)) /\ Min(below) > home
      BY <2>2, <2>4, <3>1
    <3> QED
      BY <2>1, <2>3, <2>4, <2>6, <3>1, <3>2 DEF has, home
  <2>7. CASE below = {} /\ above # {}
    <3>1. Max(above) \in above /\ \A i \in above : Max(above) >= i
      BY <2>2, <2>7, Extremes
    <3>2. Max(above) \in 1..4 /\ has(Max(above)) /\ Max(above) < home
      BY <2>2, <2>4, <3>1
    <3>3. ASSUME NEW j \in 1..4, has(j) PROVE j <= Max(above)
      BY <2>1, <2>4, <2>5, <2>7, <3>1, <3>2, <3>3
    <3> QED
      BY <2>1, <2>3, <2>7, <3>2, <3>3 DEF has, home
  <2>8. CASE below = {} /\ above = {}
    <3>1. \A i \in 1..4 : i # home => ~has(i)
      BY <2>1, <2>4, <2>8
    <3> QED
      BY <2>3, <2>8, <3>1 DEF has, home
  <2> QED
    BY <2>6, <2>7, <2>8
<1> QED
  BY <1>1, <1>2

-----------------------------------------------------------------------------
(***************************************************************************)
(* The strategy.                                                           *)
(***************************************************************************)
Nodes == [Deployment -> [Age -> Nat]]

\* What the constants are.
LEMMA Constants ==
    /\ Deployment \subseteq Nat /\ IsFiniteSet(Deployment)
    /\ SquadOf \in [Deployment -> Squad]
    /\ \A s \in Squad : SquadConcurrency[s] \in Nat
    /\ Window \in Nat /\ Retries \in Nat /\ Cooldown \in Nat \ {0} /\ Turns \in Nat
    /\ IsFiniteSet(Client) /\ Hash \in [Client -> Nat]
    /\ Tier = {"s0", "s1", "s2", "s3"} /\ Tier \subseteq Squad
<1>1. Tier = {"s0", "s1", "s2", "s3"} /\ Tier \subseteq Squad
  BY Places, RouterAssumption
<1>2. /\ Deployment \subseteq Nat /\ IsFiniteSet(Deployment)
      /\ SquadOf \in [Deployment -> Squad] /\ Window \in Nat
  BY RouterAssumption
<1>3. \A s \in Squad : SquadConcurrency[s] \in Nat
  BY RouterAssumption
<1>4. /\ Retries \in Nat /\ Cooldown \in Nat \ {0} /\ Turns \in Nat
      /\ IsFiniteSet(Client) /\ Hash \in [Client -> Nat]
  BY GatewayAssumption
<1> QED
  BY <1>1, <1>2, <1>3, <1>4

\* A selection lifts the load of its deployment by one, and no other's.
LEMMA LoadIs ==
    ASSUME NEW sel \in Nodes, NEW d \in Deployment
    PROVE  /\ Load(sel, d) \in Nat
           /\ Record(sel, d) \in Nodes
           /\ Load(Record(sel, d), d) = Load(sel, d) + 1
<1>1. IsFiniteSet(Age) /\ 0 \in Age
  BY Constants, FS_Interval DEF Age
<1>2. \A s : Load(s, d) = Sum(s[d], Age)
  BY DEF Load, Sum
<1>3. sel[d] \in [Age -> Nat]
  BY DEF Nodes
<1>4. Record(sel, d) = [sel EXCEPT ![d] = [sel[d] EXCEPT ![0] = @ + 1]]
  BY DEF Record
<1>5. [sel[d] EXCEPT ![0] = @ + 1] \in [Age -> Nat]
  BY <1>1, <1>3
<1>6. Record(sel, d) \in Nodes /\ Record(sel, d)[d] = [sel[d] EXCEPT ![0] = @ + 1]
  BY <1>4, <1>5 DEF Nodes
<1>7. /\ Sum(sel[d], Age) \in Nat
      /\ Sum([sel[d] EXCEPT ![0] = @ + 1], Age) = Sum(sel[d], Age) + 1
  BY <1>1, <1>3, SumGrows
<1> QED
  BY <1>2, <1>6, <1>7

\* ordered[h % len(ordered)] is one of ordered.
LEMMA PreferredIn ==
    ASSUME NEW ordered, ordered \subseteq Deployment, ordered # {}, NEW hash \in Nat
    PROVE  Preferred(ordered, hash) \in ordered
<1> DEFINE n == Cardinality(ordered)
<1>1. ordered \subseteq Nat /\ IsFiniteSet(ordered)
  BY Constants, FS_Subset
<1>2. n \in Nat /\ n # 0
  BY <1>1, FS_CardinalityType, FS_EmptySet
<1>3. hash % n \in Nat /\ hash % n < n
  BY <1>2
<1>4. \E d \in ordered : Cardinality({e \in ordered : e < d}) = hash % n
  BY <1>1, <1>3, Ranked
<1> QED
  BY <1>4 DEF Preferred

\* min(ordered, key=load) is one of ordered, and none of them has a smaller load.
LEMMA LeastLoadedIn ==
    ASSUME NEW ordered, ordered \subseteq Deployment, ordered # {}, NEW sel \in Nodes
    PROVE  /\ LeastLoaded(ordered, sel) \in ordered
           /\ \A e \in ordered : Load(sel, LeastLoaded(ordered, sel)) <= Load(sel, e)
<1> DEFINE loads == {Load(sel, d) : d \in ordered}
           least == {d \in ordered : \A e \in ordered : Load(sel, d) <= Load(sel, e)}
<1>1. loads \subseteq Nat /\ loads # {}
  BY LoadIs
<1>2. PICK m \in loads : \A k \in loads : m <= k
  BY <1>1, LeastOf
<1>3. PICK d \in ordered : m = Load(sel, d)
  BY <1>2
<1>4. d \in least
  BY <1>2, <1>3
<1>5. least \subseteq Nat /\ least # {}
  BY <1>4, Constants
<1>6. Min(least) \in least
  BY <1>5, Least
<1> QED
  BY <1>6 DEF LeastLoaded

\* The squad a request is meant for is one of the configuration.
LEMMA SquadChosen ==
    ASSUME NEW ask, ask.model \in Model, ask.hint \in Squad \cup {"none"}
    PROVE  ChosenSquad(ask) \in Squad
<1>1. Tier \subseteq Squad /\ \A i \in 1..4 : TierOrder[i] \in Tier
  <2>1. \A i \in 1..4 : TierOrder[i] \in Tier
    BY DEF Tier
  <2> QED
    BY <2>1, Constants
<1>2. BaseTier(ask.complexity) \in Tier
  BY Places DEF BaseTier
<1>3. PickTier(ask) \in Squad
  <2>1. PICK i \in 1..Place(BaseTier(ask.complexity)) :
            Escalated(BaseTier(ask.complexity), ask.tokens) = TierOrder[i]
    BY <1>2, PromptsEscalate
  <2>2. Place(BaseTier(ask.complexity)) \in 1..4
    BY <1>2, Places
  <2>3. Escalated(BaseTier(ask.complexity), ask.tokens) \in Squad
    BY <1>1, <2>1, <2>2
  <2> QED
    BY <2>3 DEF PickTier, Model
<1> DEFINE available == {SquadOf[d] : d \in Members(ask.model)}
<1>4. \/ DegradeSquad(PickTier(ask), available) = PickTier(ask)
      \/ \E i \in 1..4 : DegradeSquad(PickTier(ask), available) = TierOrder[i]
  BY DegradedToNearest
<1>5. ChosenSquad(ask) = DegradeSquad(PickTier(ask), available)
  BY DEF ChosenSquad
<1> HIDE DEF available
<1> QED
  BY <1>1, <1>3, <1>4, <1>5

\* Where a group has members, so have its candidates, and some of them are usable.
LEMMA SomeUsable ==
    ASSUME NEW ask, Members(ask.model) # {}, NEW cool
    PROVE  /\ Usable(ask, cool) # {} /\ Usable(ask, cool) \subseteq Candidates(ask)
           /\ Candidates(ask) \subseteq Deployment
  BY DEF Usable, Candidates, Members

\* What is selected is usable; at or above the threshold it has the least load of all.
LEMMA SelectedIs ==
    ASSUME NEW ask, Members(ask.model) # {}, NEW hash \in Nat, NEW sel \in Nodes, NEW cool,
           Threshold(ask) \in Nat
    PROVE  LET d == SelectDeployment(ask, hash, sel, cool) IN
           /\ d \in Usable(ask, cool) /\ d \in Deployment
           /\ Load(sel, d) >= Threshold(ask) =>
                  \A e \in Usable(ask, cool) : Load(sel, e) >= Load(sel, d)
<1> DEFINE ordered == Usable(ask, cool)
           preferred == Preferred(ordered, hash)
           least == LeastLoaded(ordered, sel)
           d == SelectDeployment(ask, hash, sel, cool)
<1>1. ordered # {} /\ ordered \subseteq Deployment
  BY SomeUsable
<1>2. preferred \in ordered
  BY <1>1, PreferredIn
<1>3. least \in ordered /\ \A e \in ordered : Load(sel, least) <= Load(sel, e)
  BY <1>1, LeastLoadedIn
<1>4. \A e \in ordered : e \in Deployment /\ Load(sel, e) \in Nat
  BY <1>1, LoadIs
<1>5. d = IF Cardinality(ordered) > 1 /\ Load(sel, preferred) >= Threshold(ask)
          THEN least ELSE preferred
  BY DEF SelectDeployment
<1>6. IsFiniteSet(ordered) /\ Cardinality(ordered) \in Nat
  BY <1>1, Constants, FS_Subset, FS_CardinalityType
<1>7. ASSUME ~(Cardinality(ordered) > 1), NEW e \in ordered PROVE e = preferred
  <2>1. ordered = {} \/ \E x : ordered = {x}
    BY <1>6, <1>7, FS_EmptySet, FS_Singleton
  <2> QED
    BY <1>2, <2>1
<1> HIDE DEF ordered, preferred, least, d
<1>8. d \in ordered
  BY <1>2, <1>3, <1>5
<1>9. Load(sel, d) >= Threshold(ask) => \A e \in ordered : Load(sel, e) >= Load(sel, d)
  <2>1. CASE Cardinality(ordered) > 1 /\ Load(sel, preferred) >= Threshold(ask)
    BY <1>3, <1>4, <1>5, <2>1
  <2>2. CASE ~(Cardinality(ordered) > 1)
    BY <1>2, <1>4, <1>5, <1>7, <2>2
  <2>3. CASE ~(Load(sel, preferred) >= Threshold(ask))
    BY <1>5, <2>3
  <2> QED
    BY <2>1, <2>2, <2>3
<1> QED
  BY <1>4, <1>8, <1>9 DEF d, ordered

-----------------------------------------------------------------------------
(***************************************************************************)
(* The gateway.                                                            *)
(***************************************************************************)
RoutingCall == [phase : {"routing"}, ask : Ask, model : Model, left : 0..Retries]
SentCall ==
    [phase : {"sent"}, ask : Ask, model : Model, left : 0..Retries, at : Deployment]

\* The phase of a call says which record it is.
LEMMA Phases ==
    ASSUME NEW k \in Call
    PROVE  /\ k.phase = "idle" => k = NoCall
           /\ k.phase = "routing" => k \in RoutingCall
           /\ k.phase = "sent" => k \in SentCall
           /\ k.phase \in {"idle", "routing", "sent"}
  BY DEF Call, NoCall, RoutingCall, SentCall

\* A call that is routed on is one, and nothing else.
LEMMA RoutingIs ==
    ASSUME NEW a \in Ask, NEW m \in Model, NEW n \in 0..Retries
    PROVE  Routing(a, m, n) \in Call /\ Routing(a, m, n).phase = "routing"
  BY DEF Routing, Call

\* A group that is given up leaves no call, or one that is routed to the next group.
LEMMA AfterGroupIs ==
    ASSUME NEW k, k.ask \in Ask
    PROVE  AfterGroup(k) \in Call /\ AfterGroup(k).phase # "sent"
<1>1. CASE Fallback(k.model) = "none"
  BY <1>1 DEF AfterGroup, NoCall, Call
<1>2. CASE Fallback(k.model) # "none"
  <2>1. Fallback(k.model) \in {"s1", "s2"}
    BY <1>2 DEF Fallback
  <2>2. Fallback(k.model) \in Model /\ Retries \in 0..Retries
    BY <2>1, Constants DEF Model
  <2>3. AfterGroup(k) = Routing(k.ask, Fallback(k.model), Retries)
    BY <1>2 DEF AfterGroup
  <2> QED
    BY <2>2, <2>3, RoutingIs
<1> QED
  BY <1>1, <1>2

\* An attempt that failed, the same.
LEMMA AfterFailureIs ==
    ASSUME NEW k, k.ask \in Ask, k.model \in Model, k.left \in 0..Retries
    PROVE  AfterFailure(k) \in Call
<1>1. CASE k.left > 0
  <2>1. k.left - 1 \in 0..Retries
    BY <1>1, Constants
  <2> QED
    BY <1>1, <2>1, RoutingIs DEF AfterFailure
<1>2. CASE ~(k.left > 0)
  BY <1>2, AfterGroupIs DEF AfterFailure
<1> QED
  BY <1>1, <1>2

\* What the strategy is asked of a call that is routed.
LEMMA AskedIs ==
    ASSUME TypeOK, NEW c \in Client, call[c].phase = "routing"
    PROVE  /\ call[c] \in RoutingCall
           /\ Asked(c).model = call[c].model /\ Asked(c).hint = call[c].ask.hint
           /\ Threshold(Asked(c)) \in Nat
<1>1. call[c] \in RoutingCall
  BY Phases DEF TypeOK
<1>2. /\ call[c].model \in Model
      /\ call[c].ask \in [model : Squad \cup {"auto"}, hint : Squad \cup {"none"},
                         complexity : STRING, tokens : Nat]
  BY <1>1, GatewayAssumption DEF RoutingCall
<1>3. Asked(c).model = call[c].model /\ Asked(c).hint = call[c].ask.hint
  BY <1>2 DEF Asked
<1>4. ChosenSquad(Asked(c)) \in Squad
  BY <1>2, <1>3, SquadChosen
<1> QED
  BY <1>1, <1>3, <1>4, Constants DEF Threshold

\* A selection: the deployment, what it did to the load, and that it was the best one.
LEMMA SelectIs ==
    ASSUME TypeOK, NEW c \in Client, Select(c)
    PROVE  /\ call[c] \in RoutingCall
           /\ \E d \in Usable(Asked(c), cooling) \cap Deployment :
                  /\ recent' = Record(recent, d)
                  /\ call' = [call EXCEPT ![c] =
                         [phase |-> "sent", ask |-> @.ask, model |-> @.model,
                          left |-> @.left, at |-> d]]
                  /\ Load(recent, d) >= Threshold(Asked(c)) =>
                         \A e \in Usable(Asked(c), cooling) :
                             Load(recent, e) >= Load(recent, d)
<1> DEFINE d == SelectDeployment(Asked(c), Hash[c], recent, cooling)
<1>1. call[c] \in RoutingCall /\ Members(Asked(c).model) # {} /\ Threshold(Asked(c)) \in Nat
  BY AskedIs DEF Select
<1>2. Hash[c] \in Nat /\ recent \in Nodes
  BY Constants DEF TypeOK, Nodes
<1>3. /\ d \in Usable(Asked(c), cooling) /\ d \in Deployment
      /\ Load(recent, d) >= Threshold(Asked(c)) =>
             \A e \in Usable(Asked(c), cooling) : Load(recent, e) >= Load(recent, d)
  BY <1>1, <1>2, SelectedIs
<1>4. /\ recent' = Record(recent, d)
      /\ call' = [call EXCEPT ![c] =
             [phase |-> "sent", ask |-> @.ask, model |-> @.model, left |-> @.left, at |-> d]]
  BY DEF Select
<1> HIDE DEF d
<1> QED
  BY <1>1, <1>3, <1>4

\* A fresh gateway.
LEMMA InitType == Init => TypeOK
<1> SUFFICES ASSUME Init PROVE TypeOK
  OBVIOUS
<1>1. call \in [Client -> Call]
  BY DEF Init, Call
<1>2. recent \in [Deployment -> [Age -> Nat]]
  BY DEF Init, NoSelection
<1> QED
  BY <1>1, <1>2, Constants DEF Init, TypeOK

\* A call more, within the bound on all of them.
LEMMA SendType == ASSUME TypeOK, NEW c \in Client, NEW a \in Ask, Send(c, a) PROVE TypeOK'
<1>1. turns \in [Client -> Nat]
  BY DEF TypeOK
<1>2. Sum(turns, Client) < Turns
  BY DEF Send, Sum
<1>3. turns[c] <= Sum(turns, Client) /\ Sum(turns, Client) \in Nat
  BY <1>1, Constants, SumAbove, SumGrows
<1>4. turns[c] + 1 \in 0..Turns
  BY <1>1, <1>2, <1>3, Constants
<1>5. turns' \in [Client -> 0..Turns]
  BY <1>4 DEF Send, TypeOK
<1>6. Routing(a, a.model, Retries) \in Call
  <2>1. a.model \in Model /\ Retries \in 0..Retries
    BY GatewayAssumption, Constants DEF Model
  <2> QED
    BY <2>1, RoutingIs
<1>7. call' \in [Client -> Call]
  BY <1>6 DEF Send, TypeOK
<1> QED
  BY <1>5, <1>7 DEF Send, TypeOK

\* A selection more.
LEMMA SelectType == ASSUME TypeOK, NEW c \in Client, Select(c) PROVE TypeOK'
<1>1. PICK d \in Deployment :
          /\ recent' = Record(recent, d)
          /\ call' = [call EXCEPT ![c] =
                 [phase |-> "sent", ask |-> @.ask, model |-> @.model, left |-> @.left,
                  at |-> d]]
  BY SelectIs
<1>2. recent' \in [Deployment -> [Age -> Nat]]
  <2>1. recent \in Nodes
    BY DEF TypeOK, Nodes
  <2>2. Record(recent, d) \in Nodes
    BY <2>1, LoadIs
  <2> QED
    BY <1>1, <2>2 DEF Nodes
<1> DEFINE sent == [phase |-> "sent", ask |-> call[c].ask, model |-> call[c].model,
                    left |-> call[c].left, at |-> d]
<1>3. sent \in Call
  <2>1. call[c] \in RoutingCall
    BY SelectIs
  <2> QED
    BY <2>1 DEF RoutingCall, Call
<1>4. call' = [call EXCEPT ![c] = sent]
  BY <1>1
<1> HIDE DEF sent
<1>5. call' \in [Client -> Call]
  BY <1>3, <1>4 DEF TypeOK
<1> QED
  BY <1>2, <1>5 DEF Select, TypeOK

\* No deployment to try.
LEMMA SelectNoneType == ASSUME TypeOK, NEW c \in Client, SelectNone(c) PROVE TypeOK'
<1>1. call[c] \in RoutingCall
  BY AskedIs DEF SelectNone
<1>2. AfterGroup(call[c]) \in Call
  BY <1>1, AfterGroupIs DEF RoutingCall
<1> QED
  BY <1>2 DEF SelectNone, TypeOK

\* A cool-down.
LEMMA FailType == ASSUME TypeOK, NEW c \in Client, Fail(c) PROVE TypeOK'
<1>1. call[c] \in SentCall
  BY Phases DEF Fail, TypeOK
<1>2. AfterFailure(call[c]) \in Call
  BY <1>1, AfterFailureIs DEF SentCall
<1>3. call' \in [Client -> Call]
  BY <1>2 DEF Fail, TypeOK
<1>4. cooling' \in [Deployment -> 0..Cooldown]
  <2>1. Cooldown \in 0..Cooldown
    BY Constants
  <2> QED
    BY <2>1 DEF Fail, TypeOK
<1> QED
  BY <1>3, <1>4 DEF Fail, TypeOK

\* Selections grow older and cool-downs shorter, the last of them down to zero.
LEMMA TickType == ASSUME TypeOK, Tick PROVE TypeOK'
<1>1. recent' \in [Deployment -> [Age -> Nat]]
  <2>1. ASSUME NEW d \in Deployment, NEW a \in Age
        PROVE  (IF a = 0 THEN 0 ELSE recent[d][a - 1]) \in Nat
    <3>1. CASE a = 0
      BY <3>1
    <3>2. CASE a # 0
      <4>1. a - 1 \in Age
        BY <3>2, Constants DEF Age
      <4> QED
        BY <3>2, <4>1 DEF TypeOK
    <3> QED
      BY <3>1, <3>2
  <2> QED
    BY <2>1 DEF Tick, Older
<1>2. ASSUME NEW d \in Deployment PROVE Max({cooling[d] - 1, 0}) \in 0..Cooldown
  <2>1. cooling[d] \in 0..Cooldown
    BY DEF TypeOK
  <2>2. \E x \in {cooling[d] - 1, 0} : \A y \in {cooling[d] - 1, 0} : x >= y
    BY <2>1, Constants
  <2>3. /\ Max({cooling[d] - 1, 0}) \in {cooling[d] - 1, 0}
        /\ Max({cooling[d] - 1, 0}) >= 0
    BY <2>2 DEF Max
  <2> QED
    BY <2>1, <2>3, Constants
<1> QED
  BY <1>1, <1>2 DEF Tick, TypeOK

\* Every step keeps the types.
LEMMA NextType == TypeOK /\ [Next]_vars => TypeOK'
<1> SUFFICES ASSUME TypeOK, [Next]_vars PROVE TypeOK'
  OBVIOUS
<1>1. ASSUME NEW c \in Client, Answer(c) PROVE TypeOK'
  <2>1. NoCall \in Call
    BY DEF Call
  <2> QED
    BY <1>1, <2>1 DEF Answer, TypeOK
<1>2. CASE Restart
  <2>1. NoCall \in Call
    BY DEF Call
  <2> QED
    BY <1>2, <2>1, Constants DEF Restart, NoSelection, TypeOK
<1>3. CASE UNCHANGED vars
  BY <1>3 DEF vars, TypeOK
<1> QED
  BY <1>1, <1>2, <1>3, SendType, SelectType, SelectNoneType, FailType, TickType DEF Next

\* Only a selection of its own sends a client's call.
LEMMA OnlySelects ==
    ASSUME TypeOK, Next, NEW c \in Client, Selects(c)
    PROVE  Select(c)
<1>1. call[c].phase = "routing" /\ call'[c].phase = "sent" /\ call[c] \in Call
      /\ call \in [Client -> Call]
  BY DEF Selects, TypeOK
<1>2. ASSUME NEW k \in Client, NEW a \in Ask, Send(k, a) PROVE FALSE
  <2>1. k # c /\ call' = [call EXCEPT ![k] = Routing(a, a.model, Retries)]
    BY <1>1, <1>2 DEF Send
  <2> QED
    BY <1>1, <2>1
<1>3. ASSUME NEW k \in Client, SelectNone(k) PROVE FALSE
  <2>1. call[k] \in RoutingCall /\ call' = [call EXCEPT ![k] = AfterGroup(call[k])]
    BY <1>3, AskedIs DEF SelectNone
  <2>2. AfterGroup(call[k]).phase # "sent"
    BY <2>1, AfterGroupIs DEF RoutingCall
  <2> QED
    BY <1>1, <2>1, <2>2
<1>4. ASSUME NEW k \in Client, Fail(k) PROVE FALSE
  <2>1. k # c /\ call' = [call EXCEPT ![k] = AfterFailure(call[k])]
    BY <1>1, <1>4 DEF Fail
  <2> QED
    BY <1>1, <2>1
<1>5. ASSUME NEW k \in Client, Answer(k) PROVE FALSE
  <2>1. k # c /\ call' = [call EXCEPT ![k] = NoCall]
    BY <1>1, <1>5 DEF Answer
  <2> QED
    BY <1>1, <2>1
<1>6. CASE Tick
  BY <1>1, <1>6 DEF Tick
<1>7. CASE Restart
  BY <1>1, <1>7 DEF Restart, NoCall
<1>8. ASSUME NEW k \in Client, Select(k), k # c PROVE FALSE
  <2>1. \E v : call' = [call EXCEPT ![k] = v]
    BY <1>8 DEF Select
  <2> QED
    BY <1>1, <1>8, <2>1
<1> QED
  BY <1>2, <1>3, <1>4, <1>5, <1>6, <1>7, <1>8 DEF Next

-----------------------------------------------------------------------------
(* The theorems.                                                            *)

\* Every variable of the gateway always has its type: no client sends more calls than the
\* bound, however many clients there are, and no call has a retry too many.
THEOREM GatewayTypes == Spec => []TypeOK
  BY InitType, NextType, PTL DEF Spec

\* The class comment's "route around a downed node": where the router returns ids, no
\* attempt goes to a deployment that cools down while another of the squad is up.
THEOREM DownNodesAvoided == CooldownShape = "ids" => (Spec => RoutedAround)
<1> SUFFICES ASSUME CooldownShape = "ids" PROVE Spec => RoutedAround
  OBVIOUS
<1>1. TypeOK /\ [Next]_vars =>
          [\A c \in Client : Selects(c) =>
               \/ cooling[call'[c].at] = 0
               \/ \A d \in Candidates(Asked(c)) : cooling[d] > 0]_vars
  <2> SUFFICES ASSUME TypeOK, Next, NEW c \in Client, Selects(c)
               PROVE  \/ cooling[call'[c].at] = 0
                      \/ \A d \in Candidates(Asked(c)) : cooling[d] > 0
    OBVIOUS
  <2>1. PICK d \in Usable(Asked(c), cooling) \cap Deployment :
            call' = [call EXCEPT ![c] =
                [phase |-> "sent", ask |-> @.ask, model |-> @.model, left |-> @.left,
                 at |-> d]]
    BY OnlySelects, SelectIs
  <2>2. call'[c].at = d
    BY <2>1 DEF TypeOK
  <2>3. Unhealthy(cooling) = {e \in Deployment : cooling[e] > 0}
    BY DEF Unhealthy
  <2>4. cooling[d] \in 0..Cooldown
    BY DEF TypeOK
  <2>5. CASE Candidates(Asked(c)) \ Unhealthy(cooling) # {}
    <3>1. d \notin Unhealthy(cooling)
      BY <2>5 DEF Usable
    <3> QED
      BY <2>2, <2>3, <2>4, <3>1, Constants
  <2>6. CASE Candidates(Asked(c)) \ Unhealthy(cooling) = {}
    BY <2>3, <2>6
  <2> QED
    BY <2>5, <2>6
<1> QED
  BY InitType, NextType, <1>1, PTL DEF Spec, RoutedAround

\* select_deployment: when a selection lifts a deployment above what its squad bears, all
\* it could have gone to were as loaded, for any clients, deployments and prompts.
THEOREM LoadSpread == Spec => NoDogpile
<1>1. TypeOK /\ [Next]_vars =>
          [\A c \in Client : Selects(c) =>
               LET d == call'[c].at IN
               Load(recent', d) > Threshold(Asked(c)) =>
                   \A e \in Usable(Asked(c), cooling) :
                       Load(recent, e) >= Load(recent, d)]_vars
  <2> SUFFICES ASSUME TypeOK, Next, NEW c \in Client, Selects(c),
                      Load(recent', call'[c].at) > Threshold(Asked(c)),
                      NEW e \in Usable(Asked(c), cooling)
               PROVE  Load(recent, e) >= Load(recent, call'[c].at)
    OBVIOUS
  <2>1. PICK d \in Usable(Asked(c), cooling) \cap Deployment :
            /\ recent' = Record(recent, d)
            /\ call' = [call EXCEPT ![c] =
                   [phase |-> "sent", ask |-> @.ask, model |-> @.model, left |-> @.left,
                    at |-> d]]
            /\ Load(recent, d) >= Threshold(Asked(c)) =>
                   Load(recent, e) >= Load(recent, d)
    BY OnlySelects, SelectIs
  <2>2. call'[c].at = d
    BY <2>1 DEF TypeOK
  <2>3. recent \in Nodes /\ Threshold(Asked(c)) \in Nat
    BY AskedIs DEF TypeOK, Nodes, Selects
  <2>4. Load(recent, d) \in Nat /\ Load(recent', d) = Load(recent, d) + 1
    BY <2>1, <2>3, LoadIs
  <2> QED
    BY <2>1, <2>2, <2>3, <2>4
<1> QED
  BY InitType, NextType, <1>1, PTL DEF Spec, NoDogpile

-----------------------------------------------------------------------------
(***************************************************************************)
(* The account of the calls.                                               *)
(***************************************************************************)
LedgerRecord == [squad : LedgerSquad, billing : Billing, tokens : Nat]

(***************************************************************************)
(* The strengthening of NudgesSpaced: while fewer than NudgeGap records    *)
(* came since the sums behind a client's last nudge, the ledger cannot     *)
(* have grown further than they carry it, nor can the sums the client was  *)
(* sent since.  The ledger may outgrow those only by the records since.    *)
(* A reset or a restart only shortens it.                                  *)
(***************************************************************************)
Behind == \A c \in PiProcess : since[c] < NudgeGap => Len(ledger) - advisedAt[c] <= since[c]
SumsBehind ==
    \A c \in PiProcess : hook[c].phase = "sent" =>
        /\ hook[c].span < NudgeGap => hook[c].calls - advisedAt[c] <= hook[c].span
        /\ hook[c].later < NudgeGap => Len(ledger) - hook[c].calls <= hook[c].later

UsageInv == UsageTypeOK /\ Behind /\ SumsBehind

-----------------------------------------------------------------------------
\* What the constants are.
LEMMA UsageConstants ==
    /\ NudgeGap \in Nat \ {0} /\ MaxRecords \in Nat \ {0}
    /\ \A d \in Upstream : Info[d] \in [squad : STRING, declared : STRING, private : BOOLEAN]
  BY UsageAssumption, LedgerAssumption

\* The sums count the records of the ledger.
LEMMA CallsCounted == \A records : Summarize(records).calls = Len(records)
  BY DEF Summarize

\* What a call leaves in the ledger is a record.
LEMMA RecordsAreRecords ==
    ErrorRecord \in LedgerRecord /\ \A d \in Upstream : RecordFrom(Info[d]) \in LedgerRecord
<1>1. \A d \in Upstream : ClassifyBilling(Info[d]) \in Billing
  BY DEF ClassifyBilling, Billing
<1>2. \A d \in Upstream : RecordFrom(Info[d]) \in LedgerRecord
  <2> SUFFICES ASSUME NEW d \in Upstream PROVE RecordFrom(Info[d]) \in LedgerRecord
    OBVIOUS
  <2>1. Info[d].squad \in LedgerSquad /\ ClassifyBilling(Info[d]) \in Billing /\ 1 \in Nat
    BY <1>1 DEF LedgerSquad
  <2> QED
    BY <2>1 DEF RecordFrom, LedgerRecord
<1>3. ErrorRecord \in LedgerRecord
  BY DEF ErrorRecord, LedgerRecord, Billing, LedgerSquad
<1> QED
  BY <1>2, <1>3

\* The smaller of two numbers.
LEMMA Smaller ==
    ASSUME NEW a \in Int, NEW b \in Int
    PROVE  Min({a, b}) = IF a <= b THEN a ELSE b
  BY DEF Min

\* A record more, unless the oldest one makes room for it.
LEMMA AddedLength ==
    ASSUME NEW records \in Seq(LedgerRecord), NEW rec \in LedgerRecord,
           Len(records) <= MaxRecords
    PROVE  /\ Added(records, rec) \in Seq(LedgerRecord)
           /\ Len(Added(records, rec)) <= MaxRecords
           /\ Len(Added(records, rec)) <= Len(records) + 1
<1> DEFINE all == Append(records, rec)
<1>1. all \in Seq(LedgerRecord) /\ Len(all) = Len(records) + 1 /\ Len(records) \in Nat
  OBVIOUS
<1>2. CASE Len(all) > MaxRecords
  <2>1. Len(all) = MaxRecords + 1 /\ Len(all) - MaxRecords + 1 = 2
    BY <1>1, <1>2, UsageConstants
  <2>2. /\ SubSeq(all, 2, Len(all)) \in Seq(LedgerRecord)
        /\ Len(SubSeq(all, 2, Len(all))) = MaxRecords
    BY <1>1, <2>1, UsageConstants
  <2>3. Added(records, rec) = SubSeq(all, 2, Len(all))
    BY <1>2, <2>1 DEF Added
  <2> QED
    BY <1>1, <2>1, <2>2, <2>3, UsageConstants
<1>3. CASE ~(Len(all) > MaxRecords)
  <2>1. Added(records, rec) = all
    BY <1>3 DEF Added
  <2> QED
    BY <1>1, <1>3, <2>1, UsageConstants
<1> QED
  BY <1>2, <1>3

\* A record more is counted up to NudgeGap.
LEMMA OneMoreIs ==
    ASSUME NEW n \in 0..NudgeGap
    PROVE  /\ OneMore(n) \in 0..NudgeGap
           /\ OneMore(n) < NudgeGap => n < NudgeGap /\ OneMore(n) = n + 1
<1>1. OneMore(n) = IF n + 1 <= NudgeGap THEN n + 1 ELSE NudgeGap
  BY Smaller, UsageConstants DEF OneMore
<1> QED
  BY <1>1, UsageConstants

\* A hook that has the sums.
LEMMA SumsAre ==
    ASSUME NEW h \in {Idle, Polling} \cup Sums
    PROVE  h.phase = "sent" <=> h \in Sums
  BY DEF Idle, Polling, Sums

\* A fresh gateway and fresh clients.
LEMMA UsageInitInv == UsageInit => UsageInv
<1> SUFFICES ASSUME UsageInit PROVE UsageInv
  OBVIOUS
<1>1. UsageTypeOK
  BY UsageConstants DEF UsageInit, UsageTypeOK, LedgerRecord
<1>2. Behind /\ SumsBehind
  BY UsageConstants DEF UsageInit, Behind, SumsBehind, Idle
<1> QED
  BY <1>1, <1>2 DEF UsageInv

\* The sums are those of the ledger.
LEMMA PollStep == ASSUME UsageInv, NEW c \in PiProcess, Poll(c) PROVE UsageInv'
<1>1. UNCHANGED <<body, ledger, advisedAt, since>>
  BY DEF Poll
<1>2. Len(ledger) \in 0..MaxRecords /\ since[c] \in 0..NudgeGap
  BY DEF UsageInv, UsageTypeOK
<1>3. PICK h : /\ hook' = [hook EXCEPT ![c] = h]
               /\ \/ h = Idle
                  \/ /\ h \in Sums /\ h.calls = Len(ledger)
                     /\ h.span = since[c] /\ h.later = 0
  <2>1. CASE hook' = [hook EXCEPT ![c] = Idle]
    BY <2>1
  <2>2. CASE hook' # [hook EXCEPT ![c] = Idle]
    <3>1. PICK n, w : n = Summarize(ledger).calls /\ w = (ComputeAdvice(Summarize(ledger)) = "warn")
      OBVIOUS
    <3>2. PICK s : s = [phase |-> "sent", calls |-> n, warn |-> w, span |-> since[c], later |-> 0]
      OBVIOUS
    <3>3. hook' = [hook EXCEPT ![c] = s]
      BY <2>2, <3>1, <3>2 DEF Poll
    <3>4. n = Len(ledger) /\ w \in BOOLEAN
      BY <3>1, CallsCounted
    <3>5. s \in Sums /\ s.calls = n /\ s.span = since[c] /\ s.later = 0
      BY <1>2, <3>2, <3>4, UsageConstants DEF Sums
    <3> QED
      BY <3>3, <3>4, <3>5
  <2> QED
    BY <2>1, <2>2
<1>4. UsageTypeOK'
  BY <1>1, <1>3 DEF UsageInv, UsageTypeOK
<1>5. Behind'
  BY <1>1 DEF UsageInv, Behind
<1>6. SumsBehind'
  <2> SUFFICES ASSUME NEW k \in PiProcess, hook'[k].phase = "sent"
               PROVE  /\ hook'[k].span < NudgeGap => hook'[k].calls - advisedAt[k] <= hook'[k].span
                      /\ hook'[k].later < NudgeGap => Len(ledger) - hook'[k].calls <= hook'[k].later
    BY <1>1 DEF SumsBehind
  <2>1. CASE k = c
    <3>1. hook'[k] = h /\ h # Idle
      BY <1>3, <2>1 DEF UsageInv, UsageTypeOK, Idle
    <3> QED
      BY <1>2, <1>3, <2>1, <3>1 DEF UsageInv, Behind
  <2>2. CASE k # c
    BY <1>3, <2>2 DEF UsageInv, UsageTypeOK, SumsBehind
  <2> QED
    BY <2>1, <2>2
<1> QED
  BY <1>4, <1>5, <1>6 DEF UsageInv

\* A nudge comes when the sums have grown by NudgeGap, and starts a new count from them.
LEMMA AdviseStep == ASSUME UsageInv, NEW c \in PiProcess, Advise(c) PROVE UsageInv'
<1>1. /\ UNCHANGED <<body, ledger>> /\ hook' = [hook EXCEPT ![c] = Idle]
      /\ hook[c].phase = "sent"
  BY DEF Advise
<1>2. hook[c] \in Sums
  BY <1>1, SumsAre DEF UsageInv, UsageTypeOK
<1>3. hook[c].calls \in 0..MaxRecords /\ hook[c].later \in 0..NudgeGap
  BY <1>2 DEF Sums
<1>4. CASE UNCHANGED <<advisedAt, since>>
  BY <1>1, <1>4 DEF UsageInv, UsageTypeOK, Behind, SumsBehind, Idle
<1>5. CASE /\ advisedAt' = [advisedAt EXCEPT ![c] = hook[c].calls]
           /\ since' = [since EXCEPT ![c] = hook[c].later]
  <2>1. UsageTypeOK'
    BY <1>1, <1>3, <1>5 DEF UsageInv, UsageTypeOK
  <2>2. Behind'
    BY <1>1, <1>5 DEF UsageInv, UsageTypeOK, Behind, SumsBehind
  <2>3. SumsBehind'
    BY <1>1, <1>5 DEF UsageInv, UsageTypeOK, SumsBehind, Idle
  <2> QED
    BY <2>1, <2>2, <2>3 DEF UsageInv
<1> QED
  BY <1>4, <1>5 DEF Advise

\* A record more in the ledger is one more since every client's last nudge and every sums.
LEMMA BodyStep == ASSUME UsageInv, NEW c \in PiProcess, NEW kind, Body(c, kind) PROVE UsageInv'
<1>1. /\ body' = [body EXCEPT ![c] = Gone] /\ advisedAt' = advisedAt
      /\ body[c] # Gone /\ (kind = "error" <=> body[c] = Nobody)
  BY DEF Body
<1>2. body' \in [PiProcess -> Upstream \cup {Nobody, Gone}]
  BY <1>1 DEF UsageInv, UsageTypeOK
<1>3. CASE UNCHANGED <<ledger, since, hook>>
  BY <1>1, <1>2, <1>3 DEF UsageInv, UsageTypeOK, Behind, SumsBehind
<1>4. CASE Captured(kind)
  <2> DEFINE rec == IF kind = "error" THEN ErrorRecord ELSE RecordFrom(Info[body[c]])
  <2>1. /\ ledger' = Added(ledger, rec)
        /\ since' = [k \in PiProcess |-> OneMore(since[k])]
        /\ hook' = [k \in PiProcess |-> IF hook[k].phase = "sent"
                                        THEN [hook[k] EXCEPT !.later = OneMore(@)]
                                        ELSE hook[k]]
    BY <1>4 DEF Body
  <2>2. rec \in LedgerRecord
    <3>1. body[c] \in Upstream \cup {Nobody}
      BY <1>1 DEF UsageInv, UsageTypeOK
    <3> QED
      BY <1>1, <3>1, RecordsAreRecords
  <2>3. /\ ledger' \in Seq(LedgerRecord) /\ Len(ledger') <= MaxRecords
        /\ Len(ledger') <= Len(ledger) + 1
    BY <2>1, <2>2, AddedLength DEF UsageInv, UsageTypeOK, LedgerRecord
  <2>4. ASSUME NEW k \in PiProcess
        PROVE  /\ since'[k] \in 0..NudgeGap
               /\ since'[k] < NudgeGap => since[k] < NudgeGap /\ since'[k] = since[k] + 1
    <3>1. since[k] \in 0..NudgeGap /\ since'[k] = OneMore(since[k])
      BY <2>1 DEF UsageInv, UsageTypeOK
    <3> QED
      BY <3>1, OneMoreIs
  <2>5. ASSUME NEW k \in PiProcess, hook[k].phase = "sent"
        PROVE  /\ hook[k] \in Sums /\ hook'[k] \in Sums
               /\ hook'[k].calls = hook[k].calls /\ hook'[k].span = hook[k].span
               /\ hook'[k].later < NudgeGap =>
                      hook[k].later < NudgeGap /\ hook'[k].later = hook[k].later + 1
    <3>1. hook[k] \in Sums
      BY <2>5, SumsAre DEF UsageInv, UsageTypeOK
    <3>2. hook'[k] = [hook[k] EXCEPT !.later = OneMore(hook[k].later)]
      BY <2>1, <2>5
    <3>3. hook[k].later \in 0..NudgeGap
      BY <3>1 DEF Sums
    <3>4. PICK n : n = OneMore(hook[k].later)
      OBVIOUS
    <3>5. /\ n \in 0..NudgeGap
          /\ n < NudgeGap => hook[k].later < NudgeGap /\ n = hook[k].later + 1
      BY <3>3, <3>4, OneMoreIs
    <3>6. hook'[k] = [hook[k] EXCEPT !.later = n]
      BY <3>2, <3>4
    <3> QED
      BY <3>1, <3>5, <3>6 DEF Sums
  <2>6. ASSUME NEW k \in PiProcess, hook[k].phase # "sent" PROVE hook'[k] = hook[k]
    BY <2>1, <2>6
  <2>7. UsageTypeOK'
    <3>1. since' \in [PiProcess -> 0..NudgeGap]
      BY <2>1, <2>4
    <3>2. hook' \in [PiProcess -> {Idle, Polling} \cup Sums]
      <4>1. ASSUME NEW k \in PiProcess PROVE hook'[k] \in {Idle, Polling} \cup Sums
        BY <2>5, <2>6 DEF UsageInv, UsageTypeOK
      <4> QED
        BY <2>1, <4>1
    <3> QED
      BY <1>1, <1>2, <2>3, <3>1, <3>2 DEF UsageInv, UsageTypeOK, LedgerRecord
  <2>8. PICK m \in Nat, n \in Nat : m = Len(ledger) /\ n = Len(ledger') /\ n <= m + 1
    BY <2>3 DEF UsageInv, UsageTypeOK
  <2>9. Behind'
    <3> SUFFICES ASSUME NEW k \in PiProcess, since'[k] < NudgeGap
                 PROVE  Len(ledger') - advisedAt[k] <= since'[k]
      BY <1>1 DEF Behind
    <3>1. since[k] \in 0..NudgeGap /\ advisedAt[k] \in Nat
      BY DEF UsageInv, UsageTypeOK
    <3>2. since[k] < NudgeGap /\ since'[k] = since[k] + 1
      BY <2>4
    <3>3. m - advisedAt[k] <= since[k]
      BY <2>8, <3>2 DEF UsageInv, Behind
    <3>4. n - advisedAt[k] <= since'[k]
      BY <2>8, <3>1, <3>2, <3>3, UsageConstants
    <3> QED
      BY <2>8, <3>4
  <2>10. SumsBehind'
    <3> SUFFICES ASSUME NEW k \in PiProcess, hook'[k].phase = "sent"
                 PROVE  /\ hook'[k].span < NudgeGap => hook'[k].calls - advisedAt[k] <= hook'[k].span
                        /\ hook'[k].later < NudgeGap => Len(ledger') - hook'[k].calls <= hook'[k].later
      BY <1>1 DEF SumsBehind
    <3>1. hook[k].phase = "sent"
      BY <2>6
    <3>2. /\ hook[k].span < NudgeGap => hook[k].calls - advisedAt[k] <= hook[k].span
          /\ hook[k].later < NudgeGap => Len(ledger) - hook[k].calls <= hook[k].later
      BY <3>1 DEF UsageInv, SumsBehind
    <3>3. hook[k].calls \in Nat /\ hook[k].later \in Nat
      BY <2>5, <3>1 DEF Sums
    <3>4. hook'[k].later < NudgeGap => n - hook'[k].calls <= hook'[k].later
      BY <2>5, <2>8, <3>1, <3>2, <3>3, UsageConstants
    <3> QED
      BY <2>5, <2>8, <3>1, <3>2, <3>4
  <2> QED
    BY <2>7, <2>9, <2>10 DEF UsageInv
<1> QED
  BY <1>3, <1>4 DEF Body

\* An emptied ledger is behind every client's last nudge, and behind the sums it was sent.
LEMMA EmptiedStep ==
    ASSUME UsageInv, ledger' = <<>>, body' \in [PiProcess -> Upstream \cup {Nobody, Gone}],
           UNCHANGED <<hook, advisedAt, since>>
    PROVE  UsageInv'
<1>1. UsageTypeOK'
  BY UsageConstants DEF UsageInv, UsageTypeOK
<1>2. Behind'
  BY UsageConstants DEF UsageInv, UsageTypeOK, Behind
<1>3. SumsBehind'
  <2> SUFFICES ASSUME NEW k \in PiProcess, hook[k].phase = "sent"
               PROVE  /\ hook[k].span < NudgeGap => hook[k].calls - advisedAt[k] <= hook[k].span
                      /\ Len(ledger') - hook[k].calls <= hook[k].later
    BY DEF SumsBehind
  <2>1. hook[k] \in Sums
    BY SumsAre DEF UsageInv, UsageTypeOK
  <2>2. hook[k].calls \in Nat /\ hook[k].later \in Nat
    BY <2>1 DEF Sums
  <2>3. Len(ledger') = 0
    OBVIOUS
  <2> QED
    BY <2>2, <2>3 DEF UsageInv, SumsBehind
<1> QED
  BY <1>1, <1>2, <1>3 DEF UsageInv

\* Every step keeps the invariant.
LEMMA UsageNextInv == UsageInv /\ [UsageNext]_usageVars => UsageInv'
<1> SUFFICES ASSUME UsageInv, [UsageNext]_usageVars PROVE UsageInv'
  OBVIOUS
<1>1. ASSUME NEW c \in PiProcess, Headers(c) PROVE UsageInv'
  BY <1>1 DEF Headers, UsageInv, UsageTypeOK, Behind, SumsBehind, Polling
<1>2. CASE Reset
  BY <1>2, EmptiedStep DEF Reset, UsageInv, UsageTypeOK
<1>3. CASE GatewayRestart
  BY <1>3, EmptiedStep DEF GatewayRestart
<1>4. CASE UNCHANGED usageVars
  BY <1>4 DEF usageVars, UsageInv, UsageTypeOK, Behind, SumsBehind
<1> QED
  BY <1>1, <1>2, <1>3, <1>4, PollStep, AdviseStep, BodyStep DEF UsageNext

\* The inductive invariant of the account.
THEOREM UsageInductive == UsageSpec => []UsageInv
  BY UsageInitInv, UsageNextInv, PTL DEF UsageSpec

\* Every variable has its type and the ledger its limit, for every configuration.
THEOREM LedgerTypes == UsageSpec => []UsageTypeOK
<1>1. UsageInv => UsageTypeOK
  BY DEF UsageInv
<1> QED
  BY <1>1, UsageInductive, PTL

\* Between the sums behind a client's nudge and those behind the one before, NudgeGap
\* records were added.
THEOREM NoNagging == UsageSpec => NudgesSpaced
<1>1. UsageInv /\ [UsageNext]_usageVars
          => [\A c \in PiProcess :
                  advisedAt'[c] # advisedAt[c] => hook[c].span = NudgeGap]_usageVars
  <2> SUFFICES ASSUME UsageInv, UsageNext, NEW c \in PiProcess, advisedAt'[c] # advisedAt[c]
               PROVE  hook[c].span = NudgeGap
    OBVIOUS
  <2>1. PICK k \in PiProcess : Advise(k) /\ advisedAt' # advisedAt
    BY DEF UsageNext, Headers, Poll, Body, Reset, GatewayRestart
  <2>2. k = c /\ Due(c) /\ hook[c].phase = "sent"
    BY <2>1 DEF Advise, UsageInv, UsageTypeOK
  <2>3. hook[c] \in Sums /\ advisedAt[c] \in Nat
    BY <2>2, SumsAre DEF UsageInv, UsageTypeOK
  <2>4. hook[c].calls \in Nat /\ hook[c].span \in 0..NudgeGap
    BY <2>3 DEF Sums
  <2>5. hook[c].calls - advisedAt[c] >= NudgeGap
    BY <2>2 DEF Due
  <2>6. hook[c].span < NudgeGap => hook[c].calls - advisedAt[c] <= hook[c].span
    BY <2>2 DEF UsageInv, SumsBehind
  <2> QED
    BY <2>3, <2>4, <2>5, <2>6, UsageConstants
<1> QED
  BY UsageInitInv, UsageNextInv, <1>1, PTL DEF UsageSpec, NudgesSpaced
=============================================================================
