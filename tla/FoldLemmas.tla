----------------------------- MODULE FoldLemmas -----------------------------
(* Induction over data.  The induction theorems of the library take an       *)
(* operator as a parameter; here induction is over a set of naturals, which  *)
(* is a value, and a fold is stated with its step as a function, so that     *)
(* the lemmas below are about values only.                                   *)
EXTENDS Integers, SequencesExt, SequenceTheorems, WellFoundedInduction, TLAPS

(* A set of naturals with 0 and with the successor of each of its members    *)
(* holds them all: else the least number outside it has a predecessor in it. *)
LEMMA NatSetInduction ==
  ASSUME NEW T \in SUBSET Nat, 0 \in T, \A n \in T : n + 1 \in T
  PROVE  T = Nat
<1> SUFFICES ASSUME T # Nat PROVE FALSE
  OBVIOUS
<1> DEFINE R == OpToRel(<, Nat)
           U == Nat \ T
<1>1. IsWellFoundedOn(R, Nat)
  BY NatLessThanWellFounded
<1>2. U \subseteq Nat /\ U # {}
  OBVIOUS
<1>3. \E x \in U : \A y \in U : ~ (<<y, x>> \in R)
  <2> HIDE DEF R, U
  <2> QED BY <1>1, <1>2, WFMin
<1>4. PICK x \in U : \A y \in U : ~ (<<y, x>> \in R)
  BY <1>3
<1>5. x \in Nat /\ x # 0 /\ x - 1 \in Nat
  OBVIOUS
<1>6. x - 1 \in U /\ <<x - 1, x>> \in R
  BY <1>5 DEF OpToRel
<1> QED BY <1>4, <1>6

(* A set of naturals that is not empty and has a bound has a largest member. *)
LEMMA MaxIs ==
  ASSUME NEW n \in Nat, NEW s \in SUBSET (1 .. n), s # {}
  PROVE  Max(s) \in s /\ \A y \in s : y <= Max(s)
<1> DEFINE T == {k \in Nat : \A t \in SUBSET (1 .. k) : t # {} => \E x \in t : \A y \in t : x >= y}
<1>1. 0 \in T
  <2>1. 1 .. 0 = {}
    OBVIOUS
  <2> QED BY <2>1
<1>2. ASSUME NEW k \in T PROVE k + 1 \in T
  <2> SUFFICES ASSUME NEW t \in SUBSET (1 .. k + 1), t # {}
               PROVE  \E x \in t : \A y \in t : x >= y
    OBVIOUS
  <2>1. CASE k + 1 \in t
    BY <2>1
  <2>2. CASE k + 1 \notin t
    <3>1. t \in SUBSET (1 .. k)
      BY <2>2
    <3> QED BY <3>1
  <2> QED BY <2>1, <2>2
<1>3. T = Nat
  <2> HIDE DEF T
  <2>1. T \in SUBSET Nat
    BY DEF T
  <2> QED BY <1>1, <1>2, <2>1, NatSetInduction
<1>4. \E x \in s : \A y \in s : x >= y
  BY <1>3
<1> QED BY <1>4 DEF Max

LEMMA MaxIsTop ==
  ASSUME NEW k \in Nat, NEW s \in SUBSET (1 .. k + 1), k + 1 \in s
  PROVE  Max(s) = k + 1
<1>1. k + 1 \in Nat /\ s # {}
  OBVIOUS
<1>2. Max(s) \in s /\ \A y \in s : y <= Max(s)
  BY <1>1, MaxIs
<1>3. Max(s) \in 1 .. k + 1 /\ k + 1 <= Max(s)
  BY <1>2
<1> QED BY <1>3

LEMMA MaxOfRange ==
  ASSUME NEW n \in Nat \ {0}
  PROVE  Max(1 .. n) = n /\ (1 .. n) \ {n} = 1 .. n - 1
<1>1. n \in Nat /\ 1 .. n \in SUBSET (1 .. n) /\ 1 .. n # {}
  OBVIOUS
<1>2. Max(1 .. n) \in 1 .. n /\ \A y \in 1 .. n : y <= Max(1 .. n)
  BY Zenon, <1>1, MaxIs
<1> QED BY <1>2

-----------------------------------------------------------------------------
(* The states a fold goes through: F is its step, a function of a state and  *)
(* an element; a is the state it begins in.                                  *)
IsTrail(F, a, w, v) == v[0] = a /\ \A i \in 1 .. Len(w) : v[i] = F[<<v[i - 1], w[i]>>]

Fold(F, a, w) == CHOOSE x : \E v : IsTrail(F, a, w, v) /\ x = v[Len(w)]

(* Two that begin the same and go on the same stay the same.                 *)
GoTogether(n, v, x) == v[0] = x[0] /\ \A i \in 1 .. n : v[i - 1] = x[i - 1] => v[i] = x[i]
Agree(n, v, x) == \A i \in 0 .. n : v[i] = x[i]

LEMMA SameTrail ==
  ASSUME NEW n \in Nat, NEW v, NEW x, GoTogether(n, v, x)
  PROVE  Agree(n, v, x)
<1> USE DEF GoTogether, Agree
<1> DEFINE T == {k \in Nat : k <= n => v[k] = x[k]}
<1>1. 0 \in T
  OBVIOUS
<1>2. ASSUME NEW k \in T PROVE k + 1 \in T
  OBVIOUS
<1>3. T = Nat
  <2> HIDE DEF T
  <2>1. T \in SUBSET Nat
    BY DEF T
  <2> QED BY <1>1, <1>2, <2>1, NatSetInduction
<1> QED BY <1>3

(* It is enough that the steps follow F from where it is defined.            *)
FollowsIn(S, F, a, w, v) ==
  v[0] = a /\ \A i \in 1 .. Len(w) : v[i - 1] \in S => v[i] = F[<<v[i - 1], w[i]>>]

LEMMA TrailType ==
  ASSUME NEW S, NEW E, NEW F \in [S \X E -> S], NEW a \in S, NEW w \in Seq(E), NEW v,
         FollowsIn(S, F, a, w, v)
  PROVE  IsTrail(F, a, w, v) /\ \A i \in 0 .. Len(w) : v[i] \in S
<1> USE DEF FollowsIn
<1> DEFINE T == {k \in Nat : k <= Len(w) => v[k] \in S}
<1>1. 0 \in T
  OBVIOUS
<1>2. ASSUME NEW k \in T PROVE k + 1 \in T
  <2> SUFFICES ASSUME k + 1 <= Len(w) PROVE v[k + 1] \in S
    OBVIOUS
  <2>1. k + 1 \in 1 .. Len(w) /\ v[k] \in S
    OBVIOUS
  <2>2. v[k + 1] = F[<<v[k], w[k + 1]>>] /\ w[k + 1] \in E
    BY <2>1
  <2> QED BY <2>1, <2>2
<1>3. T = Nat
  <2> HIDE DEF T
  <2>1. T \in SUBSET Nat
    BY DEF T
  <2> QED BY <1>1, <1>2, <2>1, NatSetInduction
<1>4. \A i \in 0 .. Len(w) : v[i] \in S
  BY <1>3
<1> QED BY <1>4 DEF IsTrail

(* What is folded: elements of E, through states of S.                       *)
Foldable(S, E, F, a, w) == F \in [S \X E -> S] /\ a \in S /\ w \in Seq(E)

(* What every trail ends in is the fold.                                     *)
LEMMA FoldIsEnd ==
  ASSUME NEW S, NEW E, NEW F, NEW a, NEW w, NEW v,
         Foldable(S, E, F, a, w), IsTrail(F, a, w, v)
  PROVE  Fold(F, a, w) = v[Len(w)] /\ Fold(F, a, w) \in S
<1> USE DEF Foldable
<1>1. \A x : IsTrail(F, a, w, x) => x[Len(w)] = v[Len(w)]
  <2> SUFFICES ASSUME NEW x, IsTrail(F, a, w, x) PROVE x[Len(w)] = v[Len(w)]
    OBVIOUS
  <2>1. GoTogether(Len(w), v, x)
    BY DEF IsTrail, GoTogether
  <2>2. Len(w) \in Nat
    BY LenProperties
  <2>3. Agree(Len(w), v, x)
    BY <2>1, <2>2, SameTrail
  <2> QED BY <2>2, <2>3 DEF Agree
<1>2. Fold(F, a, w) = v[Len(w)]
  BY <1>1 DEF Fold
<1>3. FollowsIn(S, F, a, w, v)
  BY DEF IsTrail, FollowsIn
<1>4. \A i \in 0 .. Len(w) : v[i] \in S
  BY <1>3, TrailType
<1>5. Len(w) \in Nat
  BY LenProperties
<1> QED BY <1>2, <1>4, <1>5

LEMMA TrailExists ==
  ASSUME NEW S, NEW E, NEW F \in [S \X E -> S], NEW a \in S, NEW w \in Seq(E)
  PROVE  \E v : IsTrail(F, a, w, v)
<1> DEFINE Upto(k, v) == v[0] = a /\ \A i \in 1 .. k : v[i] = F[<<v[i - 1], w[i]>>]
           T == {k \in Nat : k <= Len(w) => \E v : Upto(k, v)}
<1>1. 0 \in T
  <2>1. Upto(0, [i \in 0 .. 0 |-> a])
    OBVIOUS
  <2> QED BY <2>1
<1>2. ASSUME NEW k \in T PROVE k + 1 \in T
  <2> SUFFICES ASSUME k + 1 <= Len(w) PROVE \E v : Upto(k + 1, v)
    OBVIOUS
  <2>1. PICK v : Upto(k, v)
    OBVIOUS
  <2> DEFINE x == [i \in 0 .. k + 1 |-> IF i = k + 1 THEN F[<<v[k], w[k + 1]>>] ELSE v[i]]
  <2>2. k \in Nat /\ x[0] = a /\ x[k] = v[k] /\ x[k + 1] = F[<<v[k], w[k + 1]>>]
    BY <2>1
  <2>3. ASSUME NEW i \in 1 .. k PROVE x[i] = F[<<x[i - 1], w[i]>>]
    <3>1. x[i] = v[i] /\ x[i - 1] = v[i - 1]
      BY <2>2
    <3> QED BY <2>1, <3>1
  <2>4. \A i \in 1 .. k + 1 : i = k + 1 \/ i \in 1 .. k
    BY <2>2
  <2>5. k + 1 - 1 = k
    BY <2>2
  <2>6. Upto(k + 1, x)
    <3> HIDE DEF x
    <3> QED BY <2>2, <2>3, <2>4, <2>5
  <2> QED BY <2>6
<1>3. T = Nat
  <2> HIDE DEF T
  <2>1. T \in SUBSET Nat
    BY DEF T
  <2> QED BY <1>1, <1>2, <2>1, NatSetInduction
<1>4. Len(w) \in Nat
  BY LenProperties
<1>5. \E v : Upto(Len(w), v)
  BY <1>3, <1>4
<1> QED BY <1>5 DEF IsTrail

-----------------------------------------------------------------------------
(* The laws of a fold.                                                       *)

LEMMA FoldEmpty ==
  ASSUME NEW S, NEW E, NEW F, NEW a, Foldable(S, E, F, a, << >>)
  PROVE  Fold(F, a, << >>) = a
<1>1. PICK v : IsTrail(F, a, << >>, v)
  BY TrailExists DEF Foldable
<1>2. Len(<< >>) = 0
  BY EmptySeq
<1>3. Fold(F, a, << >>) = v[Len(<< >>)]
  BY <1>1, FoldIsEnd
<1> QED BY <1>1, <1>2, <1>3 DEF IsTrail

LEMMA FoldType ==
  ASSUME NEW S, NEW E, NEW F, NEW a, NEW w, Foldable(S, E, F, a, w)
  PROVE  Fold(F, a, w) \in S
<1>1. PICK v : IsTrail(F, a, w, v)
  BY TrailExists DEF Foldable
<1> QED BY <1>1, FoldIsEnd

(* One element more is one step more.                                        *)
LEMMA FoldAppend ==
  ASSUME NEW S, NEW E, NEW F, NEW a, NEW w, Foldable(S, E, F, a, w), NEW e \in E
  PROVE  Fold(F, a, Append(w, e)) = F[<<Fold(F, a, w), e>>]
<1> DEFINE u == Append(w, e)
<1>1. /\ u \in Seq(E) /\ Len(w) \in Nat /\ Len(u) = Len(w) + 1 /\ u[Len(w) + 1] = e
      /\ \A i \in 1 .. Len(w) : u[i] = w[i]
  BY AppendProperties, LenProperties DEF Foldable
<1> HIDE DEF u
<1>2. Foldable(S, E, F, a, u) /\ \E v : IsTrail(F, a, u, v)
  BY <1>1, TrailExists DEF Foldable
<1>7. PICK v : IsTrail(F, a, u, v)
  BY <1>2
<1>3. IsTrail(F, a, w, v)
  BY <1>1, <1>7 DEF IsTrail
<1>4. Fold(F, a, u) = v[Len(u)] /\ Fold(F, a, w) = v[Len(w)]
  BY <1>2, <1>3, <1>7, FoldIsEnd
<1>5. v[Len(w) + 1] = F[<<v[Len(w) + 1 - 1], u[Len(w) + 1]>>]
  BY <1>1, <1>7 DEF IsTrail
<1>6. Len(w) + 1 - 1 = Len(w)
  BY <1>1
<1> QED BY <1>1, <1>4, <1>5, <1>6 DEF u

(* What follows is folded from where the first part ended.                   *)
LEMMA FoldConcat ==
  ASSUME NEW S, NEW E, NEW F, NEW a, NEW w, Foldable(S, E, F, a, w), NEW u \in Seq(E)
  PROVE  Fold(F, a, w \o u) = Fold(F, Fold(F, a, w), u)
<1> DEFINE wu == w \o u
           b == Fold(F, a, w)
<1>1. /\ wu \in Seq(E) /\ Len(w) \in Nat /\ Len(u) \in Nat /\ Len(wu) = Len(w) + Len(u)
      /\ \A i \in 1 .. Len(w) : wu[i] = w[i]
      /\ \A i \in 1 .. Len(u) : wu[Len(w) + i] = u[i]
  BY ConcatProperties, LenProperties DEF Foldable
<1>2. b \in S
  BY FoldType
<1> HIDE DEF wu, b
<1>10. Foldable(S, E, F, a, wu) /\ Foldable(S, E, F, b, u)
  BY <1>1, <1>2 DEF Foldable
<1>3. PICK v : IsTrail(F, a, wu, v)
  BY <1>10, TrailExists DEF Foldable
<1>4. IsTrail(F, a, w, v)
  BY <1>1, <1>3 DEF IsTrail
<1>5. Fold(F, a, wu) = v[Len(wu)] /\ b = v[Len(w)]
  BY <1>3, <1>4, <1>10, FoldIsEnd DEF b
<1> DEFINE x == [i \in 0 .. Len(u) |-> v[Len(w) + i]]
<1>6. x[0] = b /\ x[Len(u)] = v[Len(wu)]
  BY <1>1, <1>5
<1>7. ASSUME NEW i \in 1 .. Len(u) PROVE x[i] = F[<<x[i - 1], u[i]>>]
  <2>1. Len(w) + i \in 1 .. Len(wu) /\ Len(w) + i - 1 = Len(w) + (i - 1)
    BY <1>1
  <2>2. v[Len(w) + i] = F[<<v[Len(w) + (i - 1)], wu[Len(w) + i]>>]
    BY <1>3, <2>1 DEF IsTrail
  <2>3. x[i] = v[Len(w) + i] /\ x[i - 1] = v[Len(w) + (i - 1)]
    BY <1>1
  <2> QED BY <1>1, <2>2, <2>3
<1>8. IsTrail(F, b, u, x)
  <2> HIDE DEF x
  <2> QED BY <1>6, <1>7 DEF IsTrail
<1>9. Fold(F, b, u) = x[Len(u)]
  BY <1>8, <1>10, FoldIsEnd
<1> QED BY <1>5, <1>6, <1>9 DEF wu, b

-----------------------------------------------------------------------------
(* FoldLeft, whose definition recurs over the subsets of the indices: such a *)
(* function exists, and what it has for all the indices is the fold.         *)
SubsetFold(F, a, w, g) ==
  \A s \in SUBSET DOMAIN w : g[s] = IF s = {} THEN a ELSE F[<<g[s \ {Max(s)}], w[Max(s)]>>]

LEMMA SubsetFoldExists ==
  ASSUME NEW S, NEW E, NEW F \in [S \X E -> S], NEW a \in S, NEW w \in Seq(E)
  PROVE  \E g \in [SUBSET DOMAIN w -> S] : SubsetFold(F, a, w, g)
<1> DEFINE Upto(k, g) == \A s \in SUBSET (1 .. k) :
                           g[s] = IF s = {} THEN a ELSE F[<<g[s \ {Max(s)}], w[Max(s)]>>]
           Has(k) == \E g \in [SUBSET (1 .. k) -> S] : Upto(k, g)
<1>1. Has(0)
  <2>1. 1 .. 0 = {}
    OBVIOUS
  <2>2. [s \in SUBSET (1 .. 0) |-> a] \in [SUBSET (1 .. 0) -> S] /\ Upto(0, [s \in SUBSET (1 .. 0) |-> a])
    BY <2>1
  <2> QED BY <2>2
<1>2. ASSUME NEW k \in Nat, k + 1 <= Len(w), Has(k) PROVE Has(k + 1)
  <2>1. PICK g \in [SUBSET (1 .. k) -> S] : Upto(k, g)
    BY <1>2
  <2>2. k \in Nat /\ k + 1 \in 1 .. Len(w) /\ w[k + 1] \in E
    BY <1>2
  <2> DEFINE h == [s \in SUBSET (1 .. k + 1) |->
                    IF k + 1 \in s THEN F[<<g[s \ {k + 1}], w[k + 1]>>] ELSE g[s]]
  <2>3. ASSUME NEW s \in SUBSET (1 .. k + 1), k + 1 \in s
        PROVE  /\ s \ {k + 1} \in SUBSET (1 .. k) /\ Max(s) = k + 1
               /\ h[s] = F[<<g[s \ {k + 1}], w[k + 1]>>] /\ h[s \ {k + 1}] = g[s \ {k + 1}]
               /\ h[s] \in S
    <3>1. s \ {k + 1} \in SUBSET (1 .. k) /\ s \ {k + 1} \in SUBSET (1 .. k + 1)
      BY <2>2
    <3>2. Max(s) = k + 1
      BY <2>2, <2>3, MaxIsTop
    <3>3. h[s] = F[<<g[s \ {k + 1}], w[k + 1]>>] /\ h[s \ {k + 1}] = g[s \ {k + 1}]
      BY <2>3, <3>1
    <3>4. g[s \ {k + 1}] \in S
      BY <2>1, <3>1
    <3> QED BY <2>2, <3>1, <3>2, <3>3, <3>4
  <2>4. ASSUME NEW s \in SUBSET (1 .. k + 1), k + 1 \notin s
        PROVE  /\ s \in SUBSET (1 .. k) /\ h[s] = g[s] /\ h[s] \in S
               /\ s # {} => h[s \ {Max(s)}] = g[s \ {Max(s)}]
    <3>1. s \in SUBSET (1 .. k)
      BY <2>2, <2>4
    <3> QED BY <2>1, <2>4, <3>1
  <2>5. h \in [SUBSET (1 .. k + 1) -> S]
    BY <2>3, <2>4
  <2>6. Upto(k + 1, h)
    <3> SUFFICES ASSUME NEW s \in SUBSET (1 .. k + 1)
                 PROVE  h[s] = IF s = {} THEN a ELSE F[<<h[s \ {Max(s)}], w[Max(s)]>>]
      OBVIOUS
    <3>1. CASE k + 1 \in s
      <4> HIDE DEF h
      <4> QED BY <2>3, <3>1
    <3>2. CASE k + 1 \notin s
      <4> HIDE DEF h
      <4> QED BY <2>1, <2>4, <3>2
    <3> QED BY <3>1, <3>2
  <2> QED BY <2>5, <2>6
<1>3. Has(Len(w))
  <2> DEFINE T == {k \in Nat : k <= Len(w) => Has(k)}
  <2> HIDE DEF Has
  <2>1. T \in SUBSET Nat /\ 0 \in T
    BY <1>1
  <2>2. ASSUME NEW k \in T PROVE k + 1 \in T
    <3>1. k \in Nat /\ (k + 1 <= Len(w) => Has(k))
      OBVIOUS
    <3> QED BY <1>2, <3>1
  <2>3. Len(w) \in Nat
    BY LenProperties
  <2> HIDE DEF T
  <2>4. T = Nat
    BY <2>1, <2>2, NatSetInduction
  <2> QED BY <2>3, <2>4 DEF T
<1>4. DOMAIN w = 1 .. Len(w)
  BY LenProperties
<1> QED BY <1>3, <1>4 DEF SubsetFold

(* It is enough that the function follows F from where that is defined.      *)
SubsetFollows(S, F, a, w, h) ==
  /\ h[{}] = a
  /\ \A s \in SUBSET DOMAIN w :
       s # {} /\ h[s \ {Max(s)}] \in S => h[s] = F[<<h[s \ {Max(s)}], w[Max(s)]>>]

LEMMA SubsetFoldIsFold ==
  ASSUME NEW S, NEW E, NEW F, NEW a, NEW w, Foldable(S, E, F, a, w), NEW h,
         SubsetFollows(S, F, a, w, h)
  PROVE  h[DOMAIN w] = Fold(F, a, w)
<1>1. Len(w) \in Nat /\ DOMAIN w = 1 .. Len(w)
  BY LenProperties DEF Foldable
<1> DEFINE v == [i \in 0 .. Len(w) |-> h[1 .. i]]
<1>2. v[0] = a /\ v[Len(w)] = h[DOMAIN w]
  <2>1. 1 .. 0 = {}
    OBVIOUS
  <2> QED BY <1>1, <2>1 DEF SubsetFollows
<1>3. ASSUME NEW i \in 1 .. Len(w), v[i - 1] \in S PROVE v[i] = F[<<v[i - 1], w[i]>>]
  <2>1. i \in Nat \ {0} /\ i - 1 \in 0 .. Len(w)
    BY <1>1
  <2>2. Max(1 .. i) = i /\ (1 .. i) \ {i} = 1 .. i - 1
    BY <2>1, MaxOfRange
  <2>3. 1 .. i \in SUBSET DOMAIN w /\ 1 .. i # {}
    <3>1. i \in 1 .. i
      BY <2>1
    <3>2. \A j \in 1 .. i : j \in 1 .. Len(w)
      BY <1>1, <2>1
    <3> QED BY <1>1, <3>1, <3>2
  <2>4. v[i] = h[1 .. i] /\ v[i - 1] = h[1 .. i - 1]
    BY <2>1
  <2> HIDE DEF v
  <2> QED BY <1>3, <2>2, <2>3, <2>4 DEF SubsetFollows
<1>4. FollowsIn(S, F, a, w, v)
  <2> HIDE DEF v
  <2> QED BY <1>2, <1>3 DEF FollowsIn
<1> HIDE DEF v
<1>5. IsTrail(F, a, w, v)
  BY <1>4, TrailType DEF Foldable
<1>6. Fold(F, a, w) = v[Len(w)]
  BY <1>5, FoldIsEnd
<1> QED BY <1>2, <1>6
=============================================================================
