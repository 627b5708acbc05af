----------------------------- MODULE FiniteSums ------------------------------
(***************************************************************************)
(* What the proofs need of natural numbers and finite sets: induction,     *)
(* sums, and greatest elements.                                            *)
(*                                                                         *)
(* Induction over the subsets of a set comes from the least-number         *)
(* principle, which, unlike the induction theorems of the library, takes   *)
(* no operator: what is to be shown is a set of subsets.                   *)
(***************************************************************************)
EXTENDS Integers, FiniteSets, FiniteSetsExt, Functions, FiniteSetTheorems,
        WellFoundedInduction, TLAPS

(* A set of naturals that is not empty has a least element. *)
LEMMA LeastNatural ==
  ASSUME NEW T \in SUBSET Nat, T # {}
  PROVE  \E n \in T : \A m \in T : n <= m
  <1>1. PICK n \in T : \A m \in T : <<m, n>> \notin OpToRel(<, Nat)
    BY NatLessThanWellFounded, WFMin
  <1>2. \A m \in T : ~ (m < n)
    BY <1>1 DEF OpToRel
  <1> QED
    BY <1>2

(* A count goes up from nothing to n if it goes up by one. *)
LEMMA UpTo ==
  ASSUME NEW n \in Nat, NEW G, 0 \in G, \A m \in 0..n : m \in G /\ m < n => m + 1 \in G
  PROVE  n \in G
  <1> DEFINE bad == {m \in 0..n : m \notin G}
  <1> SUFFICES ASSUME n \notin G PROVE FALSE
    OBVIOUS
  <1>1. bad \in SUBSET Nat /\ n \in bad
    OBVIOUS
  <1>2. PICK m \in bad : \A k \in bad : m <= k
    <2> HIDE DEF bad
    <2> QED
      BY <1>1, LeastNatural
  <1>3. m \in Nat /\ m # 0
    BY <1>1, <1>2
  <1>4. m - 1 \in 0..n /\ m - 1 < n /\ m - 1 \notin bad
    <2>1. m - 1 \in 0..n /\ m - 1 < n
      BY <1>3
    <2>2. ~ (m <= m - 1)
      BY <1>3
    <2> QED
      BY <1>2, <2>1, <2>2
  <1>5. (m - 1) + 1 \in G
    BY <1>4
  <1> QED
    BY <1>2, <1>3, <1>5

LEMMA SubsetInduction ==
  ASSUME NEW D, IsFiniteSet(D), NEW G,
         \A s \in SUBSET D : (\A x \in s : s \ {x} \in G) => s \in G
  PROVE  \A s \in SUBSET D : s \in G
  <1> DEFINE bad == {s \in SUBSET D : s \notin G}
             sizes == {n \in Nat : \E s \in bad : Cardinality(s) = n}
  <1> SUFFICES ASSUME NEW s0 \in bad PROVE FALSE
    OBVIOUS
  <1>1. \A s \in SUBSET D : IsFiniteSet(s) /\ Cardinality(s) \in Nat
    BY FS_Subset, FS_CardinalityType
  <1>2. Cardinality(s0) \in sizes
    BY <1>1
  <1>3. PICK n \in sizes : \A m \in sizes : n <= m
    BY <1>2, LeastNatural
  <1>4. PICK s \in bad : Cardinality(s) = n
    BY <1>3
  <1>5. ASSUME NEW x \in s PROVE s \ {x} \in G
    <2>1. s \ {x} \in SUBSET D /\ IsFiniteSet(s)
      BY <1>1
    <2>2. Cardinality(s \ {x}) = n - 1 /\ Cardinality(s \ {x}) \in Nat
      BY <1>1, <1>4, <2>1, FS_RemoveElement
    <2>3. n - 1 \notin sizes
      BY <1>3, <2>2
    <2> QED
      BY <2>1, <2>2, <2>3
  <1> QED
    BY <1>4, <1>5

Chosen(s) == CHOOSE x \in s : TRUE

AddsUp(g, f, S) ==
  g = [s \in SUBSET S |-> IF s = {} THEN 0 ELSE f[Chosen(s)] + g[s \ {Chosen(s)}]]

LEMMA ChosenIsMember ==
  ASSUME NEW s, s # {}
  PROVE  Chosen(s) \in s
  BY Zenon DEF Chosen

LEMMA AddingNothing ==
  ASSUME NEW S, NEW f, NEW g, AddsUp(g, f, S)
  PROVE  g[{}] = 0
  BY DEF AddsUp

LEMMA AddingOne ==
  ASSUME NEW S, NEW f, NEW g, AddsUp(g, f, S), NEW s \in SUBSET S, s # {}
  PROVE  Chosen(s) \in s /\ g[s] = f[Chosen(s)] + g[s \ {Chosen(s)}]
  BY ChosenIsMember DEF AddsUp

LEMMA AddingUpOnce ==
  ASSUME NEW S, IsFiniteSet(S), NEW f, NEW e, NEW g, NEW h,
         \A x \in S : f[x] = e[x], AddsUp(g, f, S), AddsUp(h, e, S)
  PROVE  g = h
  <1> DEFINE G == {s \in SUBSET S : g[s] = h[s]}
  <1>1. ASSUME NEW s \in SUBSET S, \A x \in s : s \ {x} \in G PROVE s \in G
    <2>1. CASE s = {}
      BY <2>1, AddingNothing
    <2>2. CASE s # {}
      <3> DEFINE c == Chosen(s)
      <3>1. c \in s /\ g[s] = f[c] + g[s \ {c}] /\ h[s] = e[c] + h[s \ {c}]
        BY <2>2, AddingOne
      <3> HIDE DEF c
      <3>2. f[c] = e[c] /\ g[s \ {c}] = h[s \ {c}]
        BY <1>1, <3>1
      <3> QED
        BY <3>1, <3>2
    <2> QED
      BY <2>1, <2>2
  <1>2. \A s \in SUBSET S : s \in G
    <2> HIDE DEF G
    <2> QED
      BY <1>1, SubsetInduction
  <1> QED
    BY <1>2 DEF AddsUp

LEMMA AddingUpWithin ==
  ASSUME NEW S, NEW f, NEW g, AddsUp(g, f, S), NEW t \in SUBSET S
  PROVE  AddsUp([s \in SUBSET t |-> g[s]], f, t)
  BY ChosenIsMember DEF AddsUp

LEMMA AddingUpExists ==
  ASSUME NEW S, IsFiniteSet(S), NEW f
  PROVE  \E g : AddsUp(g, f, S)
  <1> DEFINE G == {s \in SUBSET S : \E g : AddsUp(g, f, s)}
             Whole(s) == CHOOSE g : AddsUp(g, f, s)
  <1>1. ASSUME NEW s \in SUBSET S, \A x \in s : s \ {x} \in G PROVE s \in G
    <2>1. ASSUME NEW t \in SUBSET s, t # s
          PROVE  AddsUp(Whole(t), f, t)
      <3>1. PICK x \in s : t \in SUBSET (s \ {x})
        BY <2>1
      <3>2. PICK g : AddsUp(g, f, s \ {x})
        BY <1>1
      <3>3. \E h : AddsUp(h, f, t)
        BY <3>1, <3>2, AddingUpWithin
      <3> QED
        BY <3>3, Zenon
    <2>2. ASSUME NEW t \in SUBSET s, t # s, t # {}
          PROVE  Whole(t)[t] = f[Chosen(t)] + Whole(t \ {Chosen(t)})[t \ {Chosen(t)}]
      <3> DEFINE u == t \ {Chosen(t)}
                 h == [v \in SUBSET u |-> Whole(t)[v]]
      <3>1. u \in SUBSET t /\ u \in SUBSET s /\ u # s
        BY <2>2
      <3>2. AddsUp(Whole(t), f, t) /\ AddsUp(Whole(u), f, u)
        BY <2>1, <2>2, <3>1
      <3> HIDE DEF Whole
      <3>3. AddsUp(h, f, u)
        BY <3>1, <3>2, AddingUpWithin
      <3>4. IsFiniteSet(u)
        BY <3>1, FS_Subset
      <3>5. h = Whole(u)
        <4> HIDE DEF h, u
        <4> QED
          BY <3>2, <3>3, <3>4, AddingUpOnce
      <3>6. Whole(t)[t] = f[Chosen(t)] + Whole(t)[u]
        <4>1. t \in SUBSET t
          OBVIOUS
        <4> QED
          BY <2>2, <3>2, <4>1, AddingOne DEF u
      <3>7. Whole(t)[u] = h[u]
        OBVIOUS
      <3> HIDE DEF h
      <3> QED
        BY <3>5, <3>6, <3>7
    <2>3. \A t \in SUBSET s : t # s /\ t = {} => Whole(t)[t] = 0
      <3> HIDE DEF Whole
      <3> QED
        BY <2>1, AddingNothing
    <2> DEFINE g == [t \in SUBSET s |->
                       IF t = {} THEN 0
                       ELSE f[Chosen(t)] + Whole(t \ {Chosen(t)})[t \ {Chosen(t)}]]
    <2>4. \A t \in SUBSET s : t # s => g[t] = Whole(t)[t]
      <3> HIDE DEF Whole
      <3> QED
        BY <2>2, <2>3
    <2>5. \A t \in SUBSET s : t # {} => t \ {Chosen(t)} \in SUBSET s /\ t \ {Chosen(t)} # s
      BY ChosenIsMember
    <2>6. \A t \in SUBSET s : t # {} =>
             g[t \ {Chosen(t)}] = Whole(t \ {Chosen(t)})[t \ {Chosen(t)}]
      <3> HIDE DEF g, Whole
      <3> QED
        BY <2>4, <2>5
    <2>7. AddsUp(g, f, s)
      <3> HIDE DEF Whole
      <3> QED
        BY <2>6 DEF AddsUp
    <2> QED
      BY <2>7
  <1>2. \A s \in SUBSET S : s \in G
    <2> HIDE DEF G
    <2> QED
      BY <1>1, SubsetInduction
  <1> QED
    BY <1>2

LEMMA AddingUpIsInteger ==
  ASSUME NEW S, IsFiniteSet(S), NEW f, \A x \in S : f[x] \in Int, NEW g, AddsUp(g, f, S),
         NEW t \in SUBSET S
  PROVE  g[t] \in Int
  <1> DEFINE Z == {s \in SUBSET S : g[s] \in Int}
  <1>1. ASSUME NEW s \in SUBSET S, \A x \in s : s \ {x} \in Z PROVE s \in Z
    <2> DEFINE c == Chosen(s)
    <2>1. CASE s = {}
      <3>1. g[s] = 0
        BY <2>1, AddingNothing
      <3> QED
        BY <3>1
    <2>2. CASE s # {}
      <3>1. c \in s /\ g[s] = f[c] + g[s \ {c}]
        BY <2>2, AddingOne
      <3> HIDE DEF c
      <3>2. f[c] \in Int /\ g[s \ {c}] \in Int
        BY <1>1, <3>1
      <3> QED
        BY <3>1, <3>2
    <2> QED
      BY <2>1, <2>2
  <1>2. \A s \in SUBSET S : s \in Z
    <2> HIDE DEF Z
    <2> QED
      BY <1>1, SubsetInduction
  <1>3. t \in Z
    <2> HIDE DEF Z
    <2> QED
      BY <1>2
  <1> QED
    BY <1>3

LEMMA AnyComesFirst ==
  ASSUME NEW S, IsFiniteSet(S), NEW f, \A x \in S : f[x] \in Int, NEW g, AddsUp(g, f, S),
         NEW t \in SUBSET S, NEW z \in t
  PROVE  g[t] = f[z] + g[t \ {z}]
  <1> DEFINE Z == {s \in SUBSET S : g[s] \in Int}
             G == {s \in SUBSET S : g[s] \in Int /\ \A x \in s : g[s] = f[x] + g[s \ {x}]}
  <1>1. \A s \in SUBSET S : s \in Z
    BY AddingUpIsInteger
  <1>2. ASSUME NEW s \in SUBSET S, \A x \in s : s \ {x} \in G PROVE s \in G
    <2> DEFINE c == Chosen(s)
    <2>1. CASE s = {}
      <3>1. g[s] = 0
        BY <2>1, AddingNothing
      <3> QED
        BY <2>1, <3>1
    <2>2. CASE s # {}
      <3>1. c \in s /\ g[s] = f[c] + g[s \ {c}]
        BY <2>2, AddingOne
      <3> HIDE DEF c
      <3>2. f[c] \in Int /\ g[s \ {c}] \in Int
        BY <1>2, <3>1
      <3>3. ASSUME NEW x \in s, x # c PROVE g[s] = f[x] + g[s \ {x}]
        <4> DEFINE r == (s \ {c}) \ {x}
        <4>1. s \ {c} \in G /\ s \ {x} \in G
          BY <1>2, <3>1
        <4>2. g[s \ {c}] = f[x] + g[r]
          BY <3>3, <4>1
        <4>3. g[s \ {x}] = f[c] + g[(s \ {x}) \ {c}]
          BY <3>1, <3>3, <4>1
        <4>4. (s \ {x}) \ {c} = r
          OBVIOUS
        <4>5. f[x] \in Int /\ r \in SUBSET S
          OBVIOUS
        <4>6. g[r] \in Int
          BY <1>1, <4>5
        <4> HIDE DEF r, G, Z
        <4>7. g[s \ {x}] = f[c] + g[r]
          BY <4>3, <4>4
        <4> QED
          BY <3>1, <3>2, <4>2, <4>5, <4>6, <4>7
      <3>4. s \in Z
        BY <1>1
      <3> QED
        BY <3>1, <3>3, <3>4
    <2> QED
      BY <2>1, <2>2
  <1>3. \A s \in SUBSET S : s \in G
    <2> HIDE DEF G
    <2> QED
      BY <1>2, SubsetInduction
  <1>4. t \in G
    <2> HIDE DEF G
    <2> QED
      BY <1>3
  <1> QED
    BY <1>4

LEMMA SumAddsUp ==
  ASSUME NEW f, NEW g, IsFiniteSet(DOMAIN f), AddsUp(g, f, DOMAIN f)
  PROVE  SumFunction(f) = g[DOMAIN f]
  <1> DEFINE S == DOMAIN f
             iter == CHOOSE i : i = [s \in SUBSET S |-> IF s = {} THEN 0 ELSE f[CHOOSE x \in s : TRUE] + i[s \ {CHOOSE x \in s : TRUE}]]
  <1>1. SumFunction(f) = iter[S]
    BY Zenon DEF SumFunction, SumFunctionOnSet, FoldFunctionOnSet, MapThenFoldSet
  <1>2. iter = CHOOSE i : AddsUp(i, f, S)
    BY Zenon DEF AddsUp, Chosen
  <1>3. AddsUp(iter, f, S)
    BY <1>2, Zenon
  <1>4. iter = g
    <2> HIDE DEF iter
    <2> QED
     BY <1>3, AddingUpOnce
  <1> QED
    BY <1>1, <1>4

LEMMA SumOfNone ==
  ASSUME NEW f, DOMAIN f = {}
  PROVE  SumFunction(f) = 0
  <1>1. IsFiniteSet(DOMAIN f)
    BY FS_EmptySet
  <1>2. PICK g : AddsUp(g, f, DOMAIN f)
    BY <1>1, AddingUpExists
  <1>3. g[{}] = 0
    BY <1>2, AddingNothing
  <1> QED
    BY <1>1, <1>2, <1>3, SumAddsUp

SumOver(f, D) == SumFunction([y \in D |-> f[y]])

LEMMA SumOfOneMore ==
  ASSUME NEW D, IsFiniteSet(D), NEW x, x \notin D,
         NEW f, \A y \in D \cup {x} : f[y] \in Int
  PROVE  SumOver(f, D) \in Int /\ SumOver(f, D \cup {x}) = f[x] + SumOver(f, D)
  <1> DEFINE E == D \cup {x}
             e == [y \in E |-> f[y]]
             d == [y \in D |-> f[y]]
  <1>1. IsFiniteSet(E) /\ D \in SUBSET E /\ x \in E /\ E \ {x} = D
    BY FS_AddElement
  <1>2. DOMAIN e = E /\ DOMAIN d = D /\ (\A y \in E : e[y] \in Int /\ e[y] = f[y])
        /\ (\A y \in D : d[y] = e[y])
    OBVIOUS
  <1> HIDE DEF E, e, d
  <1>3. IsFiniteSet(E) /\ D \in SUBSET E /\ \A y \in E : e[y] \in Int
    BY <1>1, <1>2
  <1>4. PICK g : AddsUp(g, e, E)
    BY <1>3, AddingUpExists
  <1>5. g[E] = f[x] + g[D] /\ g[D] \in Int
    <2>1. E \in SUBSET E
      OBVIOUS
    <2>2. g[E] = e[x] + g[E \ {x}]
      BY <1>1, <1>4, <1>3, <2>1, AnyComesFirst
    <2>3. g[D] \in Int
      BY <1>4, <1>3, AddingUpIsInteger
    <2> QED
      BY <1>1, <1>2, <2>2, <2>3
  <1> DEFINE h == [s \in SUBSET D |-> g[s]]
  <1>6. AddsUp(h, e, D)
    BY <1>4, <1>3, AddingUpWithin
  <1>7. h[D] = g[D]
    OBVIOUS
  <1> HIDE DEF h
  <1>8. PICK k : AddsUp(k, d, D)
    BY AddingUpExists
  <1>9. k = h
    BY <1>2, <1>6, <1>8, AddingUpOnce
  <1>10. SumFunction(d) = g[D] /\ SumFunction(e) = g[E]
    BY <1>1, <1>2, <1>4, <1>7, <1>8, <1>9, SumAddsUp
  <1> QED
    BY <1>5, <1>10 DEF E, e, d, SumOver

LEMMA SumIsAnInteger ==
  ASSUME NEW D, IsFiniteSet(D), NEW f, \A y \in D : f[y] \in Int
  PROVE  SumOver(f, D) \in Int
  <1>1. CASE D = {}
    <2>1. SumOver(f, D) = 0
      BY <1>1, SumOfNone DEF SumOver
    <2> QED
      BY <2>1
  <1>2. CASE D # {}
    <2>1. PICK x \in D : TRUE
      BY <1>2
    <2> DEFINE C == D \ {x}
    <2>2. IsFiniteSet(C) /\ D = C \cup {x} /\ x \notin C
      BY FS_RemoveElement
    <2> HIDE DEF C
    <2>3. SumOver(f, D) = f[x] + SumOver(f, C)
          /\ SumOver(f, C) \in Int
      BY <2>2, SumOfOneMore
    <2> QED
      BY <2>1, <2>3
  <1> QED
    BY <1>1, <1>2

LEMMA SumOfBoth ==
  ASSUME NEW A, IsFiniteSet(A), NEW B, IsFiniteSet(B), A \cap B = {},
         NEW f, \A y \in A \cup B : f[y] \in Int
  PROVE  SumOver(f, A \cup B)
           = SumOver(f, A) + SumOver(f, B)
  <1> DEFINE Of(s) == SumOver(f, s)
             G == {s \in SUBSET B : IsFiniteSet(A \cup s) /\ Of(A \cup s) = Of(A) + Of(s)}
  <1>1. \A s \in SUBSET B : IsFiniteSet(s) /\ Of(s) \in Int
    BY FS_Subset, SumIsAnInteger
  <1>2. Of(A) \in Int
    BY SumIsAnInteger
  <1>3. ASSUME NEW s \in SUBSET B, \A x \in s : s \ {x} \in G PROVE s \in G
    <2>1. CASE s = {}
      <3>1. Of(s) = 0
        BY <2>1, SumOfNone DEF SumOver
      <3>2. A \cup s = A
        BY <2>1
      <3>3. Of(A \cup s) = Of(A) /\ IsFiniteSet(A \cup s)
        BY <3>2
      <3>4. Of(A \cup s) = Of(A) + Of(s)
        <4> HIDE DEF Of
        <4> QED
          BY <1>2, <3>1, <3>3
      <3> QED
        BY <3>3, <3>4
    <2>2. CASE s # {}
      <3>1. PICK x \in s : TRUE
        BY <2>2
      <3> DEFINE r == s \ {x}
      <3>2. r \in G /\ r \in SUBSET B
        BY <1>3, <3>1
      <3>3. x \notin r /\ x \notin A \cup r /\ s = r \cup {x} /\ A \cup s = (A \cup r) \cup {x}
            /\ x \in B
        BY <3>1
      <3> HIDE DEF r
      <3>4. IsFiniteSet(r) /\ IsFiniteSet(A \cup r) /\ IsFiniteSet(A \cup s)
        BY <1>1, <3>2, <3>3, FS_AddElement
      <3>5. Of(s) = f[x] + Of(r)
        <4>1. \A y \in r \cup {x} : f[y] \in Int
          BY <3>2, <3>3
        <4> QED
          BY <3>3, <3>4, <4>1, SumOfOneMore
      <3>6. Of(A \cup s) = f[x] + Of(A \cup r)
        <4>1. \A y \in (A \cup r) \cup {x} : f[y] \in Int
          BY <3>2, <3>3
        <4> QED
          BY <3>3, <3>4, <4>1, SumOfOneMore
      <3>7. Of(A \cup r) = Of(A) + Of(r) /\ Of(r) \in Int /\ f[x] \in Int
        BY <1>1, <3>2, <3>3
      <3> HIDE DEF Of
      <3> QED
        BY <1>2, <3>4, <3>5, <3>6, <3>7
    <2> QED
      BY <2>1, <2>2
  <1>4. \A s \in SUBSET B : s \in G
    <2> HIDE DEF G
    <2> QED
      BY <1>3, SubsetInduction
  <1> QED
    BY <1>4

(* What is added up part by part is added up. *)
LEMMA SumByParts ==
  ASSUME NEW D, IsFiniteSet(D), NEW f, \A x \in D : f[x] \in Int, NEW key
  PROVE  LET P == {key[x] : x \in D}
         IN  SumFunction([p \in P |-> SumOver(f, {x \in D : key[x] = p})]) = SumOver(f, D)
  <1> DEFINE P == {key[x] : x \in D}
             Of(p) == {x \in D : key[x] = p}
             In(Q) == {x \in D : key[x] \in Q}
             h == [p \in P |-> SumOver(f, Of(p))]
             G == {Q \in SUBSET P : SumOver(h, Q) = SumOver(f, In(Q))}
  <1>1. IsFiniteSet(P)
    <2> DEFINE g == [x \in D |-> key[x]]
    <2>1. P = {g[x] : x \in D} /\ g \in Surjection(D, P)
      BY DEF Surjection
    <2> QED
      BY <2>1, FS_Surjection
  <1>2. \A T \in SUBSET D : IsFiniteSet(T) /\ SumOver(f, T) \in Int
    BY FS_Subset, SumIsAnInteger
  <1>3. \A p \in P : h[p] = SumOver(f, Of(p)) /\ h[p] \in Int
    BY <1>2
  <1>4. ASSUME NEW Q \in SUBSET P, \A q \in Q : Q \ {q} \in G PROVE Q \in G
    <2>1. CASE Q = {}
      <3>1. SumOver(h, Q) = 0
        BY <2>1, SumOfNone DEF SumOver
      <3>2. In(Q) = {}
        BY <2>1
      <3>3. SumOver(f, In(Q)) = 0
        <4> HIDE DEF In
        <4> QED
          BY <3>2, SumOfNone DEF SumOver
      <3> QED
        BY <3>1, <3>3
    <2>2. CASE Q # {}
      <3>1. PICK q \in Q : TRUE
        BY <2>2
      <3> DEFINE R == Q \ {q}
      <3>2. R \in SUBSET P /\ q \in P /\ q \notin R /\ R \cup {q} = Q
        BY <3>1
      <3>3. SumOver(h, R) = SumOver(f, In(R))
        BY <1>4, <3>1
      <3>4. IsFiniteSet(R)
        BY <1>1, <3>2, FS_Subset
      <3>5. \A p \in R \cup {q} : h[p] \in Int
        BY <1>3, <3>2
      <3>6. In(R) \in SUBSET D /\ Of(q) \in SUBSET D /\ In(R) \cap Of(q) = {}
            /\ In(R) \cup Of(q) = In(Q)
        BY <3>1
      <3> HIDE DEF h, R, G, P, In, Of
      <3>7. SumOver(h, Q) = h[q] + SumOver(h, R)
        BY <3>2, <3>4, <3>5, SumOfOneMore
      <3>8. SumOver(f, In(R) \cup Of(q)) = SumOver(f, In(R)) + SumOver(f, Of(q))
        <4> DEFINE A == In(R)
                   B == Of(q)
        <4>1. IsFiniteSet(A) /\ IsFiniteSet(B) /\ A \cap B = {}
          BY <1>2, <3>6
        <4>2. \A x \in A \cup B : f[x] \in Int
          BY <3>6
        <4> HIDE DEF A, B
        <4>3. SumOver(f, A \cup B) = SumOver(f, A) + SumOver(f, B)
          BY <4>1, <4>2, SumOfBoth
        <4> QED
          BY <4>3 DEF A, B
      <3>9. SumOver(f, In(R)) \in Int /\ h[q] = SumOver(f, Of(q)) /\ h[q] \in Int
        BY <1>2, <1>3, <3>2, <3>6
      <3>10. SumOver(h, Q) = SumOver(f, In(Q))
        <4>1. SumOver(f, In(Q)) = SumOver(f, In(R)) + h[q]
          BY Zenon, <3>6, <3>8, <3>9
        <4>2. SumOver(h, Q) = h[q] + SumOver(f, In(R))
          BY Zenon, <3>3, <3>7
        <4> DEFINE a == h[q]
                   b == SumOver(f, In(R))
        <4>3. a \in Int /\ b \in Int
          BY <3>9
        <4>4. a + b = b + a
          <5> HIDE DEF a, b
          <5> QED
            BY <4>3
        <4> QED
          BY Zenon, <4>1, <4>2, <4>4
      <3> QED
        BY <3>10 DEF G
    <2> QED
      BY <2>1, <2>2
  <1>5. \A Q \in SUBSET P : Q \in G
    <2> HIDE DEF G, P
    <2> QED
      BY <1>1, <1>4, SubsetInduction
  <1>6. SumOver(h, P) = SumOver(f, In(P))
    BY <1>5
  <1>7. In(P) = D /\ [p \in P |-> h[p]] = h
    OBVIOUS
  <1> QED
    BY <1>6, <1>7 DEF SumOver

LEMMA GreatestExists ==
  ASSUME NEW D, IsFiniteSet(D), D # {}, NEW f, \A x \in D : f[x] \in Int
  PROVE  \E x \in D : \A y \in D : f[x] >= f[y]
  <1> DEFINE G == {s \in SUBSET D : s = {} \/ \E x \in s : \A y \in s : f[x] >= f[y]}
  <1>1. ASSUME NEW s \in SUBSET D, \A x \in s : s \ {x} \in G PROVE s \in G
    <2>1. CASE s = {}
      BY <2>1
    <2>2. CASE s # {}
      <3>1. PICK x \in s : TRUE
        BY <2>2
      <3>2. CASE s \ {x} = {}
        <4>1. s = {x} /\ f[x] \in Int
          BY <3>1, <3>2
        <4> QED
          BY <4>1
      <3>3. CASE s \ {x} # {}
        <4>1. PICK z \in s \ {x} : \A y \in s \ {x} : f[z] >= f[y]
          BY <1>1, <3>1, <3>3
        <4>2. f[x] \in Int /\ f[z] \in Int
          BY <3>1, <4>1
        <4>3. CASE f[x] >= f[z]
          <5>1. \A y \in s : f[x] >= f[y]
            BY <3>1, <4>1, <4>2, <4>3
          <5> QED
            BY <5>1
        <4>4. CASE f[z] >= f[x]
          <5>1. \A y \in s : f[z] >= f[y]
            BY <3>1, <4>1, <4>2, <4>4
          <5> QED
            BY <5>1
        <4> QED
          BY <4>2, <4>3, <4>4
      <3> QED
        BY <3>2, <3>3
    <2> QED
      BY <2>1, <2>2
  <1>2. \A s \in SUBSET D : s \in G
    <2> HIDE DEF G
    <2> QED
      BY <1>1, SubsetInduction
  <1>3. D \in G
    <2> HIDE DEF G
    <2> QED
      BY <1>2
  <1> QED
    BY <1>3

LEMMA MaxIsGreatest ==
  ASSUME NEW S \in SUBSET Int, NEW m \in S, \A n \in S : m >= n
  PROVE  Max(S) = m
  <1> DEFINE x == CHOOSE x \in S : \A n \in S : x >= n
  <1>1. Max(S) = x
    BY Zenon DEF Max
  <1>2. x \in S /\ \A n \in S : x >= n
    BY Zenon
  <1> HIDE DEF x
  <1> QED
    BY <1>1, <1>2

LEMMA MaxOfValues ==
  ASSUME NEW D, IsFiniteSet(D), D # {}, NEW f, \A x \in D : f[x] \in Int
  PROVE  \E x \in D : Max({f[y] : y \in D}) = f[x] /\ \A y \in D : f[x] >= f[y]
  <1>1. PICK x \in D : \A y \in D : f[x] >= f[y]
    BY GreatestExists
  <1>2. Max({f[y] : y \in D}) = f[x]
    BY <1>1, MaxIsGreatest
  <1> QED
    BY <1>1, <1>2

==============================================================================
