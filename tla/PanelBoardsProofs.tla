-------------------------- MODULE PanelBoardsProofs --------------------------
(***************************************************************************)
(* Theorems about the boards of the panel - containers, routing mesh,      *)
(* dashboards, databases and floor plans - for any lists, links, charts,   *)
(* bases and plans, and any bounds: each is of the whole panel, with       *)
(* whatever view on screen.                                                *)
(*                                                                         *)
(* A view's invariant speaks of its memory, m1..m13: the INSTANCE of its   *)
(* module in PanelViews says which variable each of them is, and a comment *)
(* in each section repeats those that its proofs name.                     *)
(***************************************************************************)
EXTENDS PanelViews, Functions, WellFoundedInduction, NaturalsInduction, FiniteSetTheorems, TLAPS

-----------------------------------------------------------------------------
(* Numbers and finite sets.                                                 *)

\* Of some naturals one is the least.
LEMMA PrimeiroExiste ==
  ASSUME NEW S \in SUBSET Nat, S # {}
  PROVE  \E x \in S : \A y \in S : x <= y
  <1>. DEFINE R == {ss \in Nat \X Nat : ss[1] < ss[2]}
  <1>1. IsWellFoundedOn(R, Nat)
    BY NatLessThanWellFounded DEF OpToRel
  <1>. HIDE DEF R
  <1>2. PICK x \in S : \A y \in S : ~(<<y, x>> \in R)
    BY <1>1, WFMin
  <1>3. ASSUME NEW y \in S PROVE x <= y
    <2>1. x \in Nat /\ y \in Nat
      OBVIOUS
    <2>2. ~(y < x)
      BY <1>2, <2>1 DEF R
    <2>. QED  BY <2>1, <2>2
  <1>. QED  BY <1>3

\* A set of positions is finite, and no larger than the last of them.
LEMMA Finito ==
  ASSUME NEW n \in Nat, NEW S \in SUBSET (1..n)
  PROVE  IsFiniteSet(S) /\ Cardinality(S) \in Nat /\ Cardinality(S) <= n /\ S \subseteq Nat
  <1>1. IsFiniteSet(1..n) /\ Cardinality(1..n) = n
    BY FS_Interval
  <1>2. IsFiniteSet(S) /\ Cardinality(S) <= n
    BY <1>1, FS_Subset
  <1>3. Cardinality(S) \in Nat
    BY <1>2, FS_CardinalityType
  <1>4. S \subseteq Nat
    OBVIOUS
  <1>. QED  BY <1>2, <1>3, <1>4


\* A set of subsets of a finite set that grows by one element at a time has them all.
LEMMA CrescendoTodos ==
  ASSUME NEW S, IsFiniteSet(S), NEW B, {} \in B,
         \A T \in SUBSET S : T # {} => \E x \in T : T \ {x} \in B => T \in B
  PROVE  SUBSET S \subseteq B
  <1>. DEFINE R == {n \in Nat : \E T \in SUBSET S : T \notin B /\ Cardinality(T) = n}
  <1>1. ASSUME NEW T \in SUBSET S, T \notin B PROVE FALSE
    <2>0. IsFiniteSet(T) /\ Cardinality(T) \in Nat
      BY FS_Subset, FS_CardinalityType
    <2>. HIDE DEF R
    <2>1. PICK n \in R : \A k \in R : n <= k
      <3>1. R \subseteq Nat /\ R # {}
        BY <1>1, <2>0 DEF R
      <3>. QED  BY <3>1, PrimeiroExiste
    <2>2. PICK U \in SUBSET S : U \notin B /\ Cardinality(U) = n
      BY <2>1 DEF R
    <2>3. PICK x \in U : U \ {x} \in B => U \in B
      BY <2>2
    <2>4. Cardinality(U \ {x}) = Cardinality(U) - 1 /\ Cardinality(U \ {x}) \in Nat
      BY <2>3, FS_Subset, FS_RemoveElement, FS_CardinalityType
    <2>5. Cardinality(U \ {x}) \notin R
      <3>1. n \in Nat
        BY DEF R
      <3>. QED  BY <2>1, <2>2, <2>4, <3>1
    <2>. QED  BY <2>2, <2>3, <2>4, <2>5 DEF R
  <1>. QED  BY <1>1

\* What a function makes of a finite set is finite.
LEMMA ImagemFinita ==
  ASSUME NEW S, IsFiniteSet(S), NEW f, f = [x \in S |-> f[x]]
  PROVE  IsFiniteSet({f[x] : x \in S})
  <1>1. f \in Surjection(S, {f[x] : x \in S})
    BY DEF Surjection
  <1>. QED  BY <1>1, FS_Surjection

-----------------------------------------------------------------------------
(* Sums.  A sum does not depend on the order it is made in: g has the sums  *)
(* of f over every subset of S.                                             *)

Somas(f, S, g) ==
  /\ g \in [SUBSET S -> Nat] /\ g[{}] = 0
  /\ \A T \in SUBSET S : \A x \in T : g[T] = f[x] + g[T \ {x}]

LEMMA SomasExistem ==
  ASSUME NEW S, IsFiniteSet(S), NEW f \in [S -> Nat]
  PROVE  \E g : Somas(f, S, g)
  <1>. DEFINE B == {T \in SUBSET S : \E g : Somas(f, T, g)}
  <1>1. {} \in B
    <2>1. Somas(f, {}, [T \in SUBSET {} |-> 0])
      BY DEF Somas
    <2>. QED  BY <2>1
  <1>2. ASSUME NEW T \in SUBSET S, NEW x \in T, T \ {x} \in B
        PROVE  T \in B
    <2>1. PICK g : Somas(f, T \ {x}, g)
      BY <1>2
    <2>. DEFINE h == [U \in SUBSET T |-> IF x \in U THEN f[x] + g[U \ {x}] ELSE g[U]]
    <2>2. ASSUME NEW U \in SUBSET T PROVE g[U \ {x}] \in Nat /\ h[U] = IF x \in U THEN f[x] + g[U \ {x}] ELSE g[U]
      <3>1. U \ {x} \in SUBSET (T \ {x})
        OBVIOUS
      <3>. QED  BY <2>1, <3>1 DEF Somas
    <2>. HIDE DEF h
    <2>3. h \in [SUBSET T -> Nat]
      <3>1. ASSUME NEW U \in SUBSET T PROVE (IF x \in U THEN f[x] + g[U \ {x}] ELSE g[U]) \in Nat
        <4>1. f[x] \in Nat
          OBVIOUS
        <4>2. x \notin U => U = U \ {x}
          OBVIOUS
        <4>. QED  BY <2>2, <4>1, <4>2
      <3>. QED  BY <3>1 DEF h
    <2>4. h[{}] = 0
      BY <2>1, <2>2 DEF Somas
    <2>5. ASSUME NEW U \in SUBSET T, NEW y \in U PROVE h[U] = f[y] + h[U \ {y}]
      <3>1. f[x] \in Nat /\ f[y] \in Nat
        OBVIOUS
      <3>2. CASE y = x
        <4>1. h[U] = f[x] + g[U \ {x}] /\ h[U \ {x}] = g[U \ {x}]
          BY <2>2, <3>2
        <4>. QED  BY <3>2, <4>1
      <3>3. CASE y # x /\ x \in U
        <4>. DEFINE V == U \ {x}
        <4>1. V \in SUBSET (T \ {x}) /\ y \in V /\ (U \ {y}) \ {x} = V \ {y}
          BY <3>3
        <4>. HIDE DEF V
        <4>2. g[V] = f[y] + g[V \ {y}] /\ g[V \ {y}] \in Nat
          BY <2>1, <4>1 DEF Somas
        <4>3. h[U] = f[x] + g[V] /\ h[U \ {y}] = f[x] + g[V \ {y}]
          BY <2>2, <3>3, <4>1 DEF V
        <4>. QED  BY <3>1, <4>2, <4>3
      <3>4. CASE x \notin U
        <4>1. U \in SUBSET (T \ {x})
          BY <3>4
        <4>2. g[U] = f[y] + g[U \ {y}]
          BY <2>1, <4>1 DEF Somas
        <4>. QED  BY <2>2, <3>4, <4>2
      <3>. QED  BY <3>2, <3>3, <3>4
    <2>6. Somas(f, T, h)
      BY <2>3, <2>4, <2>5 DEF Somas
    <2>. QED  BY <2>6
  <1>3. \A T \in SUBSET S : T # {} => \E x \in T : T \ {x} \in B => T \in B
    BY <1>2
  <1>. HIDE DEF B
  <1>4. S \in B
    BY <1>1, <1>3, CrescendoTodos
  <1>. QED  BY <1>4 DEF B

\* What the module of the community adds up is that.
LEMMA SomaExata ==
  ASSUME NEW S, IsFiniteSet(S), NEW f \in [S -> Nat], NEW g, Somas(f, S, g), NEW T \in SUBSET S
  PROVE  SumFunctionOnSet(f, T) = g[T]
  <1>. DEFINE Passo(h, U) == IF U = {} THEN 0 ELSE f[CHOOSE x \in U : TRUE] + h[U \ {CHOOSE x \in U : TRUE}]
              iter == CHOOSE h : h = [U \in SUBSET T |-> Passo(h, U)]
  <1>1. SumFunctionOnSet(f, T) = iter[T]
    BY DEF SumFunctionOnSet, FoldFunctionOnSet, MapThenFoldSet
  <1>2. \E h : h = [U \in SUBSET T |-> Passo(h, U)]
    <2>. DEFINE k == [U \in SUBSET T |-> g[U]]
    <2>1. ASSUME NEW U \in SUBSET T PROVE k[U] = Passo(k, U)
      <3>1. CASE U = {}
        BY <3>1 DEF Somas
      <3>2. CASE U # {}
        <4>1. PICK x : x = CHOOSE y \in U : TRUE
          OBVIOUS
        <4>2. x \in U
          BY <3>2, <4>1
        <4>3. U \in SUBSET S /\ U \ {x} \in SUBSET T
          OBVIOUS
        <4>4. k[U] = g[U] /\ k[U \ {x}] = g[U \ {x}]
          BY <4>3
        <4>5. g[U] = f[x] + g[U \ {x}]
          BY <4>2, <4>3 DEF Somas
        <4>. QED  BY <3>2, <4>1, <4>4, <4>5
      <3>. QED  BY <3>1, <3>2
    <2>2. k = [U \in SUBSET T |-> Passo(k, U)]
      BY <2>1
    <2>. QED  BY <2>2
  <1>3. iter = [U \in SUBSET T |-> Passo(iter, U)]
    BY <1>2
  <1>. HIDE DEF iter
  <1>. DEFINE B == {U \in SUBSET T : iter[U] = g[U]}
  <1>4. IsFiniteSet(T)
    BY FS_Subset
  <1>5. {} \in B
    BY <1>3 DEF Somas
  <1>6. ASSUME NEW U \in SUBSET T, U # {} PROVE \E x \in U : U \ {x} \in B => U \in B
    <2>1. PICK x : x = CHOOSE y \in U : TRUE
      OBVIOUS
    <2>2. x \in U
      BY <1>6, <2>1
    <2>3. iter[U] = f[x] + iter[U \ {x}]
      BY <1>3, <1>6, <2>1
    <2>4. g[U] = f[x] + g[U \ {x}]
      BY <2>2 DEF Somas
    <2>. QED  BY <2>2, <2>3, <2>4
  <1>. HIDE DEF B
  <1>7. SUBSET T \subseteq B
    BY <1>4, <1>5, <1>6, CrescendoTodos
  <1>. QED  BY <1>1, <1>7 DEF B

LEMMA SomaBase ==
  ASSUME NEW S, IsFiniteSet(S), NEW f \in [S -> Nat]
  PROVE  /\ SumFunctionOnSet(f, {}) = 0
         /\ \A T \in SUBSET S : SumFunctionOnSet(f, T) \in Nat
         /\ \A T \in SUBSET S : \A x \in T :
              /\ SumFunctionOnSet(f, T) = f[x] + SumFunctionOnSet(f, T \ {x})
              /\ f[x] <= SumFunctionOnSet(f, T)
  <1>1. PICK g : Somas(f, S, g)
    BY SomasExistem
  <1>2. \A T \in SUBSET S : SumFunctionOnSet(f, T) = g[T]
    BY <1>1, SomaExata
  <1>3. ASSUME NEW T \in SUBSET S, NEW x \in T
        PROVE  g[T] = f[x] + g[T \ {x}] /\ g[T] \in Nat /\ g[T \ {x}] \in Nat /\ f[x] \in Nat
    BY <1>1 DEF Somas
  <1>4. ASSUME NEW T \in SUBSET S, NEW x \in T
        PROVE  /\ SumFunctionOnSet(f, T) = f[x] + SumFunctionOnSet(f, T \ {x})
               /\ f[x] <= SumFunctionOnSet(f, T)
    <2>1. T \ {x} \in SUBSET S
      OBVIOUS
    <2>2. SumFunctionOnSet(f, T) = g[T] /\ SumFunctionOnSet(f, T \ {x}) = g[T \ {x}]
      BY <1>2, <2>1
    <2>3. f[x] <= g[T]
      <3>. DEFINE a == f[x]
                  b == g[T \ {x}]
      <3>1. a \in Nat /\ b \in Nat /\ g[T] = a + b
        BY <1>3
      <3>. HIDE DEF a, b
      <3>2. a <= g[T]
        BY <3>1
      <3>. QED  BY <3>2 DEF a
    <2>. QED  BY <1>3, <2>2, <2>3
  <1>. QED  BY <1>1, <1>2, <1>4 DEF Somas

\* The sum over two sets with nothing in common is that of their sums.
LEMMA SomaDisjunta ==
  ASSUME NEW S, IsFiniteSet(S), NEW f \in [S -> Nat], NEW V \in SUBSET S, NEW U \in SUBSET S, U \cap V = {}
  PROVE  SumFunctionOnSet(f, U \cup V) = SumFunctionOnSet(f, U) + SumFunctionOnSet(f, V)
  <1>. DEFINE s(T) == SumFunctionOnSet(f, T)
              B == {T \in SUBSET U : s(T \cup V) = s(T) + s(V)}
  <1>0. s({}) = 0 /\ \A T \in SUBSET S : s(T) \in Nat
    BY SomaBase
  <1>1. ASSUME NEW T \in SUBSET S, NEW x \in T PROVE s(T) = f[x] + s(T \ {x})
    BY SomaBase
  <1>. HIDE DEF s
  <1>2. {} \in B
    <2>1. {} \cup V = V
      OBVIOUS
    <2>. QED  BY <1>0, <2>1
  <1>3. ASSUME NEW T \in SUBSET U, NEW x \in T, T \ {x} \in B PROVE T \in B
    <2>1. s(T) = f[x] + s(T \ {x})
      BY <1>1
    <2>2. s(T \cup V) = f[x] + s((T \ {x}) \cup V)
      <3>1. T \cup V \in SUBSET S /\ x \in T \cup V /\ (T \cup V) \ {x} = (T \ {x}) \cup V
        OBVIOUS
      <3>. QED  BY <1>1, <3>1
    <2>3. f[x] \in Nat /\ s(T \ {x}) \in Nat /\ s(V) \in Nat
      <3>1. x \in S /\ T \ {x} \in SUBSET S
        OBVIOUS
      <3>. QED  BY <1>0, <3>1
    <2>4. s((T \ {x}) \cup V) = s(T \ {x}) + s(V)
      BY <1>3
    <2>. QED  BY <2>1, <2>2, <2>3, <2>4
  <1>. HIDE DEF B
  <1>4. \A T \in SUBSET U : T # {} => \E x \in T : T \ {x} \in B => T \in B
    BY <1>3
  <1>5. IsFiniteSet(U)
    BY FS_Subset
  <1>6. SUBSET U \subseteq B
    BY <1>2, <1>4, <1>5, CrescendoTodos
  <1>. QED  BY <1>6 DEF B, s

\* Where two functions agree, their sums do.
LEMMA SomaIgual ==
  ASSUME NEW S, IsFiniteSet(S), NEW f, NEW h, NEW D, NEW E, f \in [D -> Nat], h \in [E -> Nat],
         S \subseteq D, S \subseteq E, IsFiniteSet(D), IsFiniteSet(E), \A x \in S : f[x] = h[x]
  PROVE  SumFunctionOnSet(f, S) = SumFunctionOnSet(h, S)
  <1>. DEFINE s(T) == SumFunctionOnSet(f, T)
              t(T) == SumFunctionOnSet(h, T)
              B == {T \in SUBSET S : s(T) = t(T)}
  <1>0. s({}) = 0 /\ t({}) = 0
    BY SomaBase
  <1>1. ASSUME NEW T \in SUBSET S, NEW x \in T
        PROVE  s(T) = f[x] + s(T \ {x}) /\ t(T) = h[x] + t(T \ {x})
    BY SomaBase
  <1>. HIDE DEF s, t
  <1>2. {} \in B
    BY <1>0
  <1>3. ASSUME NEW T \in SUBSET S, NEW x \in T, T \ {x} \in B PROVE T \in B
    BY <1>1, <1>3
  <1>. HIDE DEF B
  <1>4. \A T \in SUBSET S : T # {} => \E x \in T : T \ {x} \in B => T \in B
    BY <1>3
  <1>5. SUBSET S \subseteq B
    BY <1>2, <1>4, CrescendoTodos
  <1>. QED  BY <1>5 DEF B, s, t

\* What is counted as nothing adds nothing.
LEMMA SomaDeNada ==
  ASSUME NEW S, IsFiniteSet(S), NEW f \in [S -> Nat], NEW V \in SUBSET S, \A x \in V : f[x] = 0
  PROVE  SumFunctionOnSet(f, V) = 0
  <1>. DEFINE B == {T \in SUBSET V : SumFunctionOnSet(f, T) = 0}
  <1>1. {} \in B
    BY SomaBase
  <1>2. ASSUME NEW T \in SUBSET V, NEW x \in T, T \ {x} \in B PROVE T \in B
    <2>1. SumFunctionOnSet(f, T) = f[x] + SumFunctionOnSet(f, T \ {x})
      BY SomaBase
    <2>. QED  BY <1>2, <2>1
  <1>. HIDE DEF B
  <1>3. \A T \in SUBSET V : T # {} => \E x \in T : T \ {x} \in B => T \in B
    BY <1>2
  <1>4. SUBSET V \subseteq B
    BY <1>1, <1>3, CrescendoTodos, FS_Subset
  <1>. QED  BY <1>4 DEF B

\* What is one each adds up to how many there are.
LEMMA SomaDeUns ==
  ASSUME NEW S, IsFiniteSet(S), NEW f \in [S -> Nat], \A x \in S : f[x] = 1
  PROVE  SumFunctionOnSet(f, S) = Cardinality(S)
  <1>. DEFINE B == {T \in SUBSET S : SumFunctionOnSet(f, T) = Cardinality(T)}
  <1>1. {} \in B
    BY SomaBase, FS_EmptySet
  <1>2. ASSUME NEW T \in SUBSET S, NEW x \in T, T \ {x} \in B PROVE T \in B
    <2>1. SumFunctionOnSet(f, T) = f[x] + SumFunctionOnSet(f, T \ {x})
      BY SomaBase
    <2>2. Cardinality(T \ {x}) = Cardinality(T) - 1 /\ Cardinality(T) \in Nat
      BY FS_Subset, FS_RemoveElement, FS_CardinalityType
    <2>. QED  BY <1>2, <2>1, <2>2
  <1>. HIDE DEF B
  <1>3. \A T \in SUBSET S : T # {} => \E x \in T : T \ {x} \in B => T \in B
    BY <1>2
  <1>4. SUBSET S \subseteq B
    BY <1>1, <1>3, CrescendoTodos
  <1>. QED  BY <1>4 DEF B

\* Adding up by parts, the parts of the keys P, loses nothing and counts nothing twice.
LEMMA SomaPorPartes ==
  ASSUME NEW S, IsFiniteSet(S), NEW f \in [S -> Nat], NEW k, NEW P, IsFiniteSet(P),
         NEW t, t = [p \in P |-> SumFunctionOnSet(f, {x \in S : k[x] = p})]
  PROVE  t \in [P -> Nat] /\ SumFunctionOnSet(t, P) = SumFunctionOnSet(f, {x \in S : k[x] \in P})
  <1>. DEFINE De(Q) == {x \in S : k[x] \in Q}
              B == {Q \in SUBSET P : SumFunctionOnSet(t, Q) = SumFunctionOnSet(f, De(Q))}
  <1>1. t \in [P -> Nat]
    <2>1. \A p \in P : SumFunctionOnSet(f, {x \in S : k[x] = p}) \in Nat
      BY SomaBase
    <2>. QED  BY <2>1
  <1>2. {} \in B
    <2>1. De({}) = {}
      OBVIOUS
    <2>. QED  BY <1>1, <2>1, SomaBase
  <1>3. ASSUME NEW Q \in SUBSET P, NEW p \in Q, Q \ {p} \in B PROVE Q \in B
    <2>. DEFINE U == {x \in S : k[x] = p}
                V == De(Q \ {p})
    <2>1. De(Q) = U \cup V /\ U \cap V = {} /\ U \in SUBSET S /\ V \in SUBSET S
      OBVIOUS
    <2>2. SumFunctionOnSet(t, Q) = t[p] + SumFunctionOnSet(t, Q \ {p})
      <3>1. ASSUME NEW h \in [P -> Nat]
            PROVE  SumFunctionOnSet(h, Q) = h[p] + SumFunctionOnSet(h, Q \ {p})
        BY SomaBase
      <3>. QED  BY <1>1, <3>1
    <2>3. t[p] = SumFunctionOnSet(f, U)
      OBVIOUS
    <2>4. SumFunctionOnSet(t, Q \ {p}) = SumFunctionOnSet(f, V)
      BY <1>3
    <2>. HIDE DEF U, V, De
    <2>5. SumFunctionOnSet(f, De(Q)) = SumFunctionOnSet(f, U) + SumFunctionOnSet(f, V)
      BY <2>1, SomaDisjunta
    <2>. QED  BY <2>2, <2>3, <2>4, <2>5
  <1>. HIDE DEF B
  <1>4. \A Q \in SUBSET P : Q # {} => \E p \in Q : Q \ {p} \in B => Q \in B
    BY <1>3
  <1>5. SUBSET P \subseteq B
    BY <1>2, <1>4, CrescendoTodos
  <1>. QED  BY <1>1, <1>5 DEF B

-----------------------------------------------------------------------------
(* Rows.                                                                    *)

\* What is in a total order can be put in a row.
EmFila(T, R) ==
  \E s \in [1..Cardinality(T) -> T] : \A i, j \in 1..Cardinality(T) : i < j => <<s[i], s[j]>> \in R

LEMMA UltimoExiste ==
  ASSUME NEW S, IsFiniteSet(S), NEW R,
         \A x, y \in S : x = y \/ <<x, y>> \in R \/ <<y, x>> \in R,
         \A x, y, z \in S : <<x, y>> \in R /\ <<y, z>> \in R => <<x, z>> \in R
  PROVE  \A T \in SUBSET S : T # {} => \E m \in T : \A y \in T \ {m} : <<y, m>> \in R
  <1>. DEFINE B == {T \in SUBSET S : T # {} => \E m \in T : \A y \in T \ {m} : <<y, m>> \in R}
  <1>1. {} \in B
    OBVIOUS
  <1>2. ASSUME NEW T \in SUBSET S, NEW x \in T, T \ {x} \in B PROVE T \in B
    <2>1. CASE T \ {x} = {}
      BY <2>1
    <2>2. CASE T \ {x} # {}
      <3>1. PICK m \in T \ {x} : \A y \in (T \ {x}) \ {m} : <<y, m>> \in R
        BY <1>2, <2>2
      <3>2. CASE <<x, m>> \in R
        <4>1. \A y \in T \ {m} : <<y, m>> \in R
          BY <3>1, <3>2
        <4>. QED  BY <3>1, <4>1
      <3>3. CASE <<m, x>> \in R
        <4>1. \A y \in T \ {x} : <<y, x>> \in R
          BY <3>1, <3>3
        <4>. QED  BY <4>1
      <3>. QED  BY <3>1, <3>2, <3>3
    <2>. QED  BY <2>1, <2>2
  <1>. HIDE DEF B
  <1>3. \A T \in SUBSET S : T # {} => \E x \in T : T \ {x} \in B => T \in B
    BY <1>2
  <1>4. SUBSET S \subseteq B
    BY <1>1, <1>3, CrescendoTodos
  <1>. QED  BY <1>4 DEF B

LEMMA FilaExiste ==
  ASSUME NEW S, IsFiniteSet(S), NEW R,
         \A x, y \in S : x = y \/ <<x, y>> \in R \/ <<y, x>> \in R,
         \A x, y, z \in S : <<x, y>> \in R /\ <<y, z>> \in R => <<x, z>> \in R
  PROVE  EmFila(S, R)
  <1>. DEFINE B == {T \in SUBSET S : EmFila(T, R)}
  <1>1. {} \in B
    <2>1. Cardinality({}) = 0 /\ 1..0 = {}
      BY FS_EmptySet
    <2>2. [i \in 1..0 |-> 0] \in [1..0 -> {}]
      BY <2>1
    <2>. QED  BY <2>1, <2>2 DEF EmFila
  <1>2. ASSUME NEW T \in SUBSET S, NEW x \in T, \A y \in T \ {x} : <<y, x>> \in R, T \ {x} \in B
        PROVE  T \in B
    <2>. DEFINE n == Cardinality(T \ {x})
    <2>1. n \in Nat /\ Cardinality(T) = n + 1
      <3>1. IsFiniteSet(T)
        BY FS_Subset
      <3>2. Cardinality(T \ {x}) = Cardinality(T) - 1 /\ Cardinality(T) \in Nat /\ Cardinality(T \ {x}) \in Nat
        BY <3>1, FS_RemoveElement, FS_CardinalityType, FS_Subset
      <3>. QED  BY <3>2
    <2>2. PICK s \in [1..n -> T \ {x}] : \A i, j \in 1..n : i < j => <<s[i], s[j]>> \in R
      BY <1>2 DEF EmFila
    <2>. HIDE DEF n
    <2>. DEFINE z == [i \in 1..(n + 1) |-> IF i = n + 1 THEN x ELSE s[i]]
    <2>3. z[n + 1] = x /\ \A i \in 1..n : z[i] = s[i] /\ s[i] \in T \ {x}
      BY <2>1, <2>2
    <2>4. \A i \in 1..(n + 1) : i = n + 1 \/ i \in 1..n
      BY <2>1
    <2>5. z \in [1..(n + 1) -> T]
      BY <2>2, <2>3, <2>4
    <2>. HIDE DEF z
    <2>6. ASSUME NEW i \in 1..(n + 1), NEW j \in 1..(n + 1), i < j PROVE <<z[i], z[j]>> \in R
      <3>1. i \in 1..n
        BY <2>1, <2>6
      <3>2. CASE j = n + 1
        BY <1>2, <2>3, <3>1, <3>2
      <3>3. CASE j # n + 1
        BY <2>2, <2>3, <2>4, <2>6, <3>1, <3>3
      <3>. QED  BY <3>2, <3>3
    <2>7. EmFila(T, R)
      BY <2>1, <2>5, <2>6 DEF EmFila
    <2>. QED  BY <2>7
  <1>3. \A T \in SUBSET S : T # {} => \E x \in T : T \ {x} \in B => T \in B
    <2>1. ASSUME NEW T \in SUBSET S, T # {} PROVE \E x \in T : \A y \in T \ {x} : <<y, x>> \in R
      BY <2>1, UltimoExiste
    <2>. HIDE DEF B
    <2>. QED  BY <1>2, <2>1
  <1>. HIDE DEF B
  <1>4. S \in B
    BY <1>1, <1>3, CrescendoTodos
  <1>. QED  BY <1>4 DEF B

-----------------------------------------------------------------------------
(* One view on screen.                                                      *)

\* The panel begins with a view that begins.
LEMMA InicioDaTela ==
  ASSUME Init
  PROVE  /\ tela = "leituras"  => Reads!Init
         /\ tela = "edicoes"   => Edits!Init
         /\ tela = "fluxo"     => Stream!Init
         /\ tela = "rascunho"  => Draft!Init
         /\ tela = "plantas"   => Floor!Init
         /\ tela = "bancos"    => Data!Init
         /\ tela = "containers" => Board!Init
         /\ tela = "rede"      => Net!Init
         /\ tela = "auditoria" => Audit!Init
         /\ tela = "historico" => History!Init
         /\ tela = "esquema"   => Diagram!Init
         /\ tela = "malha"     => Mesh!Init
  BY DEF Init

\* A step of the panel is a step of the view on screen, which stays there.
LEMMA PassoDaTela ==
  ASSUME [Next]_memoria
  PROVE  /\ tela' = tela
         /\ tela = "leituras"  => [Reads!Next]_(Reads!vars)
         /\ tela = "edicoes"   => [Edits!Next]_(Edits!vars)
         /\ tela = "fluxo"     => [Stream!Next]_(Stream!vars)
         /\ tela = "rascunho"  => [Draft!Next]_(Draft!vars)
         /\ tela = "plantas"   => [Floor!Next]_(Floor!vars)
         /\ tela = "bancos"    => [Data!Next]_(Data!vars)
         /\ tela = "containers" => [Board!Next]_(Board!vars)
         /\ tela = "rede"      => [Net!Next]_(Net!vars)
         /\ tela = "auditoria" => [Audit!Next]_(Audit!vars)
         /\ tela = "historico" => [History!Next]_(History!vars)
         /\ tela = "esquema"   => [Diagram!Next]_(Diagram!vars)
         /\ tela = "malha"     => [Mesh!Next]_(Mesh!vars)
  <1>1. CASE UNCHANGED memoria
    BY <1>1 DEF memoria, Reads!vars, Edits!vars, Stream!vars, Draft!vars, Floor!vars, Data!vars,
                Board!vars, Net!vars, Audit!vars, History!vars, Diagram!vars, Mesh!vars
  <1>2. CASE Next
    BY <1>2 DEF Next, TelaDeLeituras, TelaDeEdicoes, TelaDeFluxo, TelaDeRascunho, TelaDePlantas,
                TelaDeBancos, TelaDeContainers, TelaDeRede, TelaDeAuditoria, TelaDeHistorico,
                TelaDeEsquema, TelaDeMalha
  <1>. QED  BY <1>1, <1>2

-----------------------------------------------------------------------------
(* The board of containers.  m1 are the containers, m2 the search, m3 the    *)
(* preferences, m4 what the storage holds, m6 the projects folded and m7 the *)
(* container whose log is open.                                              *)

\* The log on screen is of the container that was clicked.
LEMMA MesmoContainer ==
  Board!LiveSelected.id = m7.id
  BY DEF Board!LiveSelected

LEMMA BoardInicia ==
  ASSUME Board!Init
  PROVE  Board!TypeOK
  BY MesmoContainer DEF Board!Init, Board!TypeOK, Board!LoadContainerPrefs, Board!DEFAULT_CONTAINER_PREFS,
         Board!Prefs, Board!SORT_FIELDS, Board!DIRECTIONS

\* What is drawn is of the last list, and so of some answer.
LEMMA NoQuadro ==
  ASSUME Board!TypeOK
  PROVE  /\ Board!Visiveis \subseteq UNION Listas
         /\ DOMAIN Board!GroupContainers \subseteq {Board!Projeto(c) : c \in UNION Listas}
  <1>1. Board!Visiveis \subseteq UNION Listas
    BY DEF Board!TypeOK, Board!Visiveis
  <1>2. DOMAIN Board!GroupContainers = {Board!Projeto(c) : c \in Board!Visiveis}
    BY DEF Board!GroupContainers
  <1>. QED  BY <1>1, <1>2

LEMMA BoardMantem ==
  ASSUME Board!TypeOK, [Board!Next]_(Board!vars)
  PROVE  Board!TypeOK'
  <1>1. Board!LiveSelected'.id = m7'.id
    BY DEF Board!LiveSelected
  <1>2. CASE Board!Recarrega
    <2>1. m3' \in Board!Prefs
      BY <1>2 DEF Board!Recarrega, Board!Monta, Board!LoadContainerPrefs, Board!DEFAULT_CONTAINER_PREFS,
         Board!Prefs, Board!SORT_FIELDS, Board!DIRECTIONS
    <2>. QED  BY <1>1, <1>2, <2>1 DEF Board!Recarrega, Board!Monta, Board!TypeOK
  <1>3. CASE Board!FetchMetrics \/ Board!Busca \/ UNCHANGED Board!vars
    BY <1>1, <1>3 DEF Board!FetchMetrics, Board!Busca, Board!vars, Board!TypeOK
  <1>4. ASSUME NEW p \in Board!Prefs, Board!UpdatePrefs(p)
        PROVE  Board!TypeOK'
    BY <1>1, <1>4 DEF Board!UpdatePrefs, Board!SaveContainerPrefs, Board!TypeOK
  <1>5. CASE Board!OcultaOuMostra
    <2>1. [m3 EXCEPT !.hideStopped = ~@] \in Board!Prefs
      BY DEF Board!TypeOK, Board!Prefs
    <2>. QED  BY <1>4, <1>5, <2>1 DEF Board!OcultaOuMostra
  <1>6. CASE Board!Ordena
    <2>1. ASSUME NEW campo \in Board!SORT_FIELDS, NEW sentido \in Board!DIRECTIONS
          PROVE  [m3 EXCEPT !.sortBy = campo, !.direction = sentido] \in Board!Prefs
      BY DEF Board!TypeOK, Board!Prefs
    <2>. QED  BY <1>4, <1>6, <2>1 DEF Board!Ordena
  <1>7. CASE Board!ToggleProject
    <2>1. m6' \subseteq {Board!Projeto(c) : c \in UNION Listas}
      BY <1>7, NoQuadro DEF Board!ToggleProject, Board!TypeOK
    <2>. QED  BY <1>1, <1>7, <2>1 DEF Board!ToggleProject, Board!TypeOK
  <1>8. CASE Board!SelecionarContainer
    <2>1. m7' \in (UNION Listas) \cup {Board!SemContainer}
      BY <1>8, NoQuadro DEF Board!SelecionarContainer, Board!Linhas
    <2>. QED  BY <1>1, <1>8, <2>1 DEF Board!SelecionarContainer, Board!TypeOK
  <1>. QED  BY <1>2, <1>3, <1>5, <1>6, <1>7, <1>8 DEF Board!Next

\* The order of two measures: what was not measured comes after the others.
LEMMA MedidasEmOrdem ==
  ASSUME NEW sinal \in {1, -1}, NEW u \in Nat \cup {-1}, NEW v \in Nat \cup {-1}, NEW w \in Nat \cup {-1}
  PROVE  LET c(a, b) == Board!CompararNumeros(a, b, sinal)
         IN /\ c(u, v) \in Int /\ (c(u, v) = 0 <=> u = v)
            /\ c(u, v) < 0 \/ u = v \/ c(v, u) < 0
            /\ c(u, v) < 0 /\ c(v, w) < 0 => c(u, w) < 0
            /\ c(u, v) <= 0 => v = -1 \/ (u # -1 /\ (IF sinal = 1 THEN u <= v ELSE u >= v))
  <1>1. CASE sinal = 1
    BY <1>1 DEF Board!CompararNumeros, Board!Nulo
  <1>2. CASE sinal = -1
    BY <1>2 DEF Board!CompararNumeros, Board!Nulo
  <1>. QED  BY <1>1, <1>2

Medida(c) == c[m3.sortBy]
Comparadas(a, b) == Board!CompararNumeros(Medida(a), Medida(b), Board!Sinal)

\* What is drawn is of one list, so an identifier is of one container.
LEMMA Desenhados ==
  ASSUME Board!ConstantesOk, Board!TypeOK
  PROVE  /\ IsFiniteSet(Board!Visiveis) /\ Board!Sinal \in {1, -1}
         /\ \A c \in Board!Visiveis : /\ c.id \in Nat /\ c.name \in Nat /\ c.mem \in Nat
                                      /\ Medida(c) \in Nat \cup {-1}
         /\ \A a, b \in Board!Visiveis : a.id = b.id => a = b
  <1>1. Board!Visiveis \subseteq m1 /\ (m1 \in Listas \/ m1 = {})
    BY DEF Board!Visiveis, Board!TypeOK
  <1>2. IsFiniteSet(m1)
    BY <1>1, FS_EmptySet DEF Board!ConstantesOk, Board!IsFiniteSet, IsFiniteSet
  <1>3. IsFiniteSet(Board!Visiveis)
    BY <1>1, <1>2, FS_Subset
  <1>4. Board!Sinal \in {1, -1}
    BY DEF Board!Sinal
  <1>5. ASSUME NEW c \in Board!Visiveis
        PROVE  c.id \in Nat /\ c.name \in Nat /\ c.mem \in Nat /\ c.cpu \in Nat \cup {-1}
    BY <1>1 DEF Board!ConstantesOk, Board!Nulo
  <1>6. m3.sortBy \in {"name", "cpu", "mem"}
    BY DEF Board!TypeOK, Board!Prefs, Board!SORT_FIELDS
  <1>7. ASSUME NEW c \in Board!Visiveis PROVE Medida(c) \in Nat \cup {-1}
    BY <1>5, <1>6 DEF Medida
  <1>8. \A a, b \in Board!Visiveis : a.id = b.id => a = b
    BY <1>1 DEF Board!ConstantesOk
  <1>. QED  BY <1>3, <1>4, <1>5, <1>7, <1>8

\* A container comes before another by the measure, then by the name, then by the place.
LEMMA AntesDoOutro ==
  ASSUME Board!ConstantesOk, Board!TypeOK, NEW a \in Board!Visiveis, NEW b \in Board!Visiveis
  PROVE  Board!Antes(a, b) <=> \/ Comparadas(a, b) < 0
                               \/ Medida(a) = Medida(b) /\ (a.name < b.name \/ (a.name = b.name /\ a.id < b.id))
  <1>1. /\ Medida(a) \in Nat \cup {-1} /\ Medida(b) \in Nat \cup {-1} /\ Board!Sinal \in {1, -1}
        /\ a.id \in Nat /\ b.id \in Nat /\ a.name \in Nat /\ b.name \in Nat
    BY Desenhados
  <1>2. Comparadas(a, b) \in Int /\ (Comparadas(a, b) = 0 <=> Medida(a) = Medida(b))
    BY <1>1, MedidasEmOrdem DEF Comparadas
  <1>3. Board!Compare(a, b) = IF Comparadas(a, b) # 0 THEN Comparadas(a, b)
                              ELSE IF a.name # b.name THEN a.name - b.name ELSE a.id - b.id
    <2>1. m3.sortBy = "name" => Comparadas(a, b) = Board!Sinal * (a.name - b.name)
      BY <1>1 DEF Comparadas, Medida, Board!CompararNumeros, Board!Nulo
    <2>. QED  BY <2>1 DEF Board!Compare, Comparadas, Medida
  <1>. DEFINE c == Comparadas(a, b)
              x == a.name
              y == b.name
              i == a.id
              j == b.id
              d == Board!Compare(a, b)
  <1>4. d < 0 <=> c < 0 \/ (c = 0 /\ (x < y \/ (x = y /\ i < j)))
    <2>1. c \in Int /\ x \in Nat /\ y \in Nat /\ i \in Nat /\ j \in Nat
      BY <1>1, <1>2
    <2>2. d = IF c # 0 THEN c ELSE IF x # y THEN x - y ELSE i - j
      BY <1>3
    <2>. HIDE DEF c, x, y, i, j, d
    <2>. QED  BY <2>1, <2>2
  <1>. QED  BY <1>2, <1>4 DEF Board!Antes

\* That order is total, and transitive.
LEMMA OrdemTotal ==
  ASSUME Board!ConstantesOk, Board!TypeOK, NEW a \in Board!Visiveis, NEW b \in Board!Visiveis,
         NEW c \in Board!Visiveis
  PROVE  /\ a = b \/ Board!Antes(a, b) \/ Board!Antes(b, a)
         /\ Board!Antes(a, b) /\ Board!Antes(b, c) => Board!Antes(a, c)
  <1>1. /\ Medida(a) \in Nat \cup {-1} /\ Medida(b) \in Nat \cup {-1} /\ Medida(c) \in Nat \cup {-1}
        /\ Board!Sinal \in {1, -1}
        /\ a.id \in Nat /\ b.id \in Nat /\ c.id \in Nat /\ a.name \in Nat /\ b.name \in Nat /\ c.name \in Nat
        /\ (a.id = b.id => a = b)
    BY Desenhados
  <1>2. /\ Comparadas(a, b) < 0 \/ Medida(a) = Medida(b) \/ Comparadas(b, a) < 0
        /\ Comparadas(a, b) < 0 /\ Comparadas(b, c) < 0 => Comparadas(a, c) < 0
    BY <1>1, MedidasEmOrdem DEF Comparadas
  <1>3. /\ Medida(a) = Medida(b) => Comparadas(a, c) = Comparadas(b, c)
        /\ Medida(b) = Medida(c) => Comparadas(a, b) = Comparadas(a, c)
    BY DEF Comparadas
  <1>4. a = b \/ Board!Antes(a, b) \/ Board!Antes(b, a)
    <2>1. a.name < b.name \/ b.name < a.name \/ a.id < b.id \/ b.id < a.id \/ a.id = b.id
      BY <1>1
    <2>2. a.name = b.name \/ a.name < b.name \/ b.name < a.name
      BY <1>1
    <2>3. a.id = b.id \/ a.id < b.id \/ b.id < a.id
      BY <1>1
    <2>. QED  BY <1>1, <1>2, <2>2, <2>3, AntesDoOutro, Zenon
  <1>5. ASSUME Board!Antes(a, b), Board!Antes(b, c) PROVE Board!Antes(a, c)
    <2>. DEFINE Desempata(p, q) == p.name < q.name \/ (p.name = q.name /\ p.id < q.id)
    <2>1. Desempata(a, b) /\ Desempata(b, c) => Desempata(a, c)
      BY <1>1
    <2>2. /\ Comparadas(a, b) < 0 \/ (Medida(a) = Medida(b) /\ Desempata(a, b))
          /\ Comparadas(b, c) < 0 \/ (Medida(b) = Medida(c) /\ Desempata(b, c))
      BY <1>5, AntesDoOutro
    <2>3. Board!Antes(a, c) <=> Comparadas(a, c) < 0 \/ (Medida(a) = Medida(c) /\ Desempata(a, c))
      BY AntesDoOutro
    <2>. HIDE DEF Desempata
    <2>. QED  BY <1>2, <1>3, <2>1, <2>2, <2>3, Zenon
  <1>. QED  BY <1>4, <1>5

\* The rows of some containers on screen are those containers, in order.
LEMMA LinhasEmOrdem ==
  ASSUME Board!ConstantesOk, Board!TypeOK, NEW D \in SUBSET Board!Visiveis
  PROVE  LET s == Board!EmOrdem(D)
         IN /\ s \in [1..Cardinality(D) -> D]
            /\ \A i, j \in 1..Cardinality(D) : i < j => Board!Antes(s[i], s[j])
  <1>. DEFINE R == {q \in D \X D : Board!Antes(q[1], q[2])}
              n == Cardinality(D)
  <1>1. IsFiniteSet(D)
    BY Desenhados, FS_Subset
  <1>2. \A x, y \in D : x = y \/ <<x, y>> \in R \/ <<y, x>> \in R
    BY OrdemTotal
  <1>3. \A x, y, z \in D : <<x, y>> \in R /\ <<y, z>> \in R => <<x, z>> \in R
    BY OrdemTotal
  <1>4. \A x, y \in D : <<x, y>> \in R => Board!Antes(x, y)
    OBVIOUS
  <1>. HIDE DEF R
  <1>5. EmFila(D, R)
    BY <1>1, <1>2, <1>3, FilaExiste
  <1>6. \E s \in [1..n -> D] : \A i, j \in 1..n : i < j => Board!Antes(s[i], s[j])
    BY <1>4, <1>5 DEF EmFila
  <1>7. Board!EmOrdem(D) = CHOOSE s \in [1..n -> D] : \A i, j \in DOMAIN s : i < j => Board!Antes(s[i], s[j])
    BY DEF Board!EmOrdem, Board!Cardinality, Cardinality
  <1>. HIDE DEF n
  <1>8. \E s \in [1..n -> D] : \A i, j \in DOMAIN s : i < j => Board!Antes(s[i], s[j])
    BY <1>6
  <1>9. LET s == Board!EmOrdem(D)
        IN s \in [1..n -> D] /\ \A i, j \in DOMAIN s : i < j => Board!Antes(s[i], s[j])
    BY <1>7, <1>8
  <1>. QED  BY <1>9 DEF n

\* The sums of the module are those of the section above.
LEMMA SomaDoQuadro ==
  \A f : Board!SumFunction(f) = SumFunctionOnSet(f, DOMAIN f)
  BY DEF Board!SumFunction, Board!SumFunctionOnSet, Board!FoldFunctionOnSet, Board!MapThenFoldSet,
         SumFunctionOnSet, FoldFunctionOnSet, MapThenFoldSet

\* What is added up project by project is added up once each.
LEMMA SomaPorProjeto ==
  ASSUME Board!ConstantesOk, Board!TypeOK, NEW f \in [Board!Visiveis -> Nat], NEW t,
         t = [p \in DOMAIN Board!GroupContainers |-> SumFunctionOnSet(f, Board!DoProjeto(p))]
  PROVE  Board!SumFunction(t) = SumFunctionOnSet(f, Board!Visiveis)
  <1>. DEFINE V == Board!Visiveis
              P == {Board!Projeto(c) : c \in V}
              k == [c \in V |-> Board!Projeto(c)]
  <1>1. IsFiniteSet(V) /\ IsFiniteSet(P)
    <2>1. IsFiniteSet(V) /\ P = {k[c] : c \in V} /\ k = [c \in V |-> k[c]]
      BY Desenhados
    <2>. HIDE DEF k, V, P
    <2>2. IsFiniteSet({k[c] : c \in V})
      BY <2>1, ImagemFinita
    <2>. QED  BY <2>1, <2>2
  <1>2. DOMAIN Board!GroupContainers = P
    BY DEF Board!GroupContainers
  <1>3. \A p : Board!DoProjeto(p) = {c \in V : k[c] = p}
    BY DEF Board!DoProjeto
  <1>4. {c \in V : k[c] \in P} = V
    OBVIOUS
  <1>. HIDE DEF V, P, k
  <1>5. f \in [V -> Nat] /\ t = [p \in P |-> SumFunctionOnSet(f, {c \in V : k[c] = p})]
    BY <1>2, <1>3 DEF V
  <1>6. SumFunctionOnSet(t, P) = SumFunctionOnSet(f, {c \in V : k[c] \in P})
    BY <1>1, <1>5, SomaPorPartes
  <1>7. Board!SumFunction(t) = SumFunctionOnSet(t, P)
    BY <1>5, SomaDoQuadro
  <1>. QED  BY <1>4, <1>6, <1>7 DEF V

LEMMA QuadroOrdenado ==
  ASSUME Board!ConstantesOk, Board!TypeOK
  PROVE  Board!OrdemESoma
  <1>. DEFINE V == Board!Visiveis
              grupos == Board!GroupContainers
              memoria_de == [c \in V |-> c.mem]
              um == [c \in V |-> 1]
  <1>1. \A p : Board!DoProjeto(p) \subseteq V
    BY DEF Board!DoProjeto
  <1>2. IsFiniteSet(V) /\ memoria_de \in [V -> Nat] /\ um \in [V -> Nat]
    BY Desenhados
  <1>3. ASSUME NEW p \in DOMAIN grupos
        PROVE  /\ grupos[p].containers = Board!EmOrdem(Board!DoProjeto(p))
               /\ grupos[p].memTotal = Board!TotalDeMemoria(Board!DoProjeto(p))
    BY DEF Board!GroupContainers
  <1>4. ASSUME NEW D \in SUBSET V
        PROVE  Board!TotalDeMemoria(D) = SumFunctionOnSet(memoria_de, D)
    <2>. DEFINE g == [c \in D |-> c.mem]
    <2>1. IsFiniteSet(D) /\ g \in [D -> Nat] /\ \A c \in D : g[c] = memoria_de[c]
      BY <1>2, Desenhados, FS_Subset
    <2>2. Board!TotalDeMemoria(D) = SumFunctionOnSet(g, D)
      BY SomaDoQuadro DEF Board!TotalDeMemoria
    <2>. HIDE DEF g, memoria_de, V
    <2>3. SumFunctionOnSet(g, D) = SumFunctionOnSet(memoria_de, D)
      BY <1>2, <2>1, SomaIgual
    <2>. QED  BY <2>2, <2>3
  <1>5. ASSUME NEW D \in SUBSET V
        PROVE  Len(Board!EmOrdem(D)) = SumFunctionOnSet(um, D)
    <2>1. IsFiniteSet(D) /\ Cardinality(D) \in Nat
      BY <1>2, FS_Subset, FS_CardinalityType
    <2>2. Board!EmOrdem(D) \in [1..Cardinality(D) -> D]
      BY LinhasEmOrdem
    <2>3. Len(Board!EmOrdem(D)) = Cardinality(D)
      BY <2>1, <2>2
    <2>. DEFINE g == [c \in D |-> 1]
    <2>4. g \in [D -> Nat] /\ \A c \in D : g[c] = 1 /\ um[c] = 1
      OBVIOUS
    <2>. HIDE DEF g, um, V
    <2>5. SumFunctionOnSet(g, D) = Cardinality(D)
      BY <2>1, <2>4, SomaDeUns
    <2>6. SumFunctionOnSet(g, D) = SumFunctionOnSet(um, D)
      BY <1>2, <2>1, <2>4, SomaIgual
    <2>. QED  BY <2>3, <2>5, <2>6
  <1>6. ASSUME NEW p \in DOMAIN grupos, NEW i \in DOMAIN grupos[p].containers, NEW j \in DOMAIN grupos[p].containers,
               i < j
        PROVE  LET a == grupos[p].containers[i]
                   b == grupos[p].containers[j]
               IN \/ Medida(b) = Board!Nulo
                  \/ /\ Medida(a) # Board!Nulo
                     /\ IF Board!Sinal = 1 THEN Medida(a) <= Medida(b) ELSE Medida(a) >= Medida(b)
    <2>. DEFINE s == Board!EmOrdem(Board!DoProjeto(p))
    <2>1. grupos[p].containers = s
      BY <1>3
    <2>2. s[i] \in V /\ s[j] \in V /\ Board!Antes(s[i], s[j])
      BY <1>1, <1>6, <2>1, LinhasEmOrdem
    <2>. HIDE DEF s, V, grupos
    <2>3. Comparadas(s[i], s[j]) <= 0
      <3>1. Medida(s[i]) \in Nat \cup {-1} /\ Medida(s[j]) \in Nat \cup {-1} /\ Board!Sinal \in {1, -1}
        BY <2>2, Desenhados DEF V
      <3>2. Comparadas(s[i], s[j]) \in Int /\ (Comparadas(s[i], s[j]) = 0 <=> Medida(s[i]) = Medida(s[j]))
        BY <3>1, MedidasEmOrdem DEF Comparadas
      <3>3. Comparadas(s[i], s[j]) < 0 \/ Medida(s[i]) = Medida(s[j])
        BY <2>2, AntesDoOutro DEF V
      <3>. QED  BY <3>2, <3>3
    <2>4. Medida(s[i]) \in Nat \cup {-1} /\ Medida(s[j]) \in Nat \cup {-1} /\ Board!Sinal \in {1, -1}
      BY <2>2, Desenhados DEF V
    <2>. QED  BY <2>1, <2>3, <2>4, MedidasEmOrdem DEF Comparadas, Board!Nulo
  <1>7. Board!SumFunction([p \in DOMAIN grupos |-> grupos[p].memTotal]) = Board!TotalDeMemoria(V)
    <2>. DEFINE t == [p \in DOMAIN grupos |-> SumFunctionOnSet(memoria_de, Board!DoProjeto(p))]
    <2>1. t = [p \in DOMAIN grupos |-> grupos[p].memTotal]
      BY <1>1, <1>3, <1>4
    <2>2. Board!SumFunction(t) = SumFunctionOnSet(memoria_de, V)
      <3>. HIDE DEF memoria_de
      <3>. QED  BY <1>2, SomaPorProjeto
    <2>. QED  BY <1>4, <2>1, <2>2
  <1>8. Board!SumFunction([p \in DOMAIN grupos |-> Len(grupos[p].containers)]) = Cardinality(V)
    <2>. DEFINE t == [p \in DOMAIN grupos |-> SumFunctionOnSet(um, Board!DoProjeto(p))]
    <2>1. t = [p \in DOMAIN grupos |-> Len(grupos[p].containers)]
      BY <1>1, <1>3, <1>5
    <2>2. Board!SumFunction(t) = SumFunctionOnSet(um, V)
      <3>. HIDE DEF um
      <3>. QED  BY <1>2, SomaPorProjeto
    <2>3. SumFunctionOnSet(um, V) = Cardinality(V)
      BY <1>2, SomaDeUns
    <2>. QED  BY <2>1, <2>2, <2>3
  <1>. HIDE DEF memoria_de, um
  <1>. QED  BY <1>6, <1>7, <1>8 DEF Board!OrdemESoma, Medida, Board!Cardinality, Cardinality

\* The preferences on screen are those the storage has, or would have.
BoardInv == Board!TypeOK /\ Board!PreferenciaVolta

LEMMA PreferenciaMantem ==
  ASSUME Board!TypeOK, Board!PreferenciaVolta, [Board!Next]_(Board!vars)
  PROVE  Board!PreferenciaVolta'
  <1>1. ASSUME NEW p \in Board!Prefs, Board!UpdatePrefs(p) PROVE Board!PreferenciaVolta'
    BY <1>1 DEF Board!UpdatePrefs, Board!SaveContainerPrefs, Board!PreferenciaVolta, Board!LoadContainerPrefs
  <1>2. CASE Board!OcultaOuMostra
    <2>1. [m3 EXCEPT !.hideStopped = ~@] \in Board!Prefs
      BY DEF Board!TypeOK, Board!Prefs
    <2>. QED  BY <1>1, <1>2, <2>1 DEF Board!OcultaOuMostra
  <1>3. CASE Board!Ordena
    <2>1. ASSUME NEW campo \in Board!SORT_FIELDS, NEW sentido \in Board!DIRECTIONS
          PROVE  [m3 EXCEPT !.sortBy = campo, !.direction = sentido] \in Board!Prefs
      BY DEF Board!TypeOK, Board!Prefs
    <2>. QED  BY <1>1, <1>3, <2>1 DEF Board!Ordena
  <1>4. CASE Board!Recarrega
    BY <1>4 DEF Board!Recarrega, Board!Monta, Board!PreferenciaVolta, Board!LoadContainerPrefs
  <1>5. CASE UNCHANGED <<m3, m4, m5>>
    BY <1>5 DEF Board!PreferenciaVolta, Board!LoadContainerPrefs
  <1>. QED  BY <1>2, <1>3, <1>4, <1>5 DEF Board!Next, Board!vars, Board!FetchMetrics, Board!Busca,
               Board!ToggleProject, Board!SelecionarContainer

LEMMA QuadroInicia ==
  ASSUME Board!Init
  PROVE  BoardInv
  BY BoardInicia DEF BoardInv, Board!Init, Board!PreferenciaVolta

LEMMA QuadroMantem ==
  ASSUME BoardInv, [Board!Next]_(Board!vars)
  PROVE  BoardInv'
  BY BoardMantem, PreferenciaMantem DEF BoardInv

\* Whatever lists of containers come and however they are searched, folded and ordered,
\* each project holds its containers once, in the order chosen and with what was not
\* measured at the end, the sums are of what is drawn, and the preferences come back
\* (lib/containers.ts, ContainersView.tsx).
THEOREM OrdemSempreCerta ==
  ASSUME ConstantesDasTelas
  PROVE  Spec => []OrdemESoma
  <1>. DEFINE Inv == tela = "containers" => BoardInv
  <1>1. Init => Inv
    BY InicioDaTela, QuadroInicia
  <1>2. Inv /\ [Next]_memoria => Inv'
    BY PassoDaTela, QuadroMantem
  <1>3. Inv => OrdemESoma
    BY QuadroOrdenado DEF ConstantesDasTelas, BoardInv, OrdemESoma
  <1>. QED  BY <1>1, <1>2, <1>3, PTL DEF Spec

-----------------------------------------------------------------------------
(* The mesh.  m1 are the machines, m2 the links, m3 the lines of traffic.    *)

LEMMA MalhaMantem ==
  ASSUME Mesh!ConstantesOk, Mesh!TypeOK, [Mesh!Next]_(Mesh!vars)
  PROVE  Mesh!TypeOK'
  <1>1. CASE Mesh!Next
    <2>1. PICK dono \in Mesh!Balanceadores \cup {Mesh!SEM_DONO}, ups \in Mesh!Tentativas, status \in Mesh!Classes :
             Mesh!Chega(dono, ups, status)
      BY <1>1 DEF Mesh!Next
    <2>2. dono \in Nat
      BY DEF Mesh!Balanceadores, Mesh!NaMalha, Mesh!TypeOK, Mesh!ConstantesOk, Mesh!SEM_DONO
    <2>3. [dono |-> dono, upstreams |-> ups, status |-> status, reqs |-> 1] \in Mesh!Linhas
      BY <2>2 DEF Mesh!Linhas
    <2>. DEFINE linha == [dono |-> dono, upstreams |-> ups, status |-> status, reqs |-> 1]
    <2>. HIDE DEF linha
    <2>4. Len(m3) < MaxLinhas /\ m3' = Append(m3, linha) /\ m1' = m1 /\ m2' = m2
      BY <2>1 DEF Mesh!Chega, linha
    <2>5. m3 \in Seq(Mesh!Linhas) /\ linha \in Mesh!Linhas /\ MaxLinhas \in Nat
      BY <2>3 DEF Mesh!TypeOK, Mesh!ConstantesOk, linha
    <2>6. m3' \in Seq(Mesh!Linhas) /\ Len(m3') <= MaxLinhas
      BY <2>4, <2>5
    <2>. QED  BY <2>4, <2>6 DEF Mesh!TypeOK
  <1>. QED  BY <1>1 DEF Mesh!vars, Mesh!TypeOK

\* The first lines of traffic are of nobody: there are none.
LEMMA MalhaInicia ==
  ASSUME Mesh!ConstantesOk, Mesh!Init
  PROVE  Mesh!TypeOK
  BY DEF Mesh!ConstantesOk, Mesh!Init, Mesh!TypeOK

\* The sums of the module are those of the section above.
LEMMA SomaDaMalha ==
  \A f : Mesh!SumFunction(f) = SumFunctionOnSet(f, DOMAIN f)
  BY DEF Mesh!SumFunction, Mesh!SumFunctionOnSet, Mesh!FoldFunctionOnSet, Mesh!MapThenFoldSet,
         SumFunctionOnSet, FoldFunctionOnSet, MapThenFoldSet

\* Machines, destinations and lines are finitely many; what is drawn is a destination.
LEMMA MalhaFinita ==
  ASSUME Mesh!ConstantesOk, Mesh!TypeOK
  PROVE  /\ IsFiniteSet(Mesh!Destinos) /\ IsFiniteSet(DOMAIN m3) /\ IsFiniteSet(DOMAIN m1) /\ IsFiniteSet(m2)
         /\ Mesh!Vistos \subseteq Mesh!Upstreams /\ Mesh!Upstreams \subseteq Mesh!Destinos
         /\ IsFiniteSet(Mesh!Upstreams) /\ IsFiniteSet(Mesh!Vistos)
         /\ Len(m3) \in Nat /\ DOMAIN m3 = 1..Len(m3) /\ Mesh!SEM_DONO \notin DOMAIN m1
  <1>1. IsFiniteSet(HostsDaMalha) /\ IsFiniteSet(Portas) /\ IsFiniteSet(Enlaces) /\ IsFiniteSet(DOMAIN m1)
    BY DEF Mesh!ConstantesOk, Mesh!TypeOK, Mesh!IsFiniteSet, IsFiniteSet
  <1>2. IsFiniteSet(Mesh!Destinos)
    BY <1>1, FS_Product DEF Mesh!Destinos
  <1>3. IsFiniteSet(m2)
    BY <1>1, FS_Subset DEF Mesh!TypeOK
  <1>4. Len(m3) \in Nat /\ DOMAIN m3 = 1..Len(m3)
    BY DEF Mesh!TypeOK
  <1>5. IsFiniteSet(DOMAIN m3)
    BY <1>4, FS_Interval
  <1>6. Mesh!Vistos \subseteq Mesh!Upstreams /\ Mesh!Vistos \subseteq Mesh!Destinos
    BY DEF Mesh!Vistos, Mesh!Upstreams
  <1>7. ASSUME NEW e \in m2 PROVE Mesh!ComPorta(e.destino) \in Mesh!Destinos
    <2>1. e.destino \in HostsDaMalha \X (Portas \cup {Mesh!SemPorta}) /\ Mesh!PortaPadrao \in Portas
      BY DEF Mesh!TypeOK, Mesh!ConstantesOk
    <2>. QED  BY <2>1 DEF Mesh!ComPorta, Mesh!Destinos
  <1>8. Mesh!Upstreams \subseteq Mesh!Destinos
    BY <1>6, <1>7 DEF Mesh!Upstreams
  <1>9. Mesh!SEM_DONO \notin DOMAIN m1
    BY DEF Mesh!ConstantesOk, Mesh!TypeOK
  <1>10. IsFiniteSet(Mesh!Upstreams) /\ IsFiniteSet(Mesh!Vistos)
    BY <1>2, <1>6, <1>8, FS_Subset
  <1>. QED  BY <1>1, <1>2, <1>3, <1>4, <1>5, <1>6, <1>8, <1>9, <1>10

\* The number of times each line names a destination.
VezesPorLinha(d) == [i \in DOMAIN m3 |-> Mesh!Vezes(m3[i], d)]

LEMMA VezesTipo ==
  ASSUME Mesh!ConstantesOk, Mesh!TypeOK, NEW d
  PROVE  VezesPorLinha(d) \in [DOMAIN m3 -> Nat]
  <1>1. ASSUME NEW i \in DOMAIN m3 PROVE Mesh!Vezes(m3[i], d) \in Nat
    <2>. DEFINE ups == m3[i].upstreams
                T == {k \in DOMAIN ups : ups[k] = d}
    <2>1. m3[i] \in Mesh!Linhas
      BY DEF Mesh!TypeOK
    <2>2. ups \in Mesh!Tentativas
      BY <2>1 DEF Mesh!Linhas
    <2>3. DOMAIN ups \subseteq 1..2
      BY <2>2 DEF Mesh!Tentativas
    <2>4. T \in SUBSET (1..2)
      BY <2>3
    <2>. HIDE DEF T
    <2>5. Cardinality(T) \in Nat
      BY <2>4, Finito
    <2>. QED  BY <2>5 DEF Mesh!Vezes, Mesh!Cardinality, Cardinality, T
  <1>. QED  BY <1>1 DEF VezesPorLinha

\* What is counted of a destination is a sum of those.
LEMMA ContaSoma ==
  ASSUME Mesh!ConstantesOk, Mesh!TypeOK, NEW d, NEW quais
  PROVE  /\ Mesh!Conta(d, quais) = SumFunctionOnSet(VezesPorLinha(d), {j \in DOMAIN m3 : quais[j]})
         /\ Mesh!Conta(d, quais) \in Nat
  <1>. DEFINE T == {j \in DOMAIN m3 : quais[j]}
              f == VezesPorLinha(d)
              g == [i \in T |-> m3[i].reqs * Mesh!Vezes(m3[i], d)]
  <1>1. f \in [DOMAIN m3 -> Nat]
    BY VezesTipo
  <1>2. ASSUME NEW i \in T PROVE g[i] = f[i]
    <2>1. m3[i] \in Mesh!Linhas
      BY DEF Mesh!TypeOK
    <2>2. m3[i].reqs = 1
      BY <2>1 DEF Mesh!Linhas
    <2>3. Mesh!Vezes(m3[i], d) = f[i] /\ f[i] \in Nat
      BY <1>1 DEF VezesPorLinha
    <2>. QED  BY <2>2, <2>3
  <1>3. Mesh!Conta(d, quais) = SumFunctionOnSet(g, T)
    BY SomaDaMalha DEF Mesh!Conta
  <1>4. T \subseteq DOMAIN m3 /\ IsFiniteSet(T) /\ IsFiniteSet(DOMAIN m3)
    BY MalhaFinita, FS_Subset
  <1>5. g \in [T -> Nat]
    <2>1. \A i \in T : g[i] \in Nat
      BY <1>1, <1>2
    <2>2. g = [i \in T |-> g[i]]
      OBVIOUS
    <2>. HIDE DEF g
    <2>. QED  BY <2>1, <2>2
  <1>. HIDE DEF T, f, g
  <1>6. SumFunctionOnSet(g, T) = SumFunctionOnSet(f, T)
    BY <1>1, <1>2, <1>4, <1>5, SomaIgual
  <1>7. SumFunctionOnSet(f, T) \in Nat
    BY <1>1, <1>4, SomaBase
  <1>. QED  BY <1>3, <1>6, <1>7 DEF T, f

\* Nothing is counted of a destination that no line names.
LEMMA ContaDeVistos ==
  ASSUME Mesh!ConstantesOk, Mesh!TypeOK, NEW d \in Mesh!Upstreams, d \notin Mesh!Vistos
  PROVE  Mesh!Conta(d, Mesh!Todas) = 0
  <1>. DEFINE f == VezesPorLinha(d)
  <1>1. f \in [DOMAIN m3 -> Nat] /\ IsFiniteSet(DOMAIN m3)
    BY VezesTipo, MalhaFinita
  <1>2. ASSUME NEW i \in DOMAIN m3 PROVE f[i] = 0
    <2>1. f[i] = Mesh!Vezes(m3[i], d) /\ f[i] \in Nat
      BY <1>1 DEF VezesPorLinha
    <2>2. ~Mesh!Nomeia(m3[i], d)
      BY MalhaFinita DEF Mesh!Vistos
    <2>. QED  BY <2>1, <2>2 DEF Mesh!Nomeia
  <1>. HIDE DEF f
  <1>3. {j \in DOMAIN m3 : Mesh!Todas[j]} \subseteq DOMAIN m3
    OBVIOUS
  <1>4. SumFunctionOnSet(f, {j \in DOMAIN m3 : Mesh!Todas[j]}) = 0
    BY <1>1, <1>2, <1>3, SomaDeNada
  <1>. QED  BY <1>4, ContaSoma DEF f

\* The nodes are finitely many: one for each destination and one for each machine behind.
LEMMA NosFinitos ==
  ASSUME Mesh!ConstantesOk, Mesh!TypeOK
  PROVE  IsFiniteSet(Mesh!Nos) /\ IsFiniteSet(Mesh!ComTrafego)
  <1>. DEFINE k == [d \in Mesh!Upstreams |-> Mesh!NoDe(d)]
              l == [i \in Mesh!Atras |-> <<"srv", i>>]
  <1>1. IsFiniteSet(Mesh!Upstreams) /\ IsFiniteSet(Mesh!Atras)
    <2>1. Mesh!Atras \subseteq DOMAIN m1
      BY DEF Mesh!Atras, Mesh!NaMalha
    <2>. QED  BY <2>1, MalhaFinita, FS_Subset
  <1>2. /\ k = [d \in Mesh!Upstreams |-> k[d]] /\ l = [i \in Mesh!Atras |-> l[i]]
        /\ Mesh!ComTrafego = {k[d] : d \in Mesh!Upstreams}
        /\ {<<"srv", i>> : i \in Mesh!Atras} = {l[i] : i \in Mesh!Atras}
    BY DEF Mesh!ComTrafego
  <1>. HIDE DEF k, l
  <1>3. IsFiniteSet({k[d] : d \in Mesh!Upstreams}) /\ IsFiniteSet({l[i] : i \in Mesh!Atras})
    BY <1>1, <1>2, ImagemFinita
  <1>. QED  BY <1>2, <1>3, FS_Union DEF Mesh!Nos

\* What a node answers for is the sum over the destinations that fold into it.
LEMMA ReqsDoNoSoma ==
  ASSUME Mesh!ConstantesOk, Mesh!TypeOK, NEW f, f = [d \in Mesh!Upstreams |-> Mesh!Conta(d, Mesh!Todas)],
         NEW no
  PROVE  /\ no \in Mesh!ComTrafego =>
              Mesh!ReqsDoNo(no) = SumFunctionOnSet(f, {d \in Mesh!Upstreams : Mesh!NoDe(d) = no})
         /\ no \notin Mesh!ComTrafego => Mesh!ReqsDoNo(no) = 0
  <1>1. no \notin Mesh!ComTrafego => Mesh!ReqsDoNo(no) = 0
    BY DEF Mesh!ReqsDoNo
  <1>2. ASSUME no \in Mesh!ComTrafego
        PROVE  Mesh!ReqsDoNo(no) = SumFunctionOnSet(f, {d \in Mesh!Upstreams : Mesh!NoDe(d) = no})
    <2>. DEFINE U == Mesh!Upstreams
                T == {d \in U : Mesh!NoDe(d) = no}
                g == [d \in T |-> Mesh!Conta(d, Mesh!Todas)]
    <2>1. Mesh!EnderecosDoNo(no) = T
      BY <1>2 DEF Mesh!EnderecosDoNo
    <2>2. Mesh!ReqsDoNo(no) = SumFunctionOnSet(g, T)
      BY <1>2, <2>1, SomaDaMalha DEF Mesh!ReqsDoNo
    <2>3. T \subseteq U /\ IsFiniteSet(T) /\ IsFiniteSet(U)
      BY MalhaFinita, FS_Subset
    <2>4. f \in [U -> Nat] /\ g \in [T -> Nat] /\ \A d \in T : g[d] = f[d]
      BY ContaSoma
    <2>. HIDE DEF U, T, g
    <2>5. SumFunctionOnSet(g, T) = SumFunctionOnSet(f, T)
      BY <2>3, <2>4, SomaIgual
    <2>. QED  BY <2>2, <2>5 DEF T, U
  <1>. QED  BY <1>1, <1>2

LEMMA MalhaConserva ==
  ASSUME Mesh!ConstantesOk, Mesh!TypeOK
  PROVE  Mesh!ReqsConservadas
  <1>. DEFINE U == Mesh!Upstreams
              C == Mesh!ComTrafego
              N == Mesh!Nos
              k == [d \in U |-> Mesh!NoDe(d)]
              f == [d \in U |-> Mesh!Conta(d, Mesh!Todas)]
              r == [no \in N |-> Mesh!ReqsDoNo(no)]
              t == [no \in C |-> SumFunctionOnSet(f, {d \in U : k[d] = no})]
              v == [d \in Mesh!Vistos |-> Mesh!Conta(d, Mesh!Todas)]
  <1>1. IsFiniteSet(U) /\ IsFiniteSet(C) /\ IsFiniteSet(N) /\ IsFiniteSet(Mesh!Vistos)
        /\ C \subseteq N /\ Mesh!Vistos \subseteq U
    BY MalhaFinita, NosFinitos DEF Mesh!Nos
  <1>2. f \in [U -> Nat] /\ v \in [Mesh!Vistos -> Nat] /\ \A d \in Mesh!Vistos : v[d] = f[d]
    BY <1>1, ContaSoma
  <1>3. {d \in U : k[d] \in C} = U
    BY DEF Mesh!ComTrafego
  <1>4. ASSUME NEW no \in N
        PROVE  /\ no \in C => r[no] = SumFunctionOnSet(f, {d \in U : k[d] = no})
               /\ no \notin C => r[no] = 0
    <2>1. {d \in U : k[d] = no} = {d \in U : Mesh!NoDe(d) = no}
      OBVIOUS
    <2>. QED  BY <2>1, ReqsDoNoSoma
  <1>5. ASSUME NEW d \in U, d \notin Mesh!Vistos PROVE f[d] = 0
    BY <1>5, ContaDeVistos
  <1>6. /\ Mesh!SumFunction([no \in Mesh!Nos |-> Mesh!ReqsDoNo(no)]) = SumFunctionOnSet(r, N)
        /\ Mesh!SumFunction([d \in Mesh!Vistos |-> Mesh!Conta(d, Mesh!Todas)]) = SumFunctionOnSet(v, Mesh!Vistos)
    BY SomaDaMalha
  <1>7. \A no \in C : t[no] = r[no]
    BY <1>1, <1>4
  <1>8. t = [no \in C |-> SumFunctionOnSet(f, {d \in U : k[d] = no})] /\ r = [no \in N |-> r[no]]
    OBVIOUS
  <1>. HIDE DEF U, C, N, k, f, r, t, v
  <1>9. t \in [C -> Nat] /\ SumFunctionOnSet(t, C) = SumFunctionOnSet(f, U)
    BY <1>1, <1>2, <1>3, <1>8, SomaPorPartes
  <1>10. r \in [N -> Nat]
    <2>1. ASSUME NEW no \in N PROVE r[no] \in Nat
      <3>1. CASE no \in C
        BY <1>7, <1>9, <3>1
      <3>2. CASE no \notin C
        <4>1. r[no] = 0
          BY <1>4, <3>2, Zenon
        <4>. QED  BY <4>1
      <3>. QED  BY <3>1, <3>2
    <2>. QED  BY <1>8, <2>1
  <1>11. SumFunctionOnSet(r, N) = SumFunctionOnSet(r, C)
    <2>1. N = C \cup (N \ C) /\ C \cap (N \ C) = {} /\ N \ C \in SUBSET N /\ C \in SUBSET N
      BY <1>1
    <2>2. SumFunctionOnSet(r, N \ C) = 0
      BY <1>1, <1>4, <1>10, <2>1, SomaDeNada
    <2>3. SumFunctionOnSet(r, C) \in Nat
      BY <1>1, <1>10, <2>1, SomaBase
    <2>4. SumFunctionOnSet(r, C \cup (N \ C)) = SumFunctionOnSet(r, C) + SumFunctionOnSet(r, N \ C)
      BY <1>1, <1>10, <2>1, SomaDisjunta
    <2>. QED  BY <2>1, <2>2, <2>3, <2>4
  <1>12. SumFunctionOnSet(r, C) = SumFunctionOnSet(t, C)
    BY <1>1, <1>7, <1>9, <1>10, SomaIgual
  <1>13. SumFunctionOnSet(f, U) = SumFunctionOnSet(f, Mesh!Vistos)
    <2>. DEFINE W == Mesh!Vistos
    <2>1. U = W \cup (U \ W) /\ W \cap (U \ W) = {} /\ U \ W \in SUBSET U /\ W \in SUBSET U
      BY <1>1
    <2>. HIDE DEF W
    <2>2. SumFunctionOnSet(f, U \ W) = 0
      BY <1>1, <1>2, <1>5, <2>1, SomaDeNada DEF W
    <2>3. SumFunctionOnSet(f, W) \in Nat
      BY <1>1, <1>2, <2>1, SomaBase
    <2>4. SumFunctionOnSet(f, W \cup (U \ W)) = SumFunctionOnSet(f, W) + SumFunctionOnSet(f, U \ W)
      BY <1>1, <1>2, <2>1, SomaDisjunta
    <2>. QED  BY <2>1, <2>2, <2>3, <2>4 DEF W
  <1>14. SumFunctionOnSet(v, Mesh!Vistos) = SumFunctionOnSet(f, Mesh!Vistos)
    BY <1>1, <1>2, SomaIgual
  <1>. QED  BY <1>6, <1>9, <1>11, <1>12, <1>13, <1>14 DEF Mesh!ReqsConservadas

\* A set of the first naturals that goes on by one has them all.
LEMMA CrescendoAte ==
  ASSUME NEW N \in Nat, NEW B, 0 \in B, \A n \in 1..N : n - 1 \in B => n \in B
  PROVE  0..N \subseteq B
  <1>. DEFINE R == {n \in 0..N : n \notin B}
  <1>1. ASSUME R # {} PROVE FALSE
    <2>1. R \in SUBSET Nat
      OBVIOUS
    <2>. HIDE DEF R
    <2>2. PICK n \in R : \A k \in R : n <= k
      BY <1>1, <2>1, PrimeiroExiste
    <2>3. n \in 0..N /\ n \notin B
      BY <2>2 DEF R
    <2>4. n \in 1..N /\ n - 1 \in 0..N
      BY <2>3
    <2>5. n - 1 \in R
      BY <2>3, <2>4 DEF R
    <2>. QED  BY <2>2, <2>3, <2>5
  <1>. QED  BY <1>1

\* The colour of a destination, from what its lines told so far.
Tem(d, classe, n) == \E i \in 1..n : Mesh!Nomeia(m3[i], d) /\ m3[i].status = classe
Pior(d, n) == IF Tem(d, "erro", n) THEN "error" ELSE IF Tem(d, "aviso", n) THEN "warn" ELSE "ok"

LEMMA MalhaPior ==
  ASSUME Mesh!ConstantesOk, Mesh!TypeOK
  PROVE  Mesh!SeveridadePior
  <1>. DEFINE N == Len(m3)
  <1>1. N \in Nat /\ DOMAIN m3 = 1..N
    BY MalhaFinita
  <1>2. ASSUME NEW d PROVE Mesh!Severidade(d) = Pior(d, N)
    <2>. DEFINE Passo(h, n) == IF n = 0 THEN "ok"
                               ELSE IF ~Mesh!Nomeia(m3[n], d) THEN h[n - 1]
                               ELSE IF m3[n].status = "erro" THEN "error"
                               ELSE IF h[n - 1] # "error" /\ m3[n].status = "aviso" THEN "warn"
                               ELSE h[n - 1]
                depois == CHOOSE h : h = [n \in 0..N |-> Passo(h, n)]
                g == [n \in 0..N |-> Pior(d, n)]
    <2>1. Mesh!Severidade(d) = depois[N]
      BY DEF Mesh!Severidade
    <2>2. ASSUME NEW n \in 1..N, NEW c
          PROVE  Tem(d, c, n) <=> Tem(d, c, n - 1) \/ (Mesh!Nomeia(m3[n], d) /\ m3[n].status = c)
      <3>1. \A i \in 1..n : i \in 1..(n - 1) \/ i = n
        BY <1>1
      <3>2. \A i \in 1..(n - 1) : i \in 1..n
        BY <1>1
      <3>3. n \in 1..n
        BY <1>1
      <3>. QED  BY <3>1, <3>2, <3>3 DEF Tem
    <2>3. ASSUME NEW n \in 1..N
          PROVE  LET o == Pior(d, n - 1)
                 IN Pior(d, n) = IF ~Mesh!Nomeia(m3[n], d) THEN o
                                 ELSE IF m3[n].status = "erro" THEN "error"
                                 ELSE IF o # "error" /\ m3[n].status = "aviso" THEN "warn" ELSE o
      BY <2>2 DEF Pior
    <2>4. Pior(d, 0) = "ok"
      BY DEF Pior, Tem
    <2>5. ASSUME NEW n \in 0..N PROVE g[n] = Passo(g, n)
      <3>1. CASE n = 0
        BY <2>4, <3>1
      <3>2. CASE n # 0
        <4>1. n \in 1..N /\ n - 1 \in 0..N
          BY <1>1, <3>2
        <4>2. g[n] = Pior(d, n) /\ g[n - 1] = Pior(d, n - 1)
          BY <4>1
        <4>. HIDE DEF g
        <4>. QED  BY <2>3, <3>2, <4>1, <4>2
      <3>. QED  BY <3>1, <3>2
    <2>6. \E h : h = [n \in 0..N |-> Passo(h, n)]
      <3>1. g = [n \in 0..N |-> Passo(g, n)]
        BY <2>5
      <3>. HIDE DEF g
      <3>. QED  BY <3>1
    <2>7. depois = [n \in 0..N |-> Passo(depois, n)]
      BY <2>6
    <2>8. \A n \in 0..N : depois[n] = Passo(depois, n)
      <3>. HIDE DEF depois, Passo
      <3>. QED  BY <2>7
    <2>. HIDE DEF depois
    <2>. DEFINE B == {n \in 0..N : depois[n] = Pior(d, n)}
    <2>9. 0 \in B
      BY <1>1, <2>4, <2>8
    <2>10. ASSUME NEW n \in 1..N, n - 1 \in B PROVE n \in B
      <3>1. n # 0 /\ n \in 0..N /\ depois[n - 1] = Pior(d, n - 1)
        BY <1>1, <2>10
      <3>2. depois[n] = Passo(depois, n)
        BY <2>8, <3>1
      <3>. QED  BY <2>3, <3>1, <3>2
    <2>. HIDE DEF B
    <2>11. N \in B
      <3>1. 0..N \subseteq B
        BY <1>1, <2>9, <2>10, CrescendoAte
      <3>. QED  BY <1>1, <3>1
    <2>. QED  BY <2>1, <2>11 DEF B
  <1>. QED  BY <1>1, <1>2 DEF Mesh!SeveridadePior, Pior, Tem

\* What is drawn for a balancer and a destination is a natural, and the lines are finitely many.
LEMMA ArestasFinitas ==
  ASSUME Mesh!ConstantesOk, Mesh!TypeOK
  PROVE  IsFiniteSet(Mesh!Arestas) /\ \A a \in Mesh!Arestas : a.reqs \in Nat
  <1>. DEFINE A(b, bloco, d) == Mesh!Aresta(b, bloco, d)
              Q == {q \in (DOMAIN m1 \cup {Mesh!SEM_DONO}) \X Mesh!Destinos :
                      (\E i \in DOMAIN m3 : m3[i].dono = q[1] /\ Mesh!Nomeia(m3[i], q[2]))
                        /\ ~Mesh!JaDeclarado(q[1], q[2])}
              k == [e \in m2 |-> A(e.server_id, e.bloco, e.destino)]
              l == [p \in Q |-> A(p[1], Mesh!BLOCO_DO_TRAFEGO, p[2])]
  <1>1. /\ Mesh!Declaradas = {k[e] : e \in m2} /\ k = [e \in m2 |-> k[e]]
        /\ Mesh!DoTrafego = {l[p] : p \in Q} /\ l = [p \in Q |-> l[p]]
    BY DEF Mesh!Declaradas, Mesh!DoTrafego
  <1>2. IsFiniteSet(m2) /\ IsFiniteSet(Q)
    <2>1. IsFiniteSet(DOMAIN m1) /\ IsFiniteSet({Mesh!SEM_DONO}) /\ IsFiniteSet(Mesh!Destinos) /\ IsFiniteSet(m2)
      BY MalhaFinita, FS_Singleton
    <2>2. IsFiniteSet(DOMAIN m1 \cup {Mesh!SEM_DONO})
      BY <2>1, FS_Union
    <2>3. IsFiniteSet((DOMAIN m1 \cup {Mesh!SEM_DONO}) \X Mesh!Destinos)
      BY <2>1, <2>2, FS_Product
    <2>. QED  BY <2>1, <2>3, FS_Subset
  <1>3. ASSUME NEW b, NEW bloco, NEW d PROVE A(b, bloco, d).reqs \in Nat
    BY ContaSoma DEF Mesh!Aresta, Mesh!ReqsDe
  <1>4. (\A e \in m2 : k[e].reqs \in Nat) /\ (\A p \in Q : l[p].reqs \in Nat)
    <2>1. (\A e \in m2 : k[e] = A(e.server_id, e.bloco, e.destino)) /\ (\A p \in Q : l[p] = A(p[1], Mesh!BLOCO_DO_TRAFEGO, p[2]))
      OBVIOUS
    <2>. HIDE DEF A, k, l, Q
    <2>. QED  BY <1>3, <2>1
  <1>. HIDE DEF k, l, Q
  <1>5. IsFiniteSet({k[e] : e \in m2}) /\ IsFiniteSet({l[p] : p \in Q})
    BY <1>1, <1>2, ImagemFinita
  <1>6. IsFiniteSet(Mesh!Arestas)
    BY <1>1, <1>5, FS_Union DEF Mesh!Arestas
  <1>. QED  BY <1>1, <1>4, <1>6 DEF Mesh!Arestas

LEMMA MalhaDesenha ==
  ASSUME Mesh!ConstantesOk, Mesh!TypeOK
  PROVE  Mesh!TrafegoDesenhado
  <1>1. SUFFICES ASSUME NEW b \in DOMAIN m1, NEW d \in Mesh!Vistos, Mesh!TemProprio(b, d)
                 PROVE  /\ \E a \in Mesh!Arestas :
                             a.balanceador = b /\ a.destino = d /\ a.reqs = Mesh!Conta(d, Mesh!De(b))
                        /\ d \in DOMAIN Mesh!Indice
                        /\ Mesh!ReqsNoDesenho(b, Mesh!Indice[d], Mesh!Indice, Mesh!Arestas)
                             >= Mesh!Conta(d, Mesh!De(b))
    BY DEF Mesh!TrafegoDesenhado
  <1>2. d \in Mesh!Destinos /\ d \in Mesh!Upstreams /\ b # Mesh!SEM_DONO
    BY MalhaFinita
  <1>3. Mesh!ReqsDe(b, d) = Mesh!Conta(d, Mesh!De(b))
    BY <1>1, <1>2 DEF Mesh!ReqsDe
  <1>4. \A bloco : LET a == Mesh!Aresta(b, bloco, d)
                   IN a.balanceador = b /\ a.destino = d /\ a.reqs = Mesh!Conta(d, Mesh!De(b))
    BY <1>3 DEF Mesh!Aresta
  <1>5. \E bloco : Mesh!Aresta(b, bloco, d) \in Mesh!Arestas
    <2>1. CASE Mesh!JaDeclarado(b, d)
      <3>1. PICK e \in m2 : e.destino = d /\ e.server_id = b
        BY <1>2, <2>1 DEF Mesh!JaDeclarado
      <3>2. Mesh!Aresta(b, e.bloco, d) \in Mesh!Declaradas
        BY <3>1 DEF Mesh!Declaradas
      <3>. QED  BY <3>2 DEF Mesh!Arestas
    <2>2. CASE ~Mesh!JaDeclarado(b, d)
      <3>. DEFINE q == <<b, d>>
      <3>1. /\ q \in (DOMAIN m1 \cup {Mesh!SEM_DONO}) \X Mesh!Destinos /\ q[1] = b /\ q[2] = d
            /\ \E i \in DOMAIN m3 : m3[i].dono = q[1] /\ Mesh!Nomeia(m3[i], q[2])
        BY <1>1, <1>2 DEF Mesh!TemProprio
      <3>. HIDE DEF q
      <3>2. Mesh!Aresta(q[1], Mesh!BLOCO_DO_TRAFEGO, q[2]) \in Mesh!DoTrafego
        BY <2>2, <3>1 DEF Mesh!DoTrafego
      <3>. QED  BY <3>1, <3>2 DEF Mesh!Arestas
    <2>. QED  BY <2>1, <2>2
  <1>6. PICK a \in Mesh!Arestas : a.balanceador = b /\ a.destino = d /\ a.reqs = Mesh!Conta(d, Mesh!De(b))
    BY <1>4, <1>5
  <1>7. d \in DOMAIN Mesh!Indice
    <2>1. Mesh!NoDe(d) \in Mesh!ComTrafego /\ Mesh!NoDe(d) \in Mesh!Nos
      BY <1>2 DEF Mesh!ComTrafego, Mesh!Nos
    <2>2. d \in Mesh!EnderecosDoNo(Mesh!NoDe(d))
      BY <1>2, <2>1 DEF Mesh!EnderecosDoNo
    <2>3. DOMAIN Mesh!Indice = {e \in Mesh!Destinos : {no \in Mesh!Nos : e \in Mesh!EnderecosDoNo(no)} # {}}
      BY DEF Mesh!Indice
    <2>. QED  BY <1>2, <2>1, <2>2, <2>3
  <1>. DEFINE no == Mesh!Indice[d]
              X == {x \in Mesh!Arestas : x.balanceador = b /\ x.destino \in DOMAIN Mesh!Indice /\ Mesh!Indice[x.destino] = no}
              f == [x \in X |-> x.reqs]
  <1>8. a \in X /\ X \subseteq Mesh!Arestas
    BY <1>6, <1>7
  <1>9. IsFiniteSet(X) /\ f \in [X -> Nat]
    BY <1>8, ArestasFinitas, FS_Subset
  <1>10. Mesh!ReqsNoDesenho(b, no, Mesh!Indice, Mesh!Arestas) = SumFunctionOnSet(f, X)
    BY SomaDaMalha DEF Mesh!ReqsNoDesenho
  <1>11. f[a] = a.reqs /\ f[a] \in Nat
    BY <1>8, <1>9
  <1>. HIDE DEF f, X
  <1>12. f[a] <= SumFunctionOnSet(f, X) /\ SumFunctionOnSet(f, X) \in Nat
    BY <1>8, <1>9, SomaBase
  <1>. QED  BY <1>6, <1>7, <1>10, <1>11, <1>12

\* Whatever lines of traffic come, the nodes of the mesh share the requests of the
\* destinations seen, none lost and none counted twice, a destination is as bad as the
\* worst of its lines, and what a balancer served is on an edge of it, and in the drawing
\* on its way to the machine that answers (lib/upstream.ts).
THEOREM MalhaSempreConfere ==
  ASSUME ConstantesDasTelas
  PROVE  Spec => []MalhaConfere
  <1>. DEFINE Inv == tela = "malha" => Mesh!TypeOK
  <1>1. Init => Inv
    BY InicioDaTela, MalhaInicia DEF ConstantesDasTelas
  <1>2. Inv /\ [Next]_memoria => Inv'
    BY PassoDaTela, MalhaMantem DEF ConstantesDasTelas
  <1>3. Inv => MalhaConfere
    BY MalhaConserva, MalhaPior, MalhaDesenha DEF ConstantesDasTelas, MalhaConfere
  <1>. QED  BY <1>1, <1>2, <1>3, PTL DEF Spec

-----------------------------------------------------------------------------
(* The dashboards.  m1 are those at the server, m2 the list, m3 the one      *)
(* selected, m4 the draft, m5 the next key, m6 whether it is saving, m7 the  *)
(* dialog, m8 the requests and m9 the actions of the user.                   *)

\* What the server keeps, and what a list of it holds.
Guarda(g) == \E D \in SUBSET Ids : g \in [D -> Draft!Arranjos]
IdOuNada  == Ids \cup {Draft!Nenhum}

RascunhoBom(d) ==
  \/ d = Draft!SemRascunho
  \/ \E id \in IdOuNada, n \in 0..MaxPanels : \E s \in [1..n -> Draft!Painel] :
       d = [dashboardId |-> id, panels |-> s]

PerguntaBoa(p) ==
  \/ p = Draft!Fechado \/ p = [tipo |-> "novo"]
  \/ \E t \in {"renomeia", "apaga"}, id \in Ids, a \in Draft!Arranjos : p = [tipo |-> t, id |-> id, graficos |-> a]

\* A request, in each of its phases: what it carries is a draft's or a list's, and only a save is told as one.
PedidoBom(p) ==
  \/ p = Draft!Livre
  \/ \E id \in IdOuNada : p = [tipo |-> "le", select |-> id]
  \/ \E id \in IdOuNada : \E g : Guarda(g) /\ p = [tipo |-> "lida", select |-> id, lista |-> g]
  \/ \E id \in IdOuNada, a \in Draft!Arranjos : p = [tipo |-> "salva", id |-> id, graficos |-> a]
  \/ \E t \in {"renomeia", "apaga"}, id \in Ids, a \in Draft!Arranjos : p = [tipo |-> t, id |-> id, graficos |-> a]
  \/ \E id \in Ids : p = [tipo |-> "salvo", id |-> id, salva |-> TRUE]
  \/ \E t \in {"feito", "apagado"}, id \in Ids : p = [tipo |-> t, id |-> id, salva |-> FALSE]
  \/ \E id \in IdOuNada, b \in BOOLEAN : p = [tipo |-> "falhou", id |-> id, salva |-> b]

\* A save, on its way or back.
Salvando(p) == p.tipo = "salva" \/ (p.tipo \in {"salvo", "falhou"} /\ p.salva)

DraftInv ==
  /\ Guarda(m1) /\ Guarda(m2) /\ m3 \in DOMAIN m2 \cup {Draft!Nenhum}
  /\ RascunhoBom(m4) /\ Draft!ChavesProprias
  /\ m5 \in Nat \ {0} /\ m9 \in 0..MaxAcoes /\ m5 <= 1 + m9 * (1 + MaxPanels)
  /\ m6 \in BOOLEAN /\ PerguntaBoa(m7)
  /\ m8 = [v \in Vagas |-> m8[v]] /\ \A v \in Vagas : PedidoBom(m8[v])
  /\ m6 <=> \E v \in Vagas : Salvando(m8[v])
  /\ \A v, w \in Vagas : Salvando(m8[v]) /\ Salvando(m8[w]) => v = w

LEMMA DraftNumeros ==
  ASSUME Draft!ConstantesOk
  PROVE  /\ Ids \subseteq Nat /\ 0 \notin Ids /\ MaxPanels \in Nat \ {0} /\ MaxAcoes \in Nat
         /\ Draft!Nenhum = 0
  BY DEF Draft!ConstantesOk, Draft!Nenhum

\* The keys handed out so far are within the bound of the run.
LEMMA ChavesCabem ==
  ASSUME NEW K \in Nat, NEW M \in Nat, NEW a \in 0..M, NEW k \in Nat, k <= 1 + a * K
  PROVE  /\ k <= 1 + M * K
         /\ a < M => k + K <= 1 + (a + 1) * K
  <1>1. a * K \in Nat /\ M * K \in Nat /\ (a + 1) * K = a * K + K
    OBVIOUS
  <1>2. a * K <= M * K
    <2>1. M - a \in Nat
      OBVIOUS
    <2>2. (M - a) * K \in Nat
      BY <2>1
    <2>3. M * K = a * K + (M - a) * K
      BY <2>1
    <2>. QED  BY <1>1, <2>2, <2>3
  <1>. QED  BY <1>1, <1>2

\* What the kinds of requests are.
LEMMA PedidoBomForma ==
  ASSUME NEW p, PedidoBom(p)
  PROVE  /\ p.tipo \in {"livre", "le", "lida", "salva", "renomeia", "apaga", "salvo", "feito",
                         "apagado", "falhou"}
         /\ p.tipo = "livre" => p = Draft!Livre
         /\ p.tipo = "le" => p.select \in IdOuNada
         /\ p.tipo = "lida" => p.select \in IdOuNada /\ Guarda(p.lista)
         /\ p.tipo = "salva" => p.id \in IdOuNada /\ p.graficos \in Draft!Arranjos
         /\ p.tipo \in {"renomeia", "apaga"} => p.id \in Ids /\ p.graficos \in Draft!Arranjos
         /\ p.tipo = "salvo" => p.id \in Ids /\ p.salva
         /\ p.tipo \in {"feito", "apagado"} => p.id \in Ids /\ ~p.salva
         /\ p.tipo = "falhou" => p.id \in IdOuNada /\ p.salva \in BOOLEAN
  <1>1. CASE p = Draft!Livre
    BY <1>1 DEF Draft!Livre
  <1>2. CASE \E id \in IdOuNada : p = [tipo |-> "le", select |-> id]
    BY <1>2
  <1>3. CASE \E id \in IdOuNada : \E g : Guarda(g) /\ p = [tipo |-> "lida", select |-> id, lista |-> g]
    BY <1>3
  <1>4. CASE \E id \in IdOuNada, a \in Draft!Arranjos : p = [tipo |-> "salva", id |-> id, graficos |-> a]
    BY <1>4
  <1>5. CASE \E t \in {"renomeia", "apaga"}, id \in Ids, a \in Draft!Arranjos :
                p = [tipo |-> t, id |-> id, graficos |-> a]
    BY <1>5
  <1>6. CASE \E id \in Ids : p = [tipo |-> "salvo", id |-> id, salva |-> TRUE]
    BY <1>6
  <1>7. CASE \E t \in {"feito", "apagado"}, id \in Ids : p = [tipo |-> t, id |-> id, salva |-> FALSE]
    BY <1>7
  <1>8. CASE \E id \in IdOuNada, b \in BOOLEAN : p = [tipo |-> "falhou", id |-> id, salva |-> b]
    BY <1>8
  <1>. QED  BY <1>1, <1>2, <1>3, <1>4, <1>5, <1>6, <1>7, <1>8 DEF PedidoBom

\* A request takes the place of another in its slot.
LEMMA PedidoPosto ==
  ASSUME m8 = [v \in Vagas |-> m8[v]], \A v \in Vagas : PedidoBom(m8[v]),
         NEW v \in Vagas, NEW p, PedidoBom(p), Draft!Poe(v, p)
  PROVE  /\ m8' = [w \in Vagas |-> m8'[w]] /\ \A w \in Vagas : PedidoBom(m8'[w])
         /\ m8'[v] = p /\ \A w \in Vagas \ {v} : m8'[w] = m8[w]
  <1>1. m8' = [w \in Vagas |-> IF w = v THEN p ELSE m8[w]]
    BY DEF Draft!Poe
  <1>2. m8'[v] = p /\ \A w \in Vagas \ {v} : m8'[w] = m8[w]
    BY <1>1
  <1>3. m8' = [w \in Vagas |-> m8'[w]]
    BY <1>1
  <1>4. \A w \in Vagas : m8'[w] = p \/ m8'[w] = m8[w]
    BY <1>2
  <1>. QED  BY <1>2, <1>3, <1>4

\* A request that saves as much as the one before it leaves the button as it was.
LEMMA BotaoFica ==
  ASSUME m6 <=> \E v \in Vagas : Salvando(m8[v]),
         \A v, w \in Vagas : Salvando(m8[v]) /\ Salvando(m8[w]) => v = w,
         NEW v \in Vagas, NEW p, Salvando(p) <=> Salvando(m8[v]),
         m8'[v] = p, \A w \in Vagas \ {v} : m8'[w] = m8[w], m6' = m6
  PROVE  /\ m6' <=> \E w \in Vagas : Salvando(m8'[w])
         /\ \A w, x \in Vagas : Salvando(m8'[w]) /\ Salvando(m8'[x]) => w = x
  <1>1. ASSUME NEW w \in Vagas PROVE Salvando(m8'[w]) <=> Salvando(m8[w])
    <2>1. CASE w = v
      BY <2>1
    <2>2. CASE w # v
      BY <2>2
    <2>. QED  BY <2>1, <2>2
  <1>. QED  BY <1>1

LEMMA GuardaVazia ==
  /\ Guarda(<<>>) /\ DOMAIN <<>> = {}
  /\ \A g : Guarda(g) /\ DOMAIN g = {} => g = <<>>
  <1>1. <<>> \in [{} -> Draft!Arranjos] /\ DOMAIN <<>> = {}
    OBVIOUS
  <1>2. \A g \in [{} -> Draft!Arranjos] : g = <<>>
    OBVIOUS
  <1>3. \A g, D : g \in [D -> Draft!Arranjos] => DOMAIN g = D
    OBVIOUS
  <1>. QED  BY <1>1, <1>2, <1>3 DEF Guarda

LEMMA GuardaForma ==
  ASSUME NEW g, Guarda(g), Draft!ConstantesOk
  PROVE  /\ DOMAIN g \subseteq Ids /\ DOMAIN g \subseteq Nat
         /\ \A d \in DOMAIN g : g[d] \in Draft!Arranjos /\ g[d] \in Seq(Graficos) /\ Len(g[d]) \in 0..MaxPanels
                                /\ DOMAIN g[d] = 1..Len(g[d])
         /\ g \in Draft!Guardados
  <1>1. PICK D \in SUBSET Ids : g \in [D -> Draft!Arranjos]
    BY DEF Guarda
  <1>2. Ids \subseteq Nat /\ MaxPanels \in Nat \ {0}
    BY DraftNumeros
  <1>3. ASSUME NEW a \in Draft!Arranjos
        PROVE  a \in Seq(Graficos) /\ Len(a) \in 0..MaxPanels /\ DOMAIN a = 1..Len(a)
    <2>1. PICK n \in 0..MaxPanels : a \in [1..n -> Graficos]
      BY DEF Draft!Arranjos
    <2>2. n \in Nat
      OBVIOUS
    <2>. QED  BY <2>1, <2>2
  <1>. QED  BY <1>1, <1>2, <1>3 DEF Draft!Guardados

LEMMA DraftInicia ==
  ASSUME Draft!ConstantesOk, Draft!Init
  PROVE  DraftInv
  <1>1. /\ m2 = <<>> /\ m3 = Draft!Nenhum /\ m4 = Draft!SemRascunho /\ m5 = 1 /\ m6 = FALSE
        /\ m7 = Draft!Fechado /\ m9 = 0
    BY DEF Draft!Init
  <1>2. Guarda(m1)
    <2>1. PICK D \in SUBSET Ids : m1 \in [D -> Draft!Arranjos]
      BY DEF Draft!Init, Draft!Guardados
    <2>. QED  BY <2>1 DEF Guarda
  <1>3. m5 \in Nat \ {0} /\ m9 \in 0..MaxAcoes /\ m5 <= 1 + m9 * (1 + MaxPanels)
    <2>1. MaxAcoes \in Nat /\ MaxPanels \in Nat
      BY DraftNumeros
    <2>2. 0 \in 0..MaxAcoes /\ 1 <= 1 + 0 * (1 + MaxPanels)
      BY <2>1
    <2>. QED  BY <1>1, <2>2
  <1>4. RascunhoBom(m4) /\ Draft!ChavesProprias
    <2>1. DOMAIN m4.panels = {}
      BY <1>1 DEF Draft!SemRascunho
    <2>. QED  BY <1>1, <2>1 DEF RascunhoBom, Draft!ChavesProprias
  <1>5. PICK v \in Vagas :
          m8 = [w \in Vagas |-> IF w = v THEN [tipo |-> "le", select |-> Draft!Nenhum] ELSE Draft!Livre]
    BY DEF Draft!Init
  <1>6. /\ m8 = [w \in Vagas |-> m8[w]]
        /\ \A w \in Vagas : m8[w] = [tipo |-> "le", select |-> Draft!Nenhum] \/ m8[w] = Draft!Livre
    BY <1>5
  <1>7. PedidoBom([tipo |-> "le", select |-> Draft!Nenhum]) /\ PedidoBom(Draft!Livre)
    BY DEF PedidoBom, IdOuNada
  <1>8. \A w \in Vagas : ~Salvando(m8[w])
    BY <1>6 DEF Salvando, Draft!Livre
  <1>. QED  BY <1>1, <1>2, <1>3, <1>4, <1>6, <1>7, <1>8, GuardaVazia DEF DraftInv, PerguntaBoa

-----------------------------------------------------------------------------
\* The list arrives, and what is selected is in it.
LEMMA EscolhidoListado ==
  ASSUME Draft!ConstantesOk, NEW g, Guarda(g), NEW q
  PROVE  Draft!Escolhido(g, q) \in DOMAIN g \cup {Draft!Nenhum}
  <1>1. CASE q \in DOMAIN g
    BY <1>1 DEF Draft!Escolhido
  <1>2. CASE q \notin DOMAIN g /\ g = <<>>
    BY <1>2 DEF Draft!Escolhido
  <1>3. CASE q \notin DOMAIN g /\ g # <<>>
    <2>1. DOMAIN g # {} /\ DOMAIN g \in SUBSET Nat
      BY <1>3, GuardaVazia, GuardaForma
    <2>2. PICK x \in DOMAIN g : \A y \in DOMAIN g : x <= y
      BY <2>1, PrimeiroExiste
    <2>3. (CHOOSE d \in DOMAIN g : \A e \in DOMAIN g : d <= e) \in DOMAIN g
      BY <2>2
    <2>. QED  BY <1>3, <2>3 DEF Draft!Escolhido
  <1>. QED  BY <1>1, <1>2, <1>3

\* What the requests and the button are together.
Botao ==
  /\ m8 = [v \in Vagas |-> m8[v]] /\ \A v \in Vagas : PedidoBom(m8[v])
  /\ m6 <=> \E v \in Vagas : Salvando(m8[v])
  /\ \A v, w \in Vagas : Salvando(m8[v]) /\ Salvando(m8[w]) => v = w

\* What the draft and its keys are together.
Chaveado ==
  /\ RascunhoBom(m4) /\ Draft!ChavesProprias
  /\ m5 \in Nat \ {0} /\ m9 \in 0..MaxAcoes /\ m5 <= 1 + m9 * (1 + MaxPanels)

LEMMA DraftPartes ==
  DraftInv <=> /\ Guarda(m1) /\ Guarda(m2) /\ m3 \in DOMAIN m2 \cup {Draft!Nenhum}
               /\ Chaveado /\ Botao /\ m6 \in BOOLEAN /\ PerguntaBoa(m7)
  BY DEF DraftInv, Botao, Chaveado

\* An action of the user leaves the draft as it was, or puts it away.
LEMMA ChaveadoFica ==
  ASSUME Chaveado, Draft!ConstantesOk, m5' = m5, m4' = m4 \/ m4' = Draft!SemRascunho,
         m9' = m9 \/ Draft!Age
  PROVE  Chaveado'
  <1>1. MaxPanels \in Nat /\ MaxAcoes \in Nat
    BY DraftNumeros
  <1>2. m9' \in 0..MaxAcoes /\ m5' <= 1 + m9' * (1 + MaxPanels)
    <2>1. CASE m9' = m9
      BY <2>1 DEF Chaveado
    <2>2. CASE Draft!Age
      <3>1. m9 \in 0..MaxAcoes /\ m9 < MaxAcoes /\ m9' = m9 + 1
        BY <2>2 DEF Draft!Age, Chaveado
      <3>2. m5 \in Nat /\ 1 + MaxPanels \in Nat /\ m5 <= 1 + m9 * (1 + MaxPanels)
        BY <1>1 DEF Chaveado
      <3>3. m5 + (1 + MaxPanels) <= 1 + (m9 + 1) * (1 + MaxPanels)
        BY <1>1, <3>1, <3>2, ChavesCabem
      <3>4. m9 + 1 \in 0..MaxAcoes /\ (m9 + 1) * (1 + MaxPanels) \in Nat
        BY <1>1, <3>1
      <3>5. m5 <= 1 + (m9 + 1) * (1 + MaxPanels)
        BY <1>1, <3>2, <3>3, <3>4
      <3>. QED  BY <3>1, <3>4, <3>5
    <2>. QED  BY <2>1, <2>2
  <1>3. RascunhoBom(m4') /\ Draft!ChavesProprias'
    <2>1. CASE m4' = m4
      BY <2>1 DEF Chaveado, Draft!ChavesProprias
    <2>2. CASE m4' = Draft!SemRascunho
      <3>1. DOMAIN m4'.panels = {}
        BY <2>2 DEF Draft!SemRascunho
      <3>. QED  BY <2>2, <3>1 DEF RascunhoBom, Draft!ChavesProprias
    <2>. QED  BY <2>1, <2>2
  <1>. QED  BY <1>2, <1>3 DEF Chaveado

\* What the view shows and asks, with no request but the one that goes out.
LEMMA DraftSeleciona ==
  ASSUME Draft!ConstantesOk, DraftInv, Draft!Seleciona
  PROVE  DraftInv'
  <1>1. /\ Draft!Age /\ m3' \in DOMAIN m2 /\ UNCHANGED <<m1, m2, m4, m5, m6, m7, m8>>
    BY DEF Draft!Seleciona
  <1>2. Chaveado'
    BY <1>1, DraftPartes, ChaveadoFica
  <1>. QED  BY <1>1, <1>2 DEF DraftInv, Chaveado

LEMMA DraftPergunta ==
  ASSUME Draft!ConstantesOk, DraftInv, Draft!Pergunta
  PROVE  DraftInv'
  <1>1. Draft!Age /\ UNCHANGED <<m1, m2, m3, m4, m5, m6, m8>>
    BY DEF Draft!Pergunta
  <1>2. Chaveado'
    BY <1>1, DraftPartes, ChaveadoFica
  <1>3. PerguntaBoa(m7')
    <2>1. CASE m7' = [tipo |-> "novo"]
      BY <2>1 DEF PerguntaBoa
    <2>2. ASSUME Draft!Selecionado, NEW t \in {"renomeia", "apaga"},
                 m7' = [tipo |-> t, id |-> m3, graficos |-> m2[m3]]
          PROVE  PerguntaBoa(m7')
      <3>1. m3 \in Ids /\ m2[m3] \in Draft!Arranjos
        BY <2>2, GuardaForma DEF DraftInv, Draft!Selecionado
      <3>. QED  BY <2>2, <3>1 DEF PerguntaBoa
    <2>. QED  BY <2>1, <2>2 DEF Draft!Pergunta
  <1>. QED  BY <1>1, <1>2, <1>3 DEF DraftInv, Chaveado

LEMMA DraftNega ==
  ASSUME Draft!ConstantesOk, DraftInv, Draft!Nega
  PROVE  DraftInv'
  <1>1. m7' = Draft!Fechado /\ UNCHANGED <<m1, m2, m3, m4, m5, m6, m8, m9>>
    BY DEF Draft!Nega
  <1>2. Chaveado'
    BY <1>1, DraftPartes, ChaveadoFica
  <1>. QED  BY <1>1, <1>2 DEF DraftInv, Chaveado, PerguntaBoa

LEMMA DraftCancela ==
  ASSUME Draft!ConstantesOk, DraftInv, Draft!Cancela
  PROVE  DraftInv'
  <1>1. m4' = Draft!SemRascunho /\ UNCHANGED <<m1, m2, m3, m5, m6, m7, m8, m9>>
    BY DEF Draft!Cancela
  <1>2. Chaveado'
    BY <1>1, DraftPartes, ChaveadoFica
  <1>. QED  BY <1>1, <1>2 DEF DraftInv, Chaveado

LEMMA DraftNovo ==
  ASSUME Draft!ConstantesOk, DraftInv, Draft!HandleNew
  PROVE  DraftInv'
  <1>1. /\ m7' = Draft!Fechado /\ m4' = [dashboardId |-> Draft!Nenhum, panels |-> <<>>]
        /\ UNCHANGED <<m1, m2, m3, m5, m6, m8, m9>>
    BY DEF Draft!HandleNew
  <1>2. RascunhoBom(m4')
    <2>1. <<>> \in [1..0 -> Draft!Painel] /\ 0 \in 0..MaxPanels /\ Draft!Nenhum \in IdOuNada
      <3>1. 0 \in 0..MaxPanels
        BY DraftNumeros
      <3>2. <<>> \in [1..0 -> Draft!Painel]
        OBVIOUS
      <3>. QED  BY <3>1, <3>2 DEF IdOuNada
    <2>. QED  BY <1>1, <2>1 DEF RascunhoBom
  <1>3. Draft!ChavesProprias'
    <2>1. DOMAIN m4'.panels = {}
      BY <1>1
    <2>. QED  BY <2>1 DEF Draft!ChavesProprias
  <1>. QED  BY <1>1, <1>2, <1>3 DEF DraftInv, PerguntaBoa

\* The button renames or deletes: the request carries the charts of the render.
LEMMA DraftRenomeia ==
  ASSUME Draft!ConstantesOk, DraftInv, NEW v \in Vagas, Draft!HandleRenameOuDelete(v)
  PROVE  DraftInv'
  <1>1. /\ m7.tipo \in {"renomeia", "apaga"} /\ m7' = Draft!Fechado /\ m8[v] = Draft!Livre
        /\ Draft!Poe(v, m7) /\ UNCHANGED <<m1, m2, m3, m4, m5, m6, m9>>
    BY DEF Draft!HandleRenameOuDelete
  <1>2. \E t \in {"renomeia", "apaga"}, id \in Ids, a \in Draft!Arranjos :
          m7 = [tipo |-> t, id |-> id, graficos |-> a]
    BY <1>1 DEF DraftInv, PerguntaBoa, Draft!Fechado
  <1>3. PedidoBom(m7) /\ ~Salvando(m7)
    BY <1>2 DEF PedidoBom, Salvando
  <1>4. ~Salvando(m8[v])
    BY <1>1 DEF Salvando, Draft!Livre
  <1>5. /\ m8' = [w \in Vagas |-> m8'[w]] /\ \A w \in Vagas : PedidoBom(m8'[w])
        /\ m8'[v] = m7 /\ \A w \in Vagas \ {v} : m8'[w] = m8[w]
    BY <1>1, <1>3, PedidoPosto DEF DraftInv
  <1>6. /\ m6' <=> \E w \in Vagas : Salvando(m8'[w])
        /\ \A w, x \in Vagas : Salvando(m8'[w]) /\ Salvando(m8'[x]) => w = x
    BY <1>1, <1>3, <1>4, <1>5, BotaoFica DEF DraftInv
  <1>7. Chaveado'
    BY <1>1, DraftPartes, ChaveadoFica
  <1>. QED  BY <1>1, <1>5, <1>6, <1>7 DEF DraftInv, Chaveado, PerguntaBoa

-----------------------------------------------------------------------------
\* What is sent of a draft are its charts.
LEMMA ConteudoDoRascunho ==
  ASSUME RascunhoBom(m4), m4 # Draft!SemRascunho
  PROVE  m4.dashboardId \in IdOuNada /\ Draft!Conteudo(m4.panels) \in Draft!Arranjos
  <1>2. PICK id \in IdOuNada, n \in 0..MaxPanels : \E s \in [1..n -> Draft!Painel] :
               m4 = [dashboardId |-> id, panels |-> s]
    BY DEF RascunhoBom
  <1>3. PICK s \in [1..n -> Draft!Painel] : m4 = [dashboardId |-> id, panels |-> s]
    BY <1>2
  <1>4. m4.panels = s /\ m4.dashboardId = id /\ DOMAIN s = 1..n
    BY <1>3
  <1>7. [i \in DOMAIN s |-> s[i].grafico] \in [1..n -> Graficos]
    BY <1>3, <1>4 DEF Draft!Painel
  <1>. QED  BY <1>4, <1>7 DEF Draft!Conteudo, Draft!Arranjos

LEMMA DraftSalva ==
  ASSUME Draft!ConstantesOk, DraftInv, NEW v \in Vagas, Draft!HandleSave(v)
  PROVE  DraftInv'
  <1>. DEFINE p == [tipo |-> "salva", id |-> m4.dashboardId, graficos |-> Draft!Conteudo(m4.panels)]
  <1>1. /\ ~m6 /\ m4 # Draft!SemRascunho /\ m8[v] = Draft!Livre /\ Draft!Poe(v, p) /\ m6' = TRUE
        /\ UNCHANGED <<m1, m2, m3, m4, m5, m7, m9>>
    BY DEF Draft!HandleSave, Draft!Aberto
  <1>2. m4.dashboardId \in IdOuNada /\ Draft!Conteudo(m4.panels) \in Draft!Arranjos
    BY <1>1, ConteudoDoRascunho DEF DraftInv
  <1>3. PedidoBom(p) /\ Salvando(p)
    BY <1>2 DEF PedidoBom, Salvando
  <1>. HIDE DEF p
  <1>4. /\ m8' = [w \in Vagas |-> m8'[w]] /\ \A w \in Vagas : PedidoBom(m8'[w])
        /\ m8'[v] = p /\ \A w \in Vagas \ {v} : m8'[w] = m8[w]
    BY <1>1, <1>3, PedidoPosto DEF DraftInv
  <1>5. \A w \in Vagas : ~Salvando(m8[w])
    BY <1>1 DEF DraftInv
  <1>6. \A w \in Vagas : Salvando(m8'[w]) <=> w = v
    <2>1. ASSUME NEW w \in Vagas PROVE Salvando(m8'[w]) <=> w = v
      <3>1. CASE w = v
        BY <1>3, <1>4, <3>1
      <3>2. CASE w # v
        BY <1>4, <1>5, <3>2
      <3>. QED  BY <3>1, <3>2
    <2>. QED  BY <2>1
  <1>7. Chaveado'
    BY <1>1, DraftPartes, ChaveadoFica
  <1>. QED  BY <1>1, <1>4, <1>6, <1>7 DEF DraftInv, Chaveado

\* The server reads the list, and the view takes it.
LEMMA DraftLista ==
  ASSUME Draft!ConstantesOk, DraftInv, NEW v \in Vagas, Draft!Lista(v)
  PROVE  DraftInv'
  <1>1. PICK visiveis \in SUBSET Graficos : \E lista \in Draft!Listagem(visiveis) :
          /\ IF visiveis = Graficos THEN UNCHANGED m9 ELSE Draft!Age
          /\ Draft!Poe(v, [tipo |-> "lida", select |-> m8[v].select, lista |-> lista])
    BY DEF Draft!Lista
  <1>2. PICK lista \in [DOMAIN m1 -> Draft!Arranjos] :
          /\ m9' = m9 \/ Draft!Age
          /\ Draft!Poe(v, [tipo |-> "lida", select |-> m8[v].select, lista |-> lista])
    BY <1>1 DEF Draft!Listagem
  <1>. DEFINE p == [tipo |-> "lida", select |-> m8[v].select, lista |-> lista]
  <1>3. /\ m8[v].tipo = "le" /\ Draft!Poe(v, p) /\ UNCHANGED <<m1, m2, m3, m4, m5, m6, m7>>
        /\ m9' = m9 \/ Draft!Age
    BY <1>2 DEF Draft!Lista
  <1>4. Guarda(lista)
    BY GuardaForma DEF Guarda, DraftInv
  <1>5. m8[v].select \in IdOuNada
    BY <1>3, PedidoBomForma DEF DraftInv
  <1>6. PedidoBom(p)
    BY <1>5, <1>4 DEF PedidoBom
  <1>7. ~Salvando(p) /\ ~Salvando(m8[v])
    BY <1>3 DEF Salvando
  <1>. HIDE DEF p
  <1>8. /\ m8' = [w \in Vagas |-> m8'[w]] /\ \A w \in Vagas : PedidoBom(m8'[w])
        /\ m8'[v] = p /\ \A w \in Vagas \ {v} : m8'[w] = m8[w]
    BY <1>3, <1>6, PedidoPosto DEF DraftInv
  <1>9. /\ m6' <=> \E w \in Vagas : Salvando(m8'[w])
        /\ \A w, x \in Vagas : Salvando(m8'[w]) /\ Salvando(m8'[x]) => w = x
    BY <1>3, <1>7, <1>8, BotaoFica DEF DraftInv
  <1>10. Chaveado'
    BY <1>3, DraftPartes, ChaveadoFica
  <1>. QED  BY <1>3, <1>8, <1>9, <1>10 DEF DraftInv, Chaveado

LEMMA DraftRecebe ==
  ASSUME Draft!ConstantesOk, DraftInv, NEW v \in Vagas, Draft!RecebeLista(v)
  PROVE  DraftInv'
  <1>1. /\ m8[v].tipo = "lida" /\ m2' = m8[v].lista /\ Draft!Poe(v, Draft!Livre)
        /\ UNCHANGED <<m1, m4, m5, m6, m7, m9>>
    BY DEF Draft!RecebeLista
  <1>2. Guarda(m2')
    BY <1>1, PedidoBomForma DEF DraftInv
  <1>3. m3' \in DOMAIN m2' \cup {Draft!Nenhum}
    <2>1. PICK q : m3' = Draft!Escolhido(m8[v].lista, q)
      BY DEF Draft!RecebeLista
    <2>. QED  BY <1>1, <1>2, <2>1, EscolhidoListado
  <1>4. PedidoBom(Draft!Livre)
    BY DEF PedidoBom
  <1>5. ~Salvando(Draft!Livre) /\ ~Salvando(m8[v])
    BY <1>1 DEF Salvando, Draft!Livre
  <1>6. /\ m8' = [w \in Vagas |-> m8'[w]] /\ \A w \in Vagas : PedidoBom(m8'[w])
        /\ m8'[v] = Draft!Livre /\ \A w \in Vagas \ {v} : m8'[w] = m8[w]
    BY <1>1, <1>4, PedidoPosto DEF DraftInv
  <1>7. /\ m6' <=> \E w \in Vagas : Salvando(m8'[w])
        /\ \A w, x \in Vagas : Salvando(m8'[w]) /\ Salvando(m8'[x]) => w = x
    BY <1>1, <1>5, <1>6, BotaoFica DEF DraftInv
  <1>8. Chaveado'
    BY <1>1, DraftPartes, ChaveadoFica
  <1>. QED  BY <1>1, <1>2, <1>3, <1>6, <1>7, <1>8 DEF DraftInv, Chaveado

\* A request is answered: as much of a save as it was.
LEMMA DraftResponde ==
  ASSUME Draft!ConstantesOk, DraftInv, NEW v \in Vagas, NEW p, PedidoBom(p), Draft!Poe(v, p),
         Salvando(p) <=> Salvando(m8[v]), Guarda(m1'), m9' = m9 \/ Draft!Age,
         UNCHANGED <<m2, m3, m4, m5, m6, m7>>
  PROVE  DraftInv'
  <1>1. /\ m8' = [w \in Vagas |-> m8'[w]] /\ \A w \in Vagas : PedidoBom(m8'[w])
        /\ m8'[v] = p /\ \A w \in Vagas \ {v} : m8'[w] = m8[w]
    BY PedidoPosto DEF DraftInv
  <1>2. /\ m6' <=> \E w \in Vagas : Salvando(m8'[w])
        /\ \A w, x \in Vagas : Salvando(m8'[w]) /\ Salvando(m8'[x]) => w = x
    BY <1>1, BotaoFica DEF DraftInv
  <1>3. Chaveado'
    BY DraftPartes, ChaveadoFica
  <1>. QED  BY <1>1, <1>2, <1>3 DEF DraftInv, Chaveado

LEMMA DraftExecuta ==
  ASSUME Draft!ConstantesOk, DraftInv, NEW v \in Vagas, Draft!Executa(v)
  PROVE  DraftInv'
  <1>. DEFINE p == m8[v]
              alvo == IF p.id = Draft!Nenhum THEN Ids \ DOMAIN m1 ELSE {p.id} \cap DOMAIN m1
  <1>1. p.tipo \in {"salva", "renomeia", "apaga"} /\ UNCHANGED <<m2, m3, m4, m5, m6, m7, m9>>
    BY DEF Draft!Executa
  <1>2. PedidoBom(p) /\ p.id \in IdOuNada /\ p.graficos \in Draft!Arranjos
        /\ (p.tipo \in {"renomeia", "apaga"} => p.id \in Ids)
    <2>1. PedidoBom(p)
      BY DEF DraftInv
    <2>. HIDE DEF p
    <2>. QED  BY <1>1, <2>1, PedidoBomForma DEF IdOuNada
  <1>3. Guarda(m1) /\ DOMAIN m1 \subseteq Ids
    BY GuardaForma DEF DraftInv
  <1>4. alvo \subseteq Ids
    BY <1>3
  <1>5. ASSUME NEW id \in alvo,
               m1' = IF p.tipo = "apaga" THEN [d \in DOMAIN m1 \ {id} |-> m1[d]]
                                         ELSE Draft!Grava(id, p.graficos),
               Draft!Poe(v, [tipo |-> CASE p.tipo = "salva" -> "salvo" [] p.tipo = "apaga" -> "apagado"
                                        [] OTHER -> "feito",
                             id |-> id, salva |-> p.tipo = "salva"])
        PROVE  DraftInv'
    <2>1. id \in Ids
      BY <1>4, <1>5
    <2>2. Guarda(m1')
      <3>1. PICK D \in SUBSET Ids : m1 \in [D -> Draft!Arranjos]
        BY <1>3 DEF Guarda
      <3>2. CASE p.tipo = "apaga"
        <4>1. m1' = [d \in D \ {id} |-> m1[d]]
          BY <1>5, <3>1, <3>2
        <4>2. m1' \in [D \ {id} -> Draft!Arranjos]
          BY <3>1, <4>1
        <4>. QED  BY <4>2 DEF Guarda
      <3>3. CASE p.tipo # "apaga"
        <4>1. m1' = [d \in D \cup {id} |-> IF d = id THEN p.graficos ELSE m1[d]]
          BY <1>5, <3>1, <3>3 DEF Draft!Grava
        <4>. HIDE DEF p, alvo
        <4>2. m1' \in [D \cup {id} -> Draft!Arranjos]
          BY <1>2, <3>1, <4>1
        <4>3. D \cup {id} \in SUBSET Ids
          BY <2>1, <3>1
        <4>. QED  BY <4>2, <4>3 DEF Guarda
      <3>. QED  BY <3>2, <3>3
    <2>3. CASE p.tipo = "salva"
      <3>. DEFINE q == [tipo |-> "salvo", id |-> id, salva |-> TRUE]
      <3>1. Draft!Poe(v, q)
        BY <1>5, <2>3
      <3>2. PedidoBom(q) /\ Salvando(q) /\ Salvando(m8[v])
        BY <2>1, <2>3 DEF PedidoBom, Salvando
      <3>. HIDE DEF q
      <3>. QED  BY <1>1, <2>2, <3>1, <3>2, DraftResponde
    <2>4. CASE p.tipo \in {"renomeia", "apaga"}
      <3>1. PICK t \in {"feito", "apagado"} : Draft!Poe(v, [tipo |-> t, id |-> id, salva |-> FALSE])
        BY <1>5, <2>4
      <3>. DEFINE q == [tipo |-> t, id |-> id, salva |-> FALSE]
      <3>2. PedidoBom(q) /\ ~Salvando(q) /\ ~Salvando(m8[v])
        BY <2>1, <2>4, <3>1 DEF PedidoBom, Salvando
      <3>3. Draft!Poe(v, q)
        BY <3>1
      <3>. HIDE DEF q
      <3>. QED  BY <1>1, <2>2, <3>2, <3>3, DraftResponde
    <2>. QED  BY <1>1, <2>3, <2>4
  <1>6. ASSUME Draft!Poe(v, [tipo |-> "falhou", id |-> p.id, salva |-> p.tipo = "salva"]), m1' = m1
        PROVE  DraftInv'
    <2>1. PICK b \in BOOLEAN : b = (p.tipo = "salva")
      OBVIOUS
    <2>. DEFINE q == [tipo |-> "falhou", id |-> p.id, salva |-> b]
    <2>2. PedidoBom(q)
      BY <1>2 DEF PedidoBom
    <2>3. Salvando(q) <=> Salvando(m8[v])
      BY <1>1, <2>1 DEF Salvando
    <2>4. Draft!Poe(v, q) /\ Guarda(m1')
      BY <1>3, <1>6, <2>1
    <2>. HIDE DEF q, p
    <2>. QED  BY <1>1, <2>2, <2>3, <2>4, DraftResponde
  <1>. QED  BY <1>5, <1>6 DEF Draft!Executa

LEMMA DraftFalha ==
  ASSUME Draft!ConstantesOk, DraftInv, NEW v \in Vagas, Draft!FalhaDeRede(v)
  PROVE  DraftInv'
  <1>1. /\ m8[v].tipo \in {"salva", "renomeia", "apaga", "le"} /\ Draft!Age
        /\ UNCHANGED <<m1, m2, m3, m4, m5, m6, m7>> /\ Guarda(m1')
    BY DEF Draft!FalhaDeRede, DraftInv
  <1>2. CASE m8[v].tipo = "le"
    <2>1. Draft!Poe(v, Draft!Livre)
      BY <1>2 DEF Draft!FalhaDeRede
    <2>2. PedidoBom(Draft!Livre) /\ ~Salvando(Draft!Livre) /\ ~Salvando(m8[v])
      BY <1>2 DEF PedidoBom, Salvando, Draft!Livre
    <2>. QED  BY <1>1, <2>1, <2>2, DraftResponde
  <1>3. CASE m8[v].tipo # "le"
    <2>1. PICK b \in BOOLEAN : b = (m8[v].tipo = "salva")
      OBVIOUS
    <2>. DEFINE q == [tipo |-> "falhou", id |-> m8[v].id, salva |-> b]
    <2>2. Draft!Poe(v, q)
      BY <1>3, <2>1 DEF Draft!FalhaDeRede
    <2>3. m8[v].id \in IdOuNada
      <3>1. PedidoBom(m8[v])
        BY DEF DraftInv
      <3>. QED  BY <1>1, <1>3, <3>1, PedidoBomForma DEF IdOuNada
    <2>4. PedidoBom(q)
      BY <2>3 DEF PedidoBom
    <2>5. Salvando(q) <=> Salvando(m8[v])
      BY <1>1, <1>3, <2>1 DEF Salvando
    <2>. HIDE DEF q
    <2>. QED  BY <1>1, <2>2, <2>4, <2>5, DraftResponde
  <1>. QED  BY <1>2, <1>3

\* After the await: the button is free again when it was the save that ended.
LEMMA DraftConclui ==
  ASSUME Draft!ConstantesOk, DraftInv, NEW v \in Vagas, Draft!Conclui(v)
  PROVE  DraftInv'
  <1>1. /\ m8[v].tipo \in {"salvo", "feito", "apagado", "falhou"}
        /\ m4' = IF m8[v].tipo = "salvo" THEN Draft!SemRascunho ELSE m4
        /\ m6' = (m6 /\ ~m8[v].salva)
        /\ m3' = IF m8[v].tipo = "apagado" THEN Draft!Nenhum ELSE m3
        /\ UNCHANGED <<m1, m2, m5, m7, m9>>
    BY DEF Draft!Conclui
  <1>2. PedidoBom(m8[v])
    BY DEF DraftInv
  <1>3. PICK p : Draft!Poe(v, p) /\ (p = Draft!Livre \/ \E id \in IdOuNada : p = [tipo |-> "le", select |-> id])
    <2>1. CASE m8[v].tipo = "falhou"
      BY <2>1 DEF Draft!Conclui
    <2>2. CASE m8[v].tipo = "apagado"
      <3>1. Draft!Poe(v, [tipo |-> "le", select |-> Draft!Nenhum])
        BY <2>2 DEF Draft!Conclui, Draft!Load
      <3>. QED  BY <3>1 DEF IdOuNada
    <2>3. CASE m8[v].tipo \in {"salvo", "feito"}
      <3>1. Draft!Poe(v, [tipo |-> "le", select |-> m8[v].id])
        BY <2>3 DEF Draft!Conclui, Draft!Load
      <3>2. m8[v].id \in IdOuNada
        BY <1>2, <2>3, PedidoBomForma DEF IdOuNada
      <3>. QED  BY <3>1, <3>2
    <2>. QED  BY <1>1, <2>1, <2>2, <2>3
  <1>4. PedidoBom(p) /\ ~Salvando(p)
    BY <1>3 DEF PedidoBom, Salvando, Draft!Livre
  <1>5. /\ m8' = [w \in Vagas |-> m8'[w]] /\ \A w \in Vagas : PedidoBom(m8'[w])
        /\ m8'[v] = p /\ \A w \in Vagas \ {v} : m8'[w] = m8[w]
    BY <1>3, <1>4, PedidoPosto DEF DraftInv
  <1>6. Salvando(m8[v]) <=> m8[v].salva
    BY <1>1, <1>2, PedidoBomForma DEF Salvando
  <1>7. /\ m6' <=> \E w \in Vagas : Salvando(m8'[w])
        /\ \A w, x \in Vagas : Salvando(m8'[w]) /\ Salvando(m8'[x]) => w = x
    <2>1. ~Salvando(m8'[v])
      BY <1>4, <1>5
    <2>2. \A w \in Vagas : Salvando(m8'[w]) <=> w # v /\ Salvando(m8[w])
      BY <1>5, <2>1
    <2>3. /\ m6 <=> \E w \in Vagas : Salvando(m8[w])
          /\ \A w, x \in Vagas : Salvando(m8[w]) /\ Salvando(m8[x]) => w = x
      BY DEF DraftInv
    <2>4. m6' <=> m6 /\ ~Salvando(m8[v])
      BY <1>1, <1>6
    <2>. QED  BY <2>2, <2>3, <2>4
  <1>8. Chaveado'
    BY <1>1, DraftPartes, ChaveadoFica
  <1>9. m3' \in DOMAIN m2' \cup {Draft!Nenhum} /\ m6' \in BOOLEAN
    BY <1>1 DEF DraftInv
  <1>. QED  BY <1>1, <1>5, <1>7, <1>8, <1>9 DEF DraftInv, Chaveado

-----------------------------------------------------------------------------
\* A click that takes keys, no more of them than the bound allows for one.
LEMMA ChavesNovas ==
  ASSUME Draft!ConstantesOk, Chaveado, Draft!Age, NEW n \in 0..MaxPanels, NEW k, k = m5 + n \/ k = m5 + 1
  PROVE  /\ k \in Nat \ {0} /\ m9' \in 0..MaxAcoes /\ k <= 1 + m9' * (1 + MaxPanels)
         /\ \A j \in 1..k : j \in Draft!Chaves
  <1>1. MaxPanels \in Nat \ {0} /\ MaxAcoes \in Nat /\ 1 + MaxPanels \in Nat
    BY DraftNumeros
  <1>2. m9 \in 0..MaxAcoes /\ m9 < MaxAcoes /\ m9' = m9 + 1 /\ m9 + 1 \in 0..MaxAcoes
    BY <1>1 DEF Chaveado, Draft!Age
  <1>3. m5 \in Nat \ {0} /\ m5 <= 1 + m9 * (1 + MaxPanels)
    BY DEF Chaveado
  <1>4. m5 + (1 + MaxPanels) <= 1 + (m9 + 1) * (1 + MaxPanels)
    BY <1>1, <1>2, <1>3, ChavesCabem
  <1>5. k \in Nat \ {0} /\ k <= m5 + (1 + MaxPanels)
    BY <1>1, <1>3
  <1>6. (m9 + 1) * (1 + MaxPanels) \in Nat /\ MaxAcoes * (1 + MaxPanels) \in Nat
    BY <1>1, <1>2
  <1>7. k <= 1 + (m9 + 1) * (1 + MaxPanels)
    BY <1>1, <1>3, <1>4, <1>5, <1>6
  <1>8. k <= 1 + MaxAcoes * (1 + MaxPanels)
    BY <1>1, <1>2, <1>5, <1>7, ChavesCabem
  <1>9. \A j \in 1..k : j \in 1..(1 + MaxAcoes * (1 + MaxPanels))
    BY <1>5, <1>6, <1>8
  <1>. QED  BY <1>2, <1>5, <1>7, <1>9 DEF Draft!Chaves

LEMMA DraftEdita ==
  ASSUME Draft!ConstantesOk, DraftInv, Draft!HandleEdit
  PROVE  DraftInv'
  <1>. DEFINE a == m2[m3]
              s == Draft!CopiaCom(a, m5)
  <1>1. /\ m3 \in DOMAIN m2 /\ Draft!Age /\ m4' = [dashboardId |-> m3, panels |-> s]
        /\ m5' = m5 + Len(a) /\ UNCHANGED <<m1, m2, m3, m6, m7, m8>>
    BY DEF Draft!HandleEdit, Draft!Selecionado
  <1>2. m3 \in Ids /\ Len(a) \in 0..MaxPanels /\ DOMAIN a = 1..Len(a) /\ \A i \in 1..Len(a) : a[i] \in Graficos
    <2>1. a \in Seq(Graficos) /\ Len(a) \in 0..MaxPanels /\ DOMAIN a = 1..Len(a) /\ m3 \in Ids
      BY <1>1, GuardaForma DEF DraftInv
    <2>. HIDE DEF a
    <2>. QED  BY <2>1
  <1>3. m5 \in Nat \ {0}
    BY DEF DraftInv
  <1>. HIDE DEF a
  <1>4. s = [i \in 1..Len(a) |-> [key |-> m5 + i - 1, grafico |-> a[i]]]
    BY <1>2 DEF Draft!CopiaCom
  <1>5. /\ m5' \in Nat \ {0} /\ m9' \in 0..MaxAcoes /\ m5' <= 1 + m9' * (1 + MaxPanels)
        /\ \A j \in 1..m5' : j \in Draft!Chaves
    <2>1. Len(a) \in 0..MaxPanels
      BY <1>2, DraftNumeros
    <2>2. Chaveado
      BY DraftPartes
    <2>. QED  BY <1>1, <2>1, <2>2, ChavesNovas
  <1>6. \A i \in 1..Len(a) : m5 + i - 1 \in 1..m5' /\ m5 + i - 1 < m5'
    <2>1. PICK k : k = m5 + Len(a)
      OBVIOUS
    <2>2. \A i \in 1..Len(a) : m5 + i - 1 \in 1..k /\ m5 + i - 1 < k
      BY <1>2, <1>3, <2>1
    <2>. QED  BY <1>1, <2>1, <2>2
  <1>7. s \in [1..Len(a) -> Draft!Painel]
    <2>1. \A i \in 1..Len(a) : [key |-> m5 + i - 1, grafico |-> a[i]] \in Draft!Painel
      BY <1>2, <1>5, <1>6 DEF Draft!Painel
    <2>. QED  BY <1>4, <2>1
  <1>8. \A i \in 1..Len(a) : s[i].key = m5 + i - 1
    BY <1>4
  <1>. HIDE DEF s
  <1>9. RascunhoBom(m4')
    <2>1. Len(a) \in 0..MaxPanels /\ m3 \in IdOuNada
      BY <1>2, DraftNumeros DEF IdOuNada
    <2>. QED  BY <1>1, <1>7, <2>1 DEF RascunhoBom
  <1>10. Draft!ChavesProprias'
    <2>1. m4'.panels = s /\ DOMAIN s = 1..Len(a)
      BY <1>1, <1>7
    <2>2. ASSUME NEW i \in 1..Len(a), NEW j \in 1..Len(a)
          PROVE  s[i].key < m5' /\ (s[i].key = s[j].key => i = j)
      <3>1. i \in Int /\ j \in Int
        OBVIOUS
      <3>2. s[i].key = m5 + i - 1 /\ s[j].key = m5 + j - 1 /\ m5 + i - 1 < m5'
        BY <1>6, <1>8
      <3>3. m5 + i - 1 = m5 + j - 1 => i = j
        BY <1>3, <3>1
      <3>. QED  BY <3>2, <3>3
    <2>. QED  BY <2>1, <2>2 DEF Draft!ChavesProprias
  <1>. QED  BY <1>1, <1>5, <1>9, <1>10 DEF DraftInv

\* A draft that is open has its charts in a row, whose keys are its own.
LEMMA RascunhoAberto ==
  ASSUME RascunhoBom(m4), Draft!ChavesProprias, Draft!Aberto
  PROVE  \E id \in IdOuNada, n \in 0..MaxPanels : \E s \in [1..n -> Draft!Painel] :
           /\ m4 = [dashboardId |-> id, panels |-> s] /\ m4.panels = s /\ DOMAIN s = 1..n
           /\ \A i, j \in 1..n : s[i].key < m5 /\ (s[i].key = s[j].key => i = j)
  <1>1. PICK id \in IdOuNada, n \in 0..MaxPanels : \E s \in [1..n -> Draft!Painel] :
               m4 = [dashboardId |-> id, panels |-> s]
    BY DEF RascunhoBom, Draft!Aberto
  <1>2. PICK s \in [1..n -> Draft!Painel] : m4 = [dashboardId |-> id, panels |-> s]
    BY <1>1
  <1>3. m4.panels = s /\ DOMAIN s = 1..n
    BY <1>2
  <1>4. \A i, j \in 1..n : s[i].key < m5 /\ (s[i].key = s[j].key => i = j)
    BY <1>3 DEF Draft!ChavesProprias
  <1>. QED  BY <1>2, <1>3, <1>4

\* A click leaves a draft of charts whose keys are their own.
LEMMA DraftDesenha ==
  ASSUME Draft!ConstantesOk, DraftInv, NEW n \in 0..MaxPanels, NEW s \in [1..n -> Draft!Painel],
         Draft!Desenha(s), m5' = m5 \/ m5' = m5 + 1, UNCHANGED <<m1, m2, m3, m6, m7, m8>>,
         \A i, j \in 1..n : s[i].key < m5' /\ (s[i].key = s[j].key => i = j)
  PROVE  DraftInv'
  <1>1. Draft!Age /\ Draft!Aberto /\ m4' = [m4 EXCEPT !.panels = s]
    BY DEF Draft!Desenha
  <1>2. PICK id \in IdOuNada, k \in 0..MaxPanels : \E t \in [1..k -> Draft!Painel] :
               m4 = [dashboardId |-> id, panels |-> t]
    BY <1>1 DEF RascunhoBom, Draft!Aberto, DraftInv
  <1>3. m4' = [dashboardId |-> id, panels |-> s]
    BY <1>1, <1>2
  <1>4. RascunhoBom(m4')
    BY <1>3 DEF RascunhoBom
  <1>5. m4'.panels = s /\ DOMAIN s = 1..n
    BY <1>3
  <1>6. Draft!ChavesProprias'
    BY <1>5 DEF Draft!ChavesProprias
  <1>7. m5' \in Nat \ {0} /\ m9' \in 0..MaxAcoes /\ m5' <= 1 + m9' * (1 + MaxPanels)
    <2>1. Chaveado
      BY DraftPartes
    <2>2. m5 = m5 + 0 /\ 0 \in 0..MaxPanels
      BY DraftNumeros DEF DraftInv
    <2>3. CASE m5' = m5
      BY <1>1, <2>1, <2>2, <2>3, ChavesNovas
    <2>4. CASE m5' = m5 + 1
      BY <1>1, <2>1, <2>2, <2>4, ChavesNovas
    <2>. QED  BY <2>3, <2>4
  <1>. QED  BY <1>4, <1>6, <1>7 DEF DraftInv

LEMMA DraftAcrescenta ==
  ASSUME Draft!ConstantesOk, DraftInv, Draft!Acrescenta, UNCHANGED <<m1, m2, m3, m6, m7, m8>>
  PROVE  DraftInv'
  <1>1. PICK g \in Graficos : Draft!Desenha(Append(m4.panels, [key |-> m5, grafico |-> g]))
    BY DEF Draft!Acrescenta
  <1>2. Len(m4.panels) < MaxPanels /\ m5' = m5 + 1 /\ Draft!Age
    BY <1>1 DEF Draft!Acrescenta, Draft!Desenha
  <1>3. PICK n \in 0..MaxPanels : \E s \in [1..n -> Draft!Painel] :
               /\ m4.panels = s /\ DOMAIN s = 1..n
               /\ \A i, j \in 1..n : s[i].key < m5 /\ (s[i].key = s[j].key => i = j)
    BY <1>1, RascunhoAberto DEF DraftInv, Draft!Desenha
  <1>4. PICK s \in [1..n -> Draft!Painel] :
               /\ m4.panels = s /\ DOMAIN s = 1..n
               /\ \A i, j \in 1..n : s[i].key < m5 /\ (s[i].key = s[j].key => i = j)
    BY <1>3
  <1>. DEFINE e == [key |-> m5, grafico |-> g]
              t == Append(s, e)
  <1>5. m5 \in Nat \ {0} /\ n \in Nat
    BY DEF DraftInv
  <1>6. e \in Draft!Painel /\ e.key = m5
    <2>1. \A k \in 1..m5' : k \in Draft!Chaves
      <3>1. 0 \in 0..MaxPanels
        BY DraftNumeros
      <3>2. Chaveado
        BY DraftPartes
      <3>. QED  BY <1>2, <3>1, <3>2, ChavesNovas
    <2>2. m5 \in 1..m5'
      BY <1>2, <1>5
    <2>. QED  BY <2>1, <2>2 DEF Draft!Painel
  <1>. HIDE DEF e
  <1>7. s \in Seq(Draft!Painel) /\ Len(s) = n
    BY <1>4, <1>5
  <1>8. t \in [1..(n + 1) -> Draft!Painel] /\ t[n + 1] = e /\ \A i \in 1..n : t[i] = s[i]
    <2>1. t \in Seq(Draft!Painel) /\ Len(t) = n + 1
      BY <1>5, <1>6, <1>7
    <2>2. t[n + 1] = e /\ \A i \in 1..n : t[i] = s[i]
      BY <1>5, <1>6, <1>7
    <2>. HIDE DEF t
    <2>. QED  BY <2>1, <2>2
  <1>9. n + 1 \in 0..MaxPanels
    <2>1. Len(s) < MaxPanels /\ MaxPanels \in Nat
      BY <1>2, <1>4, DraftNumeros
    <2>. QED  BY <1>5, <1>7, <2>1
  <1>. HIDE DEF t
  <1>10. \A i, j \in 1..(n + 1) : t[i].key < m5' /\ (t[i].key = t[j].key => i = j)
    <2>1. \A i \in 1..n : s[i].key \in Nat /\ s[i].key < m5
      BY <1>4 DEF Draft!Painel, Draft!Chaves
    <2>2. \A i \in 1..(n + 1) : i \in 1..n \/ i = n + 1
      BY <1>5
    <2>3. ASSUME NEW i \in 1..(n + 1) PROVE t[i].key < m5'
      <3>1. CASE i \in 1..n
        BY <1>2, <1>5, <1>8, <2>1, <3>1
      <3>2. CASE i = n + 1
        BY <1>2, <1>5, <1>6, <1>8, <3>2
      <3>. QED  BY <2>2, <3>1, <3>2
    <2>4. ASSUME NEW i \in 1..(n + 1), NEW j \in 1..(n + 1), t[i].key = t[j].key PROVE i = j
      <3>1. CASE i \in 1..n /\ j \in 1..n
        BY <1>4, <1>8, <2>4, <3>1
      <3>2. CASE i \in 1..n /\ j = n + 1
        <4>1. s[i].key = m5
          BY <1>6, <1>8, <2>4, <3>2
        <4>. QED  BY <1>5, <2>1, <3>2, <4>1
      <3>3. CASE i = n + 1 /\ j \in 1..n
        <4>1. s[j].key = m5
          BY <1>6, <1>8, <2>4, <3>3
        <4>. QED  BY <1>5, <2>1, <3>3, <4>1
      <3>. QED  BY <2>2, <3>1, <3>2, <3>3
    <2>. QED  BY <2>3, <2>4
  <1>11. Draft!Desenha(t)
    BY <1>1, <1>4 DEF t, e
  <1>. QED  BY <1>2, <1>8, <1>9, <1>10, <1>11, DraftDesenha

LEMMA DraftAtualiza ==
  ASSUME Draft!ConstantesOk, DraftInv, Draft!UpdatePanel, UNCHANGED <<m1, m2, m3, m6, m7, m8>>
  PROVE  DraftInv'
  <1>1. m5' = m5 /\ Draft!Aberto
    BY DEF Draft!UpdatePanel, Draft!Desenha
  <1>2. PICK n \in 0..MaxPanels : \E s \in [1..n -> Draft!Painel] :
               /\ m4.panels = s /\ DOMAIN s = 1..n
               /\ \A i, j \in 1..n : s[i].key < m5 /\ (s[i].key = s[j].key => i = j)
    BY <1>1, RascunhoAberto DEF DraftInv
  <1>3. PICK s \in [1..n -> Draft!Painel] :
               /\ m4.panels = s /\ DOMAIN s = 1..n
               /\ \A i, j \in 1..n : s[i].key < m5 /\ (s[i].key = s[j].key => i = j)
    BY <1>2
  <1>4. PICK i \in 1..n, g \in Graficos :
          Draft!Desenha([j \in 1..n |-> IF s[j].key = s[i].key THEN [s[j] EXCEPT !.grafico = g] ELSE s[j]])
    BY <1>3 DEF Draft!UpdatePanel
  <1>. DEFINE t == [j \in 1..n |-> IF s[j].key = s[i].key THEN [s[j] EXCEPT !.grafico = g] ELSE s[j]]
  <1>5. ASSUME NEW j \in 1..n PROVE t[j] \in Draft!Painel /\ t[j].key = s[j].key
    <2>1. s[j] \in Draft!Painel
      OBVIOUS
    <2>2. PICK c \in Draft!Chaves, h \in Graficos : s[j] = [key |-> c, grafico |-> h]
      BY <2>1 DEF Draft!Painel
    <2>3. [s[j] EXCEPT !.grafico = g] = [key |-> c, grafico |-> g]
      BY <2>2
    <2>4. t[j] = [key |-> c, grafico |-> g] \/ t[j] = s[j]
      BY <2>3
    <2>5. [key |-> c, grafico |-> g] \in Draft!Painel /\ s[j].key = c
      BY <2>2 DEF Draft!Painel
    <2>. HIDE DEF t
    <2>. QED  BY <2>1, <2>2, <2>4, <2>5
  <1>6. Draft!Desenha(t) /\ DOMAIN t = 1..n /\ t = [j \in 1..n |-> t[j]]
    BY <1>4
  <1>. HIDE DEF t
  <1>7. t \in [1..n -> Draft!Painel]
    BY <1>5, <1>6
  <1>8. \A j, k \in 1..n : t[j].key < m5' /\ (t[j].key = t[k].key => j = k)
    BY <1>1, <1>3, <1>5
  <1>. QED  BY <1>1, <1>6, <1>7, <1>8, DraftDesenha

LEMMA DraftMove ==
  ASSUME Draft!ConstantesOk, DraftInv, Draft!MovePanel, UNCHANGED <<m1, m2, m3, m6, m7, m8>>
  PROVE  DraftInv'
  <1>1. m5' = m5 /\ Draft!Aberto
    BY DEF Draft!MovePanel, Draft!Desenha
  <1>2. PICK n \in 0..MaxPanels : \E s \in [1..n -> Draft!Painel] :
               /\ m4.panels = s /\ DOMAIN s = 1..n
               /\ \A i, j \in 1..n : s[i].key < m5 /\ (s[i].key = s[j].key => i = j)
    BY <1>1, RascunhoAberto DEF DraftInv
  <1>3. PICK s \in [1..n -> Draft!Painel] :
               /\ m4.panels = s /\ DOMAIN s = 1..n
               /\ \A i, j \in 1..n : s[i].key < m5 /\ (s[i].key = s[j].key => i = j)
    BY <1>2
  <1>4. PICK a \in 1..n, b \in 1..n : Draft!Desenha([s EXCEPT ![a] = s[b], ![b] = s[a]])
    BY <1>3 DEF Draft!MovePanel
  <1>. DEFINE t == [s EXCEPT ![a] = s[b], ![b] = s[a]]
              de(j) == IF j = b THEN a ELSE IF j = a THEN b ELSE j
  <1>5. t \in [1..n -> Draft!Painel] /\ \A j \in 1..n : t[j] = s[de(j)]
    BY <1>3
  <1>6. \A j \in 1..n : de(j) \in 1..n /\ \A k \in 1..n : de(j) = de(k) => j = k
    OBVIOUS
  <1>7. Draft!Desenha(t)
    BY <1>4
  <1>. HIDE DEF t, de
  <1>8. \A j, k \in 1..n : t[j].key < m5' /\ (t[j].key = t[k].key => j = k)
    <2>1. SUFFICES ASSUME NEW j \in 1..n, NEW k \in 1..n
                   PROVE  t[j].key < m5' /\ (t[j].key = t[k].key => j = k)
      OBVIOUS
    <2>2. t[j] = s[de(j)] /\ t[k] = s[de(k)] /\ de(j) \in 1..n /\ de(k) \in 1..n
      BY <1>5, <1>6
    <2>3. s[de(j)].key < m5 /\ (s[de(j)].key = s[de(k)].key => de(j) = de(k))
      BY <1>3, <2>2
    <2>. QED  BY <1>1, <1>6, <2>2, <2>3
  <1>. QED  BY <1>1, <1>5, <1>7, <1>8, DraftDesenha

LEMMA DraftRetira ==
  ASSUME Draft!ConstantesOk, DraftInv, Draft!RetiraPanel, UNCHANGED <<m1, m2, m3, m6, m7, m8>>
  PROVE  DraftInv'
  <1>1. m5' = m5 /\ Draft!Aberto
    BY DEF Draft!RetiraPanel, Draft!Desenha
  <1>2. PICK n \in 0..MaxPanels : \E s \in [1..n -> Draft!Painel] :
               /\ m4.panels = s /\ DOMAIN s = 1..n
               /\ \A i, j \in 1..n : s[i].key < m5 /\ (s[i].key = s[j].key => i = j)
    BY <1>1, RascunhoAberto DEF DraftInv
  <1>3. PICK s \in [1..n -> Draft!Painel] :
               /\ m4.panels = s /\ DOMAIN s = 1..n
               /\ \A i, j \in 1..n : s[i].key < m5 /\ (s[i].key = s[j].key => i = j)
    BY <1>2
  <1>4. PICK ficam \in SUBSET (1..n) : \E ordem \in Draft!Ordens(ficam) :
               Draft!Desenha([k \in DOMAIN ordem |-> s[ordem[k]]])
    BY <1>3 DEF Draft!RetiraPanel
  <1>5. PICK ordem \in Draft!Ordens(ficam) : Draft!Desenha([k \in DOMAIN ordem |-> s[ordem[k]]])
    BY <1>4
  <1>. DEFINE c == Cardinality(ficam)
              t == [k \in 1..c |-> s[ordem[k]]]
  <1>6. c \in 0..MaxPanels
    <2>1. n \in Nat /\ MaxPanels \in Nat
      BY DraftNumeros
    <2>3. c \in Nat /\ c <= n
      BY <2>1, Finito
    <2>. HIDE DEF c
    <2>. QED  BY <2>1, <2>3
  <1>7. ordem \in [1..c -> ficam] /\ \A a, b \in 1..c : a < b => ordem[a] < ordem[b]
    BY <1>5 DEF Draft!Ordens, Draft!Cardinality, Cardinality
  <1>. HIDE DEF c
  <1>8. \A a, b \in 1..c : ordem[a] = ordem[b] => a = b
    <2>1. ASSUME NEW a \in 1..c, NEW b \in 1..c, ordem[a] = ordem[b] PROVE a = b
      <3>1. a \in Int /\ b \in Int /\ ordem[a] \in Int /\ ordem[b] \in Int
        <4>1. c \in Int /\ n \in Int
          BY <1>6
        <4>2. ordem[a] \in 1..n /\ ordem[b] \in 1..n
          BY <1>7
        <4>. QED  BY <4>1, <4>2
      <3>2. ~(a < b) /\ ~(b < a)
        BY <1>7, <2>1, <3>1
      <3>. QED  BY <3>1, <3>2
    <2>. QED  BY <2>1
  <1>9. \A a \in 1..c : ordem[a] \in 1..n
    BY <1>7
  <1>10. Draft!Desenha(t)
    BY <1>5, <1>7
  <1>11. t \in [1..c -> Draft!Painel] /\ \A k \in 1..c : t[k] = s[ordem[k]]
    BY <1>3, <1>9
  <1>. HIDE DEF t
  <1>12. \A j, k \in 1..c : t[j].key < m5' /\ (t[j].key = t[k].key => j = k)
    BY <1>1, <1>3, <1>8, <1>9, <1>11
  <1>. QED  BY <1>1, <1>6, <1>10, <1>11, <1>12, DraftDesenha

LEMMA DraftParado ==
  ASSUME DraftInv, UNCHANGED Draft!vars
  PROVE  DraftInv'
  <1>1. UNCHANGED <<m1, m2, m3, m4, m5, m6, m7, m8, m9>>
    BY DEF Draft!vars
  <1>. QED  BY <1>1 DEF DraftInv, Draft!ChavesProprias

LEMMA DraftMantem ==
  ASSUME Draft!ConstantesOk, DraftInv, [Draft!Next]_(Draft!vars)
  PROVE  DraftInv'
  <1>1. CASE Draft!Edita
    <2>1. UNCHANGED <<m1, m2, m3, m6, m7, m8>>
      BY <1>1 DEF Draft!Edita
    <2>. QED  BY <1>1, <2>1, DraftAcrescenta, DraftAtualiza, DraftMove, DraftRetira DEF Draft!Edita
  <1>. QED  BY <1>1, DraftSeleciona, DraftPergunta, DraftNega, DraftNovo, DraftEdita, DraftCancela,
               DraftSalva, DraftRenomeia, DraftLista, DraftRecebe, DraftExecuta, DraftFalha,
               DraftConclui, DraftParado DEF Draft!Next

LEMMA DraftVale ==
  ASSUME Draft!ConstantesOk, DraftInv
  PROVE  Draft!ChavesProprias /\ Draft!SelecaoListada
  <1>1. Draft!SelecaoListada
    BY DEF DraftInv, Draft!SelecaoListada, Salvando
  <1>. QED  BY <1>1 DEF DraftInv

LEMMA DraftSempre ==
  ASSUME ConstantesDasTelas
  PROVE  Spec => [](tela = "rascunho" => DraftInv)
  <1>1. Init => (tela = "rascunho" => DraftInv)
    BY InicioDaTela, DraftInicia DEF ConstantesDasTelas
  <1>2. (tela = "rascunho" => DraftInv) /\ [Next]_memoria => (tela = "rascunho" => DraftInv)'
    BY PassoDaTela, DraftMantem DEF ConstantesDasTelas
  <1>. QED  BY <1>1, <1>2, PTL DEF Spec

\* Whatever the order of the clicks, the writes and their answers, the charts of a draft keep
\* keys of their own, the dashboard selected is listed or none, and the button is busy exactly
\* while a save is, whatever charts the lists leave out (DashboardsView.tsx).
THEOREM RascunhoSempreIntegro ==
  ASSUME ConstantesDasTelas
  PROVE  Spec => []RascunhoIntegro
  <1>1. (tela = "rascunho" => DraftInv) => RascunhoIntegro
    BY DraftVale DEF ConstantesDasTelas, RascunhoIntegro
  <1>. QED  BY <1>1, DraftSempre, PTL

\* A request that is as the invariant says is one of the module's.
LEMMA PedidoTipado ==
  ASSUME Draft!ConstantesOk, NEW p, PedidoBom(p)
  PROVE  p \in {Draft!Livre} \cup Draft!Escritas \cup Draft!Idas \cup Draft!Voltas
  <1>. DEFINE Voltou == [tipo : {"salvo", "feito", "apagado", "falhou"}, id : IdOuNada, salva : BOOLEAN]
  <1>1. Voltou \subseteq Draft!Voltas
    BY DEF Draft!Voltas, IdOuNada
  <1>2. Draft!Escritas = [tipo : {"salva", "renomeia", "apaga"}, id : IdOuNada, graficos : Draft!Arranjos]
    BY DEF Draft!Escritas, IdOuNada
  <1>3. ASSUME NEW t \in {"salva", "renomeia", "apaga"}, NEW id \in IdOuNada, NEW a \in Draft!Arranjos,
               p = [tipo |-> t, id |-> id, graficos |-> a]
        PROVE  p \in Draft!Escritas
    BY <1>2, <1>3
  <1>4. ASSUME NEW t \in {"salvo", "feito", "apagado", "falhou"}, NEW id \in IdOuNada, NEW b \in BOOLEAN,
               p = [tipo |-> t, id |-> id, salva |-> b]
        PROVE  p \in Draft!Voltas
    BY <1>1, <1>4
  <1>. HIDE DEF Voltou
  <1>5. ASSUME NEW id \in IdOuNada, p = [tipo |-> "le", select |-> id]
        PROVE  p \in Draft!Idas
    BY <1>5 DEF Draft!Idas, IdOuNada
  <1>6. ASSUME NEW id \in IdOuNada, NEW g, Guarda(g), p = [tipo |-> "lida", select |-> id, lista |-> g]
        PROVE  p \in Draft!Voltas
    <2>1. g \in Draft!Guardados
      BY <1>6, GuardaForma
    <2>. QED  BY <1>6, <2>1 DEF Draft!Voltas, IdOuNada
  <1>7. Ids \subseteq IdOuNada
    BY DEF IdOuNada
  <1>. QED  BY <1>3, <1>4, <1>5, <1>6, <1>7 DEF PedidoBom

\* The types of the dashboards.
LEMMA DraftTipo ==
  ASSUME Draft!ConstantesOk, DraftInv
  PROVE  Draft!TypeOK
  <1>1. m1 \in Draft!Guardados /\ m2 \in Draft!Guardados
    BY GuardaForma DEF DraftInv
  <1>2. m3 \in IdOuNada
    <2>1. DOMAIN m2 \subseteq Ids
      BY GuardaForma DEF DraftInv
    <2>. QED  BY <2>1 DEF DraftInv, IdOuNada
  <1>3. m5 \in Draft!Chaves
    <2>1. MaxAcoes \in Nat /\ 1 + MaxPanels \in Nat
      BY DraftNumeros
    <2>2. m5 \in 1..(1 + MaxAcoes * (1 + MaxPanels))
      BY <2>1, ChavesCabem DEF DraftInv
    <2>. QED  BY <2>2 DEF Draft!Chaves
  <1>4. /\ m4 = Draft!SemRascunho \/ m4.dashboardId \in IdOuNada
        /\ \A i \in DOMAIN m4.panels : m4.panels[i] \in Draft!Painel
    <2>1. CASE m4 = Draft!SemRascunho
      BY <2>1 DEF Draft!SemRascunho
    <2>2. ASSUME NEW id \in IdOuNada, NEW n \in 0..MaxPanels, NEW s \in [1..n -> Draft!Painel],
                 m4 = [dashboardId |-> id, panels |-> s]
          PROVE  m4.dashboardId \in IdOuNada /\ \A i \in DOMAIN m4.panels : m4.panels[i] \in Draft!Painel
      BY <2>2
    <2>. QED  BY <2>1, <2>2 DEF DraftInv, RascunhoBom
  <1>6. m7 \in Draft!Perguntas
    BY DEF DraftInv, PerguntaBoa, Draft!Perguntas
  <1>7. ASSUME NEW v \in Vagas
        PROVE  m8[v] \in {Draft!Livre} \cup Draft!Escritas \cup Draft!Idas \cup Draft!Voltas
    BY PedidoTipado DEF DraftInv
  <1>. QED  BY <1>1, <1>2, <1>3, <1>4, <1>6, <1>7 DEF DraftInv, Draft!TypeOK, IdOuNada

-----------------------------------------------------------------------------
(* The databases.  m1 are the instances, m2 the filters, m4 the base whose   *)
(* schema was asked for, m5 its answer, m6 its reading, m7 the schema chosen,*)
(* m8 the table in focus, m9 the jumps around it and m10 the list of tables. *)

BancosInv ==
  /\ Data!TypeOK
  /\ m5 # Data!SemEsquema => m5.base = m4.base
  /\ m5 = Data!SemEsquema => m8 = Data!Nenhum
  /\ m8 # Data!Nenhum => m8 \in Data!DoSchema

\* The layout of what is on screen, with the lemmas about it.
Desenhado == INSTANCE SchemaDiagramProofs WITH
  presentes <- Data!DoSchema, relacoes <- m5.relacoes, pedida <- m8, pedidos <- m9,
  Primarias <- [t \in Tabelas |-> 0], MaxRelacoes <- 0, estado <- <<>>, nivel <- <<>>, pilha <- <<>>, nos <- <<>>

LEMMA DesenhadasMesmas ==
  Data!Desenho(m8)!Desenhadas = Desenhado!Desenhadas
  BY DEF Data!Desenho!Desenhadas, Desenhado!Desenhadas, Data!Desenho!Visiveis, Desenhado!Visiveis,
         Data!Desenho!ComRelacao, Desenhado!ComRelacao, Data!Desenho!Raiz, Desenhado!Raiz,
         Data!Desenho!Relacoes, Desenhado!Relacoes, Data!Desenho!DoEsquema, Desenhado!DoEsquema,
         Data!Desenho!Onda, Desenhado!Onda, Data!Desenho!Ligadas, Desenhado!Ligadas,
         Data!Desenho!Saltos, Desenhado!Saltos, Data!Desenho!Menor, Desenhado!Menor,
         Data!Desenho!Maior, Desenhado!Maior, Data!Desenho!NenhumaRaiz, Desenhado!NenhumaRaiz,
         Data!Desenho!SALTOS_MAXIMOS, Desenhado!SALTOS_MAXIMOS,
         Data!Desenho!SALTOS_MINIMOS, Desenhado!SALTOS_MINIMOS

\* Only tables of the schema are drawn, the one in focus among them.
LEMMA DesenhadasDoSchema ==
  ASSUME m9 \in 1..2
  PROVE  /\ Data!Desenho(m8)!Desenhadas \subseteq Data!DoSchema
         /\ m8 # Data!Nenhum /\ m8 \in Data!DoSchema => m8 \in Data!Desenho(m8)!Desenhadas
  <1>1. Desenhado!Saltos = 1 \/ Desenhado!Saltos = 2
    BY DEF Desenhado!Saltos, Desenhado!Menor, Desenhado!Maior, Desenhado!SALTOS_MAXIMOS,
           Desenhado!SALTOS_MINIMOS
  <1>2. Desenhado!Raiz # Desenhado!NenhumaRaiz =>
           Desenhado!Visiveis \subseteq Data!DoSchema /\ Desenhado!Raiz \in Desenhado!Visiveis
    <2>1. SUFFICES ASSUME Desenhado!Raiz # Desenhado!NenhumaRaiz
                   PROVE  Desenhado!Visiveis \subseteq Data!DoSchema /\ Desenhado!Raiz \in Desenhado!Visiveis
      OBVIOUS
    <2>2. Desenhado!Raiz \in Data!DoSchema
      BY <2>1 DEF Desenhado!Raiz
    <2>3. Desenhado!Visiveis = Desenhado!Onda[Desenhado!Saltos].alcancados
      BY <2>1 DEF Desenhado!Visiveis
    <2>4. Desenhado!Onda[1].alcancados \subseteq Data!DoSchema /\ Desenhado!Raiz \in Desenhado!Onda[1].alcancados
      BY <2>1, <2>2, Desenhado!OndaSaltos
    <2>5. Desenhado!Onda[2].alcancados \subseteq Data!DoSchema /\ Desenhado!Raiz \in Desenhado!Onda[2].alcancados
      BY <2>1, <2>2, Desenhado!OndaSaltos
    <2>. QED  BY <1>1, <2>3, <2>4, <2>5
  <1>3. Desenhado!Desenhadas \subseteq Data!DoSchema
    BY <1>2 DEF Desenhado!Desenhadas, Desenhado!Visiveis
  <1>4. ASSUME m8 # Data!Nenhum, m8 \in Data!DoSchema PROVE m8 \in Desenhado!Desenhadas
    <2>1. Desenhado!Raiz = m8 /\ Desenhado!Raiz # Desenhado!NenhumaRaiz
      BY <1>4 DEF Desenhado!Raiz, Desenhado!NenhumaRaiz, Data!Nenhum
    <2>. QED  BY <1>2, <2>1 DEF Desenhado!Desenhadas
  <1>. QED  BY <1>3, <1>4, DesenhadasMesmas

LEMMA DoSchemaFica ==
  ASSUME m5' = m5, m7' = m7
  PROVE  Data!DoSchema' = Data!DoSchema
  BY DEF Data!DoSchema, Data!TabelasDe, Data!Schema, Data!Padrao, Data!Schemas

\* The schema drawn has tables of the answer, and is finite.
LEMMA DoSchemaTabelas ==
  ASSUME Data!ConstantesOk, Data!TypeOK, m5 # Data!SemEsquema
  PROVE  Data!DoSchema \subseteq Tabelas /\ Cardinality(Data!DoSchema) \in Nat
  <1>1. Data!DoSchema \subseteq Tabelas
    BY DEF Data!ConstantesOk, Data!TypeOK, Data!DoSchema, Data!TabelasDe
  <1>2. IsFiniteSet(Tabelas)
    BY DEF Data!ConstantesOk, Data!IsFiniteSet, IsFiniteSet
  <1>. QED  BY <1>1, <1>2, FS_Subset, FS_CardinalityType

LEMMA BancosInicia ==
  ASSUME Data!ConstantesOk, Data!Init
  PROVE  BancosInv
  <1>1. /\ m1 = {} /\ m2 = [c \in Data!Campos |-> Data!TODOS] /\ m4 = Data!SemAlvo /\ m5 = Data!SemEsquema
        /\ m6 = "parada" /\ m8 = Data!Nenhum /\ m9 = 1 /\ m10 = FALSE
    BY DEF Data!Init, Data!Foco!Init
  <1>2. (m6 = "lida") = (m5 # Data!SemEsquema) /\ (m6 = "parada") = (m4 = Data!SemAlvo)
    BY <1>1
  <1>3. m9 \in 1..2 /\ DOMAIN m2 = Data!Campos
    BY <1>1
  <1>. QED  BY <1>1, <1>2, <1>3 DEF BancosInv, Data!TypeOK

\* What does not touch the dialog.
LEMMA DialogoParado ==
  ASSUME BancosInv, UNCHANGED <<m4, m5, m6, m7, m8, m9, m10, m11>>,
         m1' \in Inventarios \cup {{}}, DOMAIN m2' = Data!Campos
  PROVE  BancosInv'
  BY DoSchemaFica DEF BancosInv, Data!TypeOK

LEMMA BancosBusca ==
  ASSUME Data!ConstantesOk, BancosInv,
         Data!Busca \/ Data!Filtra \/ Data!AbreDetalhe \/ Data!FecharDetalhe \/ UNCHANGED Data!vars
  PROVE  BancosInv'
  <1>1. UNCHANGED <<m4, m5, m6, m7, m8, m9, m10, m11>>
    BY DEF Data!Busca, Data!Filtra, Data!AbreDetalhe, Data!FecharDetalhe, Data!vars, Data!dialogo, Data!diagrama
  <1>2. m1' \in Inventarios \cup {{}} /\ DOMAIN m2' = Data!Campos
    BY DEF Data!Busca, Data!Filtra, Data!AbreDetalhe, Data!FecharDetalhe, Data!vars, Data!lista, BancosInv, Data!TypeOK
  <1>. QED  BY <1>1, <1>2, DialogoParado

\* Another base, or none: nothing was read and nothing is in focus.
LEMMA DialogoNovo ==
  ASSUME BancosInv, UNCHANGED <<m1, m2>>,
         Data!FechaDialogo \/ \E a : a # Data!SemAlvo /\ Data!Monta(a)
  PROVE  BancosInv'
  <1>1. /\ m5' = Data!SemEsquema /\ m8' = Data!Nenhum /\ m9' = 1 /\ m10' = FALSE
        /\ \/ m4' = Data!SemAlvo /\ m6' = "parada"
           \/ m4' # Data!SemAlvo /\ m6' = "lendo"
    BY DEF Data!FechaDialogo, Data!Monta, Data!Montado
  <1>2. (m6' = "lida") = (m5' # Data!SemEsquema) /\ (m6' = "parada") = (m4' = Data!SemAlvo)
    BY <1>1
  <1>3. m6' \in {"parada", "lendo", "lida", "falhou"} /\ m9' \in 1..2
    BY <1>1
  <1>. QED  BY <1>1, <1>2, <1>3 DEF BancosInv, Data!TypeOK

LEMMA BancosAbre ==
  ASSUME Data!ConstantesOk, BancosInv, Data!AbrirEsquema
  PROVE  BancosInv'
  <1>1. PICK i \in Data!Detalhe : \E b \in i.bases :
            LET a == [instancia |-> i.id, base |-> b]
            IN IF a = m4 THEN UNCHANGED Data!dialogo ELSE Data!Monta(a)
    BY DEF Data!AbrirEsquema
  <1>2. PICK b \in i.bases :
            LET a == [instancia |-> i.id, base |-> b]
            IN IF a = m4 THEN UNCHANGED Data!dialogo ELSE Data!Monta(a)
    BY <1>1
  <1>3. UNCHANGED <<m1, m2>>
    BY DEF Data!AbrirEsquema, Data!lista
  <1>4. i.id # Data!Nenhum
    BY DEF Data!Detalhe, Data!Visiveis, BancosInv, Data!TypeOK, Data!ConstantesOk
  <1>. DEFINE a == [instancia |-> i.id, base |-> b]
  <1>5. a # Data!SemAlvo
    BY <1>4 DEF Data!SemAlvo
  <1>6. CASE a = m4
    <2>1. UNCHANGED <<m4, m5, m6, m7, m8, m9, m10, m11>>
      BY <1>2, <1>6 DEF Data!dialogo, Data!diagrama
    <2>. QED  BY <1>3, <2>1, DialogoParado DEF BancosInv, Data!TypeOK
  <1>7. CASE a # m4
    <2>1. Data!Monta(a)
      BY <1>2, <1>7
    <2>. HIDE DEF a
    <2>. QED  BY <1>3, <1>5, <2>1, DialogoNovo
  <1>. QED  BY <1>6, <1>7

LEMMA BancosFecha ==
  ASSUME Data!ConstantesOk, BancosInv, Data!FecharEsquema \/ Data!Esc
  PROVE  BancosInv'
  <1>1. UNCHANGED <<m1, m2>>
    BY DEF Data!FecharEsquema, Data!Esc, Data!lista
  <1>2. CASE Data!FechaDialogo
    BY <1>1, <1>2, DialogoNovo
  <1>3. CASE UNCHANGED Data!dialogo
    <2>1. UNCHANGED <<m4, m5, m6, m7, m8, m9, m10, m11>>
      BY <1>3 DEF Data!dialogo, Data!diagrama
    <2>. QED  BY <1>1, <2>1, DialogoParado DEF BancosInv, Data!TypeOK
  <1>. QED  BY <1>2, <1>3 DEF Data!FecharEsquema, Data!Esc

LEMMA BancosLe ==
  ASSUME Data!ConstantesOk, BancosInv, Data!LeEsquema
  PROVE  BancosInv'
  <1>1. UNCHANGED <<m1, m2, m3, m4, m7, m8, m9, m10, m11>> /\ m6 = "lendo"
    BY DEF Data!LeEsquema, Data!lista, Data!diagrama
  <1>2. m5 = Data!SemEsquema /\ m8 = Data!Nenhum
    BY <1>1 DEF BancosInv, Data!TypeOK
  <1>3. CASE \E e \in Esquemas : e.base = m4.base /\ m5' = e /\ m6' = "lida"
    <2>1. PICK e \in Esquemas : e.base = m4.base /\ m5' = e /\ m6' = "lida"
      BY <1>3
    <2>2. e # Data!SemEsquema
      BY DEF Data!ConstantesOk, Data!SemEsquema, Data!Nenhum
    <2>. QED  BY <1>1, <1>2, <2>1, <2>2 DEF BancosInv, Data!TypeOK
  <1>4. CASE m6' = "falhou" /\ m5' = m5
    BY <1>1, <1>2, <1>4 DEF BancosInv, Data!TypeOK
  <1>. QED  BY <1>3, <1>4 DEF Data!LeEsquema

\* The list of tables: what is chosen in it is in it.
LEMMA ListaUsada ==
  ASSUME NEW X, NEW n \in Nat, NEW opcoes \in [1..n -> X], Data!Foco!Usa(opcoes, FALSE), m10 \in BOOLEAN
  PROVE  m8' \in X \cup {m8} /\ m10' \in BOOLEAN
  <1>1. Len(opcoes) = n
    OBVIOUS
  <1>2. ASSUME NEW i, Data!Foco!Commit(i, opcoes)
        PROVE  m8' \in X \cup {m8} /\ m10' \in BOOLEAN
    <2>1. m10' = FALSE
      BY <1>2 DEF Data!Foco!Commit
    <2>2. CASE i \in 0..(n - 1)
      <3>1. m8' = opcoes[i + 1]
        BY <1>1, <1>2, <2>2 DEF Data!Foco!Commit, Data!Foco!Indices
      <3>2. i + 1 \in 1..n
        BY <2>2
      <3>. QED  BY <2>1, <3>1, <3>2
    <2>3. CASE i \notin 0..(n - 1)
      BY <1>1, <1>2, <2>1, <2>3 DEF Data!Foco!Commit, Data!Foco!Indices
    <2>. QED  BY <2>2, <2>3
  <1>3. ASSUME NEW i, Data!Foco!Realca(i) PROVE m8' = m8 /\ m10' = m10
    BY <1>3 DEF Data!Foco!Realca
  <1>4. Data!Foco!Fecha => m8' = m8 /\ m10' = FALSE
    BY DEF Data!Foco!Fecha
  <1>5. Data!Foco!Abre(opcoes) => m8' = m8 /\ m10' = TRUE
    BY DEF Data!Foco!Abre
  <1>6. CASE Data!Foco!Tecla(opcoes)
    BY <1>2, <1>3, <1>5, <1>6 DEF Data!Foco!Tecla, Data!Foco!Enter, Data!Foco!ArrowDown, Data!Foco!ArrowUp, Data!Foco!HomeOuEnd
  <1>7. CASE Data!Foco!Escape
    BY <1>4, <1>7 DEF Data!Foco!Escape
  <1>8. CASE Data!Foco!Ponteiro(opcoes)
    BY <1>2, <1>3, <1>4, <1>5, <1>8 DEF Data!Foco!Ponteiro
  <1>9. CASE m10 /\ (Data!Foco!Fecha \/ \E i \in Data!Foco!Indices(opcoes) : Data!Foco!Realca(i) \/ Data!Foco!Commit(i, opcoes))
    BY <1>2, <1>3, <1>4, <1>9
  <1>. QED  BY <1>6, <1>7, <1>8, <1>9 DEF Data!Foco!Usa

\* With a diagram on screen only the focus moves, inside the schema.
LEMMA FocoMuda ==
  ASSUME BancosInv, UNCHANGED <<m1, m2, m4, m5, m6, m7>>, m5 # Data!SemEsquema,
         m8' = Data!Nenhum \/ m8' = m8 \/ (m8' \in Data!DoSchema /\ m8' \in Tabelas),
         m9' \in 1..2, m10' \in BOOLEAN
  PROVE  BancosInv'
  <1>1. Data!DoSchema' = Data!DoSchema
    BY DoSchemaFica
  <1>2. Data!TypeOK'
    BY DEF BancosInv, Data!TypeOK
  <1>. QED  BY <1>1, <1>2 DEF BancosInv

LEMMA BancosFoco ==
  ASSUME Data!ConstantesOk, BancosInv, Data!FocaPelaLista \/ Data!FocaPeloNo \/ Data!EscolheSaltos
  PROVE  BancosInv'
  <1>1. UNCHANGED <<m1, m2, m4, m5, m6, m7>> /\ m5 # Data!SemEsquema
    BY DEF Data!FocaPelaLista, Data!FocaPeloNo, Data!EscolheSaltos, Data!ComDiagrama, Data!lista
  <1>2. Data!DoSchema \subseteq Tabelas /\ Cardinality(Data!DoSchema) \in Nat
    BY <1>1, DoSchemaTabelas DEF BancosInv
  <1>3. m9 \in 1..2 /\ m10 \in BOOLEAN
    BY DEF BancosInv, Data!TypeOK
  <1>4. CASE Data!FocaPelaLista
    <2>1. m9' = m9
      BY <1>4 DEF Data!FocaPelaLista
    <2>2. PICK opcoes \in [1..(Cardinality(Data!DoSchema) + 1) -> Data!DoSchema \cup {Data!Nenhum}] :
             Data!Foco!Usa(opcoes, FALSE)
      BY <1>4 DEF Data!FocaPelaLista, Data!OpcoesDeTabela, Data!Cardinality, Cardinality
    <2>3. m8' \in Data!DoSchema \cup {Data!Nenhum} \cup {m8} /\ m10' \in BOOLEAN
      <3>. DEFINE n == Cardinality(Data!DoSchema) + 1
      <3>1. n \in Nat /\ opcoes \in [1..n -> Data!DoSchema \cup {Data!Nenhum}]
        BY <1>2, <2>2
      <3>. HIDE DEF n
      <3>. QED  BY <1>3, <2>2, <3>1, ListaUsada
    <2>. QED  BY <1>1, <1>2, <1>3, <2>1, <2>3, FocoMuda
  <1>5. CASE Data!FocaPeloNo
    <2>1. m9' = m9 /\ m10' = m10
      BY <1>5 DEF Data!FocaPeloNo
    <2>2. PICK t \in Data!Desenho(m8)!Desenhadas : m8' = IF m8 = t THEN Data!Nenhum ELSE t
      BY <1>5 DEF Data!FocaPeloNo
    <2>3. t \in Data!DoSchema
      BY <1>3, <2>2, DesenhadasDoSchema
    <2>. QED  BY <1>1, <1>2, <1>3, <2>1, <2>2, <2>3, FocoMuda
  <1>6. CASE Data!EscolheSaltos
    <2>1. m9' \in 1..2 /\ m8' = m8 /\ m10' = m10
      BY <1>6 DEF Data!EscolheSaltos
    <2>. QED  BY <1>1, <1>3, <2>1, FocoMuda
  <1>. QED  BY <1>4, <1>5, <1>6

LEMMA BancosSchema ==
  ASSUME Data!ConstantesOk, BancosInv, Data!EscolheSchema
  PROVE  BancosInv'
  BY DEF BancosInv, Data!TypeOK, Data!EscolheSchema, Data!lista

LEMMA BancosMantem ==
  ASSUME Data!ConstantesOk, BancosInv, [Data!Next]_(Data!vars)
  PROVE  BancosInv'
  BY BancosBusca, BancosAbre, BancosFecha, BancosLe, BancosFoco, BancosSchema DEF Data!Next

LEMMA BancosSempre ==
  ASSUME ConstantesDasTelas
  PROVE  Spec => [](tela = "bancos" => BancosInv)
  <1>1. Init => (tela = "bancos" => BancosInv)
    BY InicioDaTela, BancosInicia DEF ConstantesDasTelas
  <1>2. (tela = "bancos" => BancosInv) /\ [Next]_memoria => (tela = "bancos" => BancosInv)'
    BY PassoDaTela, BancosMantem DEF ConstantesDasTelas
  <1>. QED  BY <1>1, <1>2, PTL DEF Spec

\* Whatever lists the inventory answers and whatever is clicked meanwhile, the diagram is
\* the one of the base asked for and its focus is a table drawn (BancosView.tsx,
\* EsquemaDiagrama.tsx).
THEOREM DiagramaSempreDoAlvo ==
  ASSUME ConstantesDasTelas
  PROVE  Spec => []DiagramaDoAlvo
  <1>1. (tela = "bancos" => BancosInv) => DiagramaDoAlvo
    BY DesenhadasDoSchema DEF BancosInv, Data!TypeOK, DiagramaDoAlvo, Data!DiagramaDoAlvo
  <1>. QED  BY <1>1, BancosSempre, PTL

-----------------------------------------------------------------------------
(* The floor plans.  m1 are the pins at the server, m2 the unit, m3 the list,*)
(* m4 the plan on screen, m5 its pins, m6 the mode, m7 the host to place, m8 *)
(* whether there is something to save, m9 the reading of the pins, m10 the   *)
(* other requests and m11 the actions of the user.                           *)

\* Pins that may be of one plan.
Pinos(ps) == ps \subseteq Floor!Pino /\ Floor!Marcados(ps)
PlantaOuNada == Plantas \cup {Floor!Nenhuma}

\* A reading is of the plan on screen, and an answer brings the pins of one.
LeituraDaPlanta(l, c) ==
  \/ l = Floor!Livre
  \/ l = [tipo |-> "indo", plan |-> c]
  \/ \E ps : Pinos(ps) /\ l = [tipo |-> "voltando", plan |-> c, pins |-> ps]

PedidoDePlanta(p) ==
  \/ p = Floor!Livre
  \/ \E u : \E d \in PlantaOuNada : p = Floor!LoadPlans(u, d)
  \/ \E t \in {"grava", "gravado"} : \E c, ps : Pinos(ps) /\ p = [tipo |-> t, plan |-> c, pins |-> ps]
  \/ \E t \in {"apaga", "apagado"} : \E c : p = [tipo |-> t, plan |-> c]
  \/ \E u : p = [tipo |-> "envia", unidade |-> u]
  \/ \E c \in Plantas : \E u : p = [tipo |-> "enviado", plan |-> c, unidade |-> u]

PlantasInv ==
  /\ m1 = [p \in Plantas |-> m1[p]] /\ \A p \in Plantas : m1[p] = Floor!Ausente \/ Pinos(m1[p])
  /\ m2 \in UnidadesDoEditor \cup {Floor!Nenhuma} /\ m3 \subseteq Plantas /\ m4 \in PlantaOuNada
  /\ Pinos(m5) /\ m6 \in {"view", "edit"} /\ m7 \in HostsDaPlanta \cup {Floor!Nenhuma} /\ m8 \in BOOLEAN
  /\ LeituraDaPlanta(m9, m4)
  /\ m10 = [v \in Vagas |-> m10[v]] /\ \A v \in Vagas : PedidoDePlanta(m10[v])
  /\ m11 \in 0..MaxAcoes

\* What a request is, by its kind.
LEMMA PedidoPeloTipo ==
  ASSUME NEW p, PedidoDePlanta(p)
  PROVE  /\ p.tipo \in {"livre", "planos", "grava", "gravado", "apaga", "apagado", "envia", "enviado"}
         /\ p.tipo = "planos" => p.depois \in PlantaOuNada
         /\ p.tipo \in {"grava", "gravado"} =>
              Pinos(p.pins) /\ p = [tipo |-> p.tipo, plan |-> p.plan, pins |-> p.pins]
         /\ p.tipo = "apaga" => p = [tipo |-> "apaga", plan |-> p.plan]
         /\ p.tipo = "enviado" => p.plan \in Plantas
  <1>1. CASE p = Floor!Livre
    BY <1>1 DEF Floor!Livre
  <1>2. ASSUME NEW u, NEW d \in PlantaOuNada, p = [tipo |-> "planos", unidade |-> u, depois |-> d]
        PROVE  p.tipo = "planos" /\ p.depois \in PlantaOuNada
    BY <1>2
  <1>3. ASSUME NEW t \in {"grava", "gravado"}, NEW c, NEW ps, Pinos(ps), p = [tipo |-> t, plan |-> c, pins |-> ps]
        PROVE  /\ p.tipo \in {"grava", "gravado"} /\ Pinos(p.pins)
               /\ p = [tipo |-> p.tipo, plan |-> p.plan, pins |-> p.pins]
    BY <1>3
  <1>4. ASSUME NEW t \in {"apaga", "apagado"}, NEW c, p = [tipo |-> t, plan |-> c]
        PROVE  p.tipo \in {"apaga", "apagado"} /\ (p.tipo = "apaga" => p = [tipo |-> "apaga", plan |-> p.plan])
    BY <1>4
  <1>5. ASSUME NEW u, p = [tipo |-> "envia", unidade |-> u] PROVE p.tipo = "envia"
    BY <1>5
  <1>6. ASSUME NEW c \in Plantas, NEW u, p = [tipo |-> "enviado", plan |-> c, unidade |-> u]
        PROVE  p.tipo = "enviado" /\ p.plan \in Plantas
    BY <1>6
  <1>. QED  BY <1>1, <1>2, <1>3, <1>4, <1>5, <1>6 DEF PedidoDePlanta, Floor!LoadPlans

LEMMA PlantasTipo ==
  ASSUME PlantasInv
  PROVE  Floor!TypeOK
  <1>1. m9 = Floor!Livre \/ (m9.tipo \in {"indo", "voltando"} /\ m9.plan = m4)
    BY DEF PlantasInv, LeituraDaPlanta
  <1>2. ASSUME NEW v \in Vagas
        PROVE  m10[v].tipo \in {"livre", "planos", "grava", "gravado", "apaga", "apagado", "envia", "enviado"}
    BY PedidoPeloTipo DEF PlantasInv
  <1>. QED  BY <1>1, <1>2 DEF PlantasInv, Pinos, PlantaOuNada, Floor!TypeOK

\* A pin put on the plan is inside the image, wherever the pointer was let go.
LEMMA PinoPosto ==
  ASSUME Floor!ConstantesOk, Pinos(m5), NEW h \in HostsDaPlanta, NEW c \in Cliques
  PROVE  Pinos(Floor!PlaceHost(h, c))
  <1>1. Floor!ToPercent(c) \in 0..100
    <2>1. c \in Int /\ LarguraDaImagem \in Nat \ {0}
      BY DEF Floor!ConstantesOk
    <2>. DEFINE x == (c * 100) \div LarguraDaImagem
    <2>2. x \in Int
      BY <2>1
    <2>. HIDE DEF x
    <2>3. Floor!Max(0, Floor!Min(100, x)) \in 0..100
      BY <2>2 DEF Floor!Max, Floor!Min
    <2>. QED  BY <2>3 DEF Floor!ToPercent, x
  <1>. DEFINE x == Floor!ToPercent(c)
  <1>. HIDE DEF x
  <1>2. Floor!PlaceHost(h, c) = {p \in m5 : p.host # h} \cup {[host |-> h, x |-> x]}
    BY DEF Floor!PlaceHost, x
  <1>3. [host |-> h, x |-> x] \in Floor!Pino
    BY <1>1 DEF Floor!Pino, x
  <1>. QED  BY <1>2, <1>3 DEF Pinos, Floor!Marcados

LEMMA PlantasInicia ==
  ASSUME Floor!ConstantesOk, Floor!Init
  PROVE  PlantasInv
  <1>1. /\ m2 \in UnidadesDoEditor /\ m3 = {} /\ m4 = Floor!Nenhuma /\ m5 = {} /\ m6 = "view"
        /\ m7 = Floor!Nenhuma /\ m8 = FALSE /\ m9 = Floor!Livre /\ m11 = 0
    BY DEF Floor!Init
  <1>2. m1 \in [Plantas -> {Floor!Ausente, {}} \cup {{[host |-> h, x |-> 50]} : h \in HostsDaPlanta}]
    BY DEF Floor!Init
  <1>3. ASSUME NEW p \in Plantas PROVE m1[p] = Floor!Ausente \/ Pinos(m1[p])
    <2>1. Pinos({})
      BY DEF Pinos, Floor!Marcados
    <2>2. ASSUME NEW h \in HostsDaPlanta PROVE Pinos({[host |-> h, x |-> 50]})
      <3>1. [host |-> h, x |-> 50] \in Floor!Pino
        BY DEF Floor!Pino
      <3>. QED  BY <3>1 DEF Pinos, Floor!Marcados
    <2>. QED  BY <1>2, <2>1, <2>2
  <1>4. m10 = [v \in Vagas |-> m10[v]] /\ \A v \in Vagas : PedidoDePlanta(m10[v])
    <2>1. PICK v \in Vagas : m10 = [w \in Vagas |-> IF w = v THEN Floor!LoadPlans(m2, Floor!Nenhuma) ELSE Floor!Livre]
      BY DEF Floor!Init
    <2>2. PedidoDePlanta(Floor!LoadPlans(m2, Floor!Nenhuma)) /\ PedidoDePlanta(Floor!Livre)
      BY DEF PedidoDePlanta, PlantaOuNada
    <2>. QED  BY <2>1, <2>2
  <1>5. Pinos(m5) /\ m11 \in 0..MaxAcoes
    BY <1>1 DEF Pinos, Floor!Marcados, Floor!ConstantesOk
  <1>. QED  BY <1>1, <1>2, <1>3, <1>4, <1>5 DEF PlantasInv, LeituraDaPlanta, PlantaOuNada

\* The parts of the invariant a step leaves alone are kept together: the plan on screen with
\* its reading, the requests, and the rest.
NaTela      == m4 \in PlantaOuNada /\ LeituraDaPlanta(m9, m4) /\ m6 \in {"view", "edit"}
PedidosBons == m10 = [v \in Vagas |-> m10[v]] /\ \A v \in Vagas : PedidoDePlanta(m10[v])
Edicao      == Pinos(m5) /\ m7 \in HostsDaPlanta \cup {Floor!Nenhuma} /\ m8 \in BOOLEAN
NoServidor  == /\ m1 = [p \in Plantas |-> m1[p]] /\ \A p \in Plantas : m1[p] = Floor!Ausente \/ Pinos(m1[p])
               /\ m2 \in UnidadesDoEditor \cup {Floor!Nenhuma} /\ m3 \subseteq Plantas

LEMMA PlantasPartes ==
  PlantasInv <=> NaTela /\ PedidosBons /\ Edicao /\ NoServidor /\ m11 \in 0..MaxAcoes
  BY DEF PlantasInv, NaTela, PedidosBons, Edicao, NoServidor

LEMMA PlantasSegue ==
  ASSUME Floor!ConstantesOk, PlantasInv, NaTela' \/ UNCHANGED <<m4, m6, m9>>, PedidosBons' \/ UNCHANGED m10,
         Edicao' \/ UNCHANGED <<m5, m7, m8>>, NoServidor' \/ UNCHANGED <<m1, m2, m3>>,
         UNCHANGED m11 \/ Floor!Age
  PROVE  PlantasInv'
  <1>1. NaTela /\ PedidosBons /\ Edicao /\ NoServidor /\ m11 \in 0..MaxAcoes
    BY PlantasPartes
  <1>2. NaTela'
    BY <1>1 DEF NaTela
  <1>3. PedidosBons'
    BY <1>1 DEF PedidosBons
  <1>4. Edicao'
    BY <1>1 DEF Edicao
  <1>5. NoServidor'
    BY <1>1 DEF NoServidor
  <1>6. m11' \in 0..MaxAcoes
    BY <1>1 DEF Floor!Age, Floor!ConstantesOk
  <1>. QED  BY <1>2, <1>3, <1>4, <1>5, <1>6 DEF PlantasInv, NaTela, PedidosBons, Edicao, NoServidor

\* One request is made, answered or given up.
LEMMA UmPedido ==
  ASSUME PedidosBons, NEW v \in Vagas, NEW p, PedidoDePlanta(p), Floor!Poe(v, p)
  PROVE  PedidosBons'
  <1>1. m10' = [w \in Vagas |-> IF w = v THEN p ELSE m10[w]]
    BY DEF Floor!Poe, PedidosBons
  <1>. QED  BY <1>1 DEF PedidosBons

\* Another plan on screen: the reading of the one that was left is cancelled.
LEMMA PlantaAberta ==
  ASSUME NaTela, NEW p \in PlantaOuNada, m6' \in {"view", "edit"},
         Floor!Abre(p) \/ (m4' = p /\ m9' = Floor!Le(p))
  PROVE  NaTela'
  BY DEF NaTela, LeituraDaPlanta, Floor!Abre, Floor!Le

LEMMA PlantasNavega ==
  ASSUME Floor!ConstantesOk, PlantasInv, Floor!EscolheAndar \/ Floor!SegueMarcador \/ Floor!TrocaModo \/ Floor!Repete
  PROVE  PlantasInv'
  <1>1. NaTela /\ PedidosBons /\ Edicao /\ NoServidor /\ m11 \in 0..MaxAcoes
    BY PlantasPartes
  <1>2. UNCHANGED <<m1, m2, m3, m5, m7, m10>> /\ (m11' = m11 \/ Floor!Age) /\ (m8' = m8 \/ m8' = FALSE)
    BY DEF Floor!EscolheAndar, Floor!SegueMarcador, Floor!TrocaModo, Floor!Repete
  <1>3. NaTela'
    <2>1. m3 \subseteq PlantaOuNada /\ m4 \in PlantaOuNada /\ m6 \in {"view", "edit"}
      BY <1>1 DEF NoServidor, NaTela, PlantaOuNada
    <2>2. \E p \in PlantaOuNada : Floor!Abre(p) \/ (m4' = p /\ m9' = Floor!Le(p))
      BY <2>1 DEF Floor!EscolheAndar, Floor!SegueMarcador, Floor!TrocaModo, Floor!Repete
    <2>3. m6' \in {"view", "edit"}
      BY <2>1 DEF Floor!EscolheAndar, Floor!SegueMarcador, Floor!TrocaModo, Floor!Repete
    <2>. QED  BY <1>1, <2>2, <2>3, PlantaAberta
  <1>4. Edicao'
    BY <1>1, <1>2 DEF Edicao
  <1>. QED  BY <1>1, <1>2, <1>3, <1>4, PlantasSegue

LEMMA PlantasLe ==
  ASSUME Floor!ConstantesOk, PlantasInv,
         Floor!LeMarcadores \/ Floor!LeituraFalha \/ Floor!RecebeMarcadores \/ Floor!EscolheHost
  PROVE  PlantasInv'
  <1>1. NaTela /\ PedidosBons /\ Edicao /\ NoServidor /\ m11 \in 0..MaxAcoes
    BY PlantasPartes
  <1>2. UNCHANGED <<m1, m2, m3, m4, m6, m8, m10>> /\ (m11' = m11 \/ Floor!Age)
    BY DEF Floor!LeMarcadores, Floor!LeituraFalha, Floor!RecebeMarcadores, Floor!EscolheHost
  <1>3. NaTela'
    <2>1. LeituraDaPlanta(m9', m4)
      <3>1. CASE Floor!LeMarcadores /\ Floor!Existe(m4)
        <4>1. Pinos(m1[m4])
          BY <1>1, <3>1 DEF Floor!Existe, NoServidor
        <4>. QED  BY <3>1, <4>1 DEF Floor!LeMarcadores, LeituraDaPlanta
      <3>2. CASE m9' = Floor!Livre
        BY <3>2 DEF LeituraDaPlanta
      <3>3. CASE m9' = m9
        BY <1>1, <3>3 DEF NaTela
      <3>. QED  BY <3>1, <3>2, <3>3 DEF Floor!LeMarcadores, Floor!LeituraFalha, Floor!RecebeMarcadores, Floor!EscolheHost
    <2>. QED  BY <1>1, <1>2, <2>1 DEF NaTela
  <1>4. Edicao'
    <2>1. Pinos(m5')
      <3>1. CASE Floor!RecebeMarcadores
        <4>1. m9.tipo = "voltando" /\ m5' = m9.pins
          BY <3>1 DEF Floor!RecebeMarcadores
        <4>. QED  BY <1>1, <4>1 DEF NaTela, LeituraDaPlanta, Floor!Livre
      <3>2. CASE m5' = m5
        BY <1>1, <3>2 DEF Edicao
      <3>. QED  BY <3>1, <3>2 DEF Floor!LeMarcadores, Floor!LeituraFalha, Floor!EscolheHost
    <2>2. m7' \in HostsDaPlanta \cup {Floor!Nenhuma}
      BY <1>1 DEF Floor!LeMarcadores, Floor!LeituraFalha, Floor!RecebeMarcadores, Floor!EscolheHost, Floor!Unplaced, Edicao
    <2>. QED  BY <1>1, <1>2, <2>1, <2>2 DEF Edicao
  <1>. QED  BY <1>1, <1>2, <1>3, <1>4, PlantasSegue

LEMMA PlantasEdita ==
  ASSUME Floor!ConstantesOk, PlantasInv, Floor!Posiciona \/ Floor!RemovePin
  PROVE  PlantasInv'
  <1>1. NaTela /\ PedidosBons /\ Edicao /\ NoServidor /\ m11 \in 0..MaxAcoes
    BY PlantasPartes
  <1>2. UNCHANGED <<m1, m2, m3, m4, m6, m9, m10>> /\ Floor!Age /\ m8' = TRUE
    BY DEF Floor!Posiciona, Floor!RemovePin
  <1>3. Pinos(m5') /\ m7' \in HostsDaPlanta \cup {Floor!Nenhuma}
    <2>1. CASE Floor!Posiciona
      BY <1>1, <2>1, PinoPosto DEF Floor!Posiciona, Edicao
    <2>2. CASE Floor!RemovePin
      BY <1>1, <2>2 DEF Floor!RemovePin, Edicao, Pinos, Floor!Marcados
    <2>. QED  BY <2>1, <2>2
  <1>4. Edicao'
    BY <1>2, <1>3 DEF Edicao
  <1>. QED  BY <1>1, <1>2, <1>4, PlantasSegue

\* What the view asks for, and the requests that are refused or fail.
LEMMA PlantasPede ==
  ASSUME Floor!ConstantesOk, PlantasInv, NEW v \in Vagas,
         \/ Floor!TrocaUnidade(v) \/ Floor!SavePins(v) \/ Floor!HandleDeletePlan(v) \/ Floor!HandleUpload(v)
         \/ Floor!Recusa(v) \/ Floor!Falha(v)
  PROVE  PlantasInv'
  <1>1. NaTela /\ PedidosBons /\ Edicao /\ NoServidor /\ m11 \in 0..MaxAcoes
    BY PlantasPartes
  <1>2. UNCHANGED <<m1, m3, m5, m7, m8>> /\ (m11' = m11 \/ Floor!Age)
    BY DEF Floor!TrocaUnidade, Floor!SavePins, Floor!HandleDeletePlan, Floor!HandleUpload, Floor!Recusa, Floor!Falha
  <1>3. PedidosBons'
    <2>1. CASE Floor!TrocaUnidade(v)
      <3>1. PICK u : Floor!Poe(v, Floor!LoadPlans(u, Floor!Nenhuma))
        BY <2>1 DEF Floor!TrocaUnidade
      <3>2. PedidoDePlanta(Floor!LoadPlans(u, Floor!Nenhuma))
        BY DEF PedidoDePlanta, PlantaOuNada
      <3>. QED  BY <1>1, <3>1, <3>2, UmPedido
    <2>2. CASE Floor!SavePins(v)
      <3>1. PedidoDePlanta([tipo |-> "grava", plan |-> m4, pins |-> m5])
        BY <1>1 DEF PedidoDePlanta, Edicao
      <3>. QED  BY <1>1, <2>2, <3>1, UmPedido DEF Floor!SavePins
    <2>3. CASE Floor!HandleDeletePlan(v)
      <3>1. PedidoDePlanta([tipo |-> "apaga", plan |-> m4])
        BY DEF PedidoDePlanta
      <3>. QED  BY <1>1, <2>3, <3>1, UmPedido DEF Floor!HandleDeletePlan
    <2>4. CASE Floor!HandleUpload(v)
      <3>1. PedidoDePlanta([tipo |-> "envia", unidade |-> m2])
        BY DEF PedidoDePlanta
      <3>. QED  BY <1>1, <2>4, <3>1, UmPedido DEF Floor!HandleUpload
    <2>5. CASE Floor!Recusa(v) \/ Floor!Falha(v)
      <3>1. PedidoDePlanta(Floor!Livre)
        BY DEF PedidoDePlanta
      <3>. QED  BY <1>1, <2>5, <3>1, UmPedido DEF Floor!Recusa, Floor!Falha
    <2>. QED  BY <2>1, <2>2, <2>3, <2>4, <2>5
  <1>4. NaTela'
    <2>1. CASE Floor!Falha(v) /\ m10[v].tipo = "planos" /\ m10[v].depois # Floor!Nenhuma
      <3>1. m10[v].depois \in PlantaOuNada
        BY <1>1, <2>1, PedidoPeloTipo DEF PedidosBons
      <3>2. Floor!AbreEnviada(m10[v].depois)
        BY <2>1 DEF Floor!Falha
      <3>. QED  BY <1>1, <3>1, <3>2, PlantaAberta DEF Floor!AbreEnviada
    <2>2. CASE UNCHANGED <<m4, m6, m9>>
      BY <1>1, <2>2 DEF NaTela
    <2>. QED  BY <2>1, <2>2 DEF Floor!TrocaUnidade, Floor!SavePins, Floor!HandleDeletePlan, Floor!HandleUpload, Floor!Recusa, Floor!Falha
  <1>5. NoServidor'
    <2>1. m2' \in UnidadesDoEditor \cup {Floor!Nenhuma}
      BY <1>1 DEF NoServidor, Floor!TrocaUnidade, Floor!SavePins, Floor!HandleDeletePlan, Floor!HandleUpload, Floor!Recusa, Floor!Falha
    <2>. QED  BY <1>1, <1>2, <2>1 DEF NoServidor
  <1>. QED  BY <1>1, <1>2, <1>3, <1>4, <1>5, PlantasSegue

\* The server writes pins, removes a plan or keeps an image.
LEMMA PlantasExecuta ==
  ASSUME Floor!ConstantesOk, PlantasInv, NEW v \in Vagas, Floor!Executa(v)
  PROVE  PlantasInv'
  <1>1. NaTela /\ PedidosBons /\ Edicao /\ NoServidor /\ m11 \in 0..MaxAcoes
    BY PlantasPartes
  <1>2. UNCHANGED <<m2, m3, m4, m5, m6, m7, m8, m9, m11>>
    BY DEF Floor!Executa
  <1>3. ASSUME NEW c \in Plantas, NEW ps, ps = Floor!Ausente \/ Pinos(ps), m1' = [m1 EXCEPT ![c] = ps]
        PROVE  NoServidor'
    <2>1. m1' = [p \in Plantas |-> IF p = c THEN ps ELSE m1[p]]
      BY <1>1, <1>3 DEF NoServidor
    <2>. QED  BY <1>1, <1>2, <1>3, <2>1 DEF NoServidor
  <1>. DEFINE p == m10[v]
  <1>4. PedidoDePlanta(p)
    BY <1>1 DEF PedidosBons
  <1>5. CASE p.tipo = "grava" /\ Floor!Existe(p.plan) /\ m1' = [m1 EXCEPT ![p.plan] = p.pins]
             /\ Floor!Poe(v, [p EXCEPT !.tipo = "gravado"])
    <2>1. Pinos(p.pins) /\ p = [tipo |-> "grava", plan |-> p.plan, pins |-> p.pins]
      BY <1>4, <1>5, PedidoPeloTipo
    <2>2. p.plan \in Plantas /\ m1' = [m1 EXCEPT ![p.plan] = p.pins]
      BY <1>5, <2>1 DEF Floor!Existe
    <2>3. [p EXCEPT !.tipo = "gravado"] = [tipo |-> "gravado", plan |-> p.plan, pins |-> p.pins]
      BY <2>1
    <2>4. PedidosBons'
      BY <1>1, <1>5, <2>1, <2>3, UmPedido DEF PedidoDePlanta
    <2>. QED  BY <1>1, <1>2, <1>3, <2>1, <2>2, <2>4, PlantasSegue
  <1>6. CASE p.tipo = "apaga" /\ Floor!Existe(p.plan) /\ m1' = [m1 EXCEPT ![p.plan] = Floor!Ausente]
             /\ Floor!Poe(v, [p EXCEPT !.tipo = "apagado"])
    <2>1. PICK c : p = [tipo |-> "apaga", plan |-> c]
      BY <1>4, <1>6, PedidoPeloTipo
    <2>2. c \in Plantas /\ m1' = [m1 EXCEPT ![c] = Floor!Ausente]
      BY <1>6, <2>1 DEF Floor!Existe
    <2>3. [p EXCEPT !.tipo = "apagado"] = [tipo |-> "apagado", plan |-> c]
      BY <2>1
    <2>4. PedidosBons'
      BY <1>1, <1>6, <2>1, <2>3, UmPedido DEF PedidoDePlanta
    <2>. QED  BY <1>1, <1>2, <1>3, <2>2, <2>4, PlantasSegue
  <1>7. CASE \E novo \in Plantas : /\ m1' = [m1 EXCEPT ![novo] = {}]
                                   /\ Floor!Poe(v, [tipo |-> "enviado", plan |-> novo, unidade |-> p.unidade])
    <2>1. PICK novo \in Plantas : /\ m1' = [m1 EXCEPT ![novo] = {}]
                                  /\ Floor!Poe(v, [tipo |-> "enviado", plan |-> novo, unidade |-> p.unidade])
      BY <1>7
    <2>2. Pinos({})
      BY DEF Pinos, Floor!Marcados
    <2>3. PedidoDePlanta([tipo |-> "enviado", plan |-> novo, unidade |-> p.unidade])
      BY DEF PedidoDePlanta
    <2>4. PedidosBons'
      BY <1>1, <2>1, <2>3, UmPedido
    <2>. QED  BY <1>1, <1>2, <1>3, <2>1, <2>2, <2>4, PlantasSegue
  <1>. QED  BY <1>5, <1>6, <1>7 DEF Floor!Executa

LEMMA PlantasRecebe ==
  ASSUME Floor!ConstantesOk, PlantasInv, NEW v \in Vagas, Floor!RecebePlanos(v)
  PROVE  PlantasInv'
  <1>1. NaTela /\ PedidosBons /\ Edicao /\ NoServidor /\ m11 \in 0..MaxAcoes
    BY PlantasPartes
  <1>2. UNCHANGED <<m1, m2, m5, m7, m8, m11>> /\ Floor!Poe(v, Floor!Livre) /\ m10[v].tipo = "planos"
    BY DEF Floor!RecebePlanos
  <1>3. PedidosBons'
    BY <1>1, <1>2, UmPedido DEF PedidoDePlanta
  <1>4. m3' \subseteq Plantas
    BY DEF Floor!RecebePlanos, Floor!PlantasDe
  <1>5. NaTela'
    <2>1. m10[v].depois \in PlantaOuNada
      BY <1>1, <1>2, PedidoPeloTipo DEF PedidosBons
    <2>2. CASE m10[v].depois = Floor!Nenhuma
      <3>1. m6' = m6 /\ \E p \in Floor!Mantida(m3') : Floor!Abre(p)
        BY <2>2 DEF Floor!RecebePlanos
      <3>2. Floor!Mantida(m3') \subseteq PlantaOuNada
        BY <1>1, <1>4 DEF Floor!Mantida, PlantaOuNada, NaTela
      <3>. QED  BY <1>1, <3>1, <3>2, PlantaAberta DEF NaTela
    <2>3. CASE m10[v].depois # Floor!Nenhuma
      <3>1. Floor!AbreEnviada(m10[v].depois)
        BY <2>3 DEF Floor!RecebePlanos
      <3>. QED  BY <1>1, <2>1, <3>1, PlantaAberta DEF Floor!AbreEnviada
    <2>. QED  BY <2>2, <2>3
  <1>6. NoServidor'
    BY <1>1, <1>2, <1>4 DEF NoServidor
  <1>. QED  BY <1>1, <1>2, <1>3, <1>5, <1>6, PlantasSegue

LEMMA PlantasConclui ==
  ASSUME Floor!ConstantesOk, PlantasInv, NEW v \in Vagas, Floor!Conclui(v)
  PROVE  PlantasInv'
  <1>1. NaTela /\ PedidosBons /\ Edicao /\ NoServidor /\ m11 \in 0..MaxAcoes
    BY PlantasPartes
  <1>2. UNCHANGED <<m1, m2, m3, m6, m7, m11>>
    BY DEF Floor!Conclui
  <1>. DEFINE p == m10[v]
  <1>3. PedidoDePlanta(p)
    BY <1>1 DEF PedidosBons
  <1>4. Pinos({}) /\ PedidoDePlanta(Floor!Livre)
    BY DEF Pinos, Floor!Marcados, PedidoDePlanta
  <1>5. CASE /\ p.tipo = "gravado" /\ m5' = p.pins /\ m8' = FALSE /\ Floor!Poe(v, Floor!Livre)
             /\ UNCHANGED <<m4, m9>>
    <2>1. Pinos(p.pins)
      BY <1>3, <1>5, PedidoPeloTipo
    <2>2. Edicao'
      BY <1>1, <1>2, <1>5, <2>1 DEF Edicao
    <2>3. PedidosBons'
      BY <1>1, <1>4, <1>5, UmPedido
    <2>. QED  BY <1>1, <1>2, <1>5, <2>2, <2>3, PlantasSegue
  <1>6. CASE Floor!Abre(Floor!Nenhuma) /\ m5' = {} /\ Floor!Poe(v, Floor!LoadPlans(m2, Floor!Nenhuma)) /\ UNCHANGED m8
    <2>1. PedidoDePlanta(Floor!LoadPlans(m2, Floor!Nenhuma)) /\ Floor!Nenhuma \in PlantaOuNada
      BY DEF PedidoDePlanta, PlantaOuNada
    <2>2. Edicao'
      BY <1>1, <1>2, <1>4, <1>6 DEF Edicao
    <2>3. PedidosBons'
      BY <1>1, <1>6, <2>1, UmPedido
    <2>4. NaTela'
      BY <1>1, <1>2, <1>6, <2>1, PlantaAberta DEF NaTela
    <2>. QED  BY <1>1, <1>2, <2>2, <2>3, <2>4, PlantasSegue
  <1>7. CASE /\ p.tipo = "enviado" /\ Floor!Poe(v, Floor!LoadPlans(p.unidade, p.plan))
             /\ UNCHANGED <<m4, m9, m5, m8>>
    <2>1. p.plan \in PlantaOuNada
      BY <1>3, <1>7, PedidoPeloTipo DEF PlantaOuNada
    <2>2. PedidoDePlanta(Floor!LoadPlans(p.unidade, p.plan))
      BY <2>1 DEF PedidoDePlanta
    <2>3. PedidosBons'
      BY <1>1, <1>7, <2>2, UmPedido
    <2>. QED  BY <1>1, <1>2, <1>7, <2>3, PlantasSegue
  <1>. QED  BY <1>5, <1>6, <1>7 DEF Floor!Conclui

LEMMA PlantasMantem ==
  ASSUME Floor!ConstantesOk, PlantasInv, [Floor!Next]_(Floor!vars)
  PROVE  PlantasInv'
  <1>1. CASE UNCHANGED Floor!vars
    BY <1>1, PlantasSegue DEF Floor!vars
  <1>. QED  BY <1>1, PlantasNavega, PlantasLe, PlantasEdita, PlantasPede, PlantasExecuta, PlantasRecebe,
               PlantasConclui DEF Floor!Next

-----------------------------------------------------------------------------
(* What happens to pins in edition.                                         *)

\* A plan to read, or none.
LEMMA LeituraDePinos ==
  ASSUME NEW p
  PROVE  /\ Floor!Le(p).tipo \in {"indo", "livre"}
         /\ Floor!Livre.tipo = "livre"
  BY DEF Floor!Le, Floor!Livre

\* What is under the user's hand: steps of the plans, of the mode and of the reading.
LEMMA PlantasQuietas ==
  ASSUME \/ Floor!EscolheAndar \/ Floor!SegueMarcador \/ Floor!TrocaModo \/ Floor!Repete
         \/ Floor!LeMarcadores \/ Floor!LeituraFalha \/ Floor!RecebeMarcadores \/ Floor!EscolheHost
         \/ Floor!Posiciona \/ Floor!RemovePin
  PROVE  Floor!MarcadoresQuietos
  <1>. SUFFICES ASSUME m6 = "edit", m9 = Floor!Livre
                PROVE  /\ m5' = m5 \/ m8'
                       /\ m9' = Floor!Livre \/ m6' # m6 \/ m4' # m4
    BY DEF Floor!MarcadoresQuietos
  <1>1. m9.tipo = "livre"
    BY LeituraDePinos
  <1>2. CASE Floor!EscolheAndar \/ Floor!SegueMarcador \/ Floor!TrocaModo \/ Floor!Repete
    BY <1>2 DEF Floor!EscolheAndar, Floor!SegueMarcador, Floor!TrocaModo, Floor!Repete
  <1>3. CASE Floor!LeMarcadores \/ Floor!LeituraFalha \/ Floor!RecebeMarcadores
    BY <1>1, <1>3 DEF Floor!LeMarcadores, Floor!LeituraFalha, Floor!RecebeMarcadores
  <1>4. CASE Floor!EscolheHost \/ Floor!Posiciona \/ Floor!RemovePin
    BY <1>4 DEF Floor!EscolheHost, Floor!Posiciona, Floor!RemovePin
  <1>. QED  BY <1>2, <1>3, <1>4

\* ... and of the requests: an answer that opens a plan is the only one that reads its pins.
LEMMA PedidosQuietos ==
  ASSUME NEW v \in Vagas,
         \/ Floor!TrocaUnidade(v) \/ Floor!RecebePlanos(v) \/ Floor!SavePins(v)
         \/ Floor!HandleDeletePlan(v) \/ Floor!HandleUpload(v) \/ Floor!Executa(v) \/ Floor!Recusa(v)
         \/ Floor!Falha(v) \/ Floor!Conclui(v)
  PROVE  Floor!MarcadoresQuietos
  <1>. SUFFICES ASSUME m6 = "edit", m9 = Floor!Livre
                PROVE  /\ m5' = m5 \/ m10[v].tipo \in {"gravado", "apagado"}
                       /\ \/ m9' = Floor!Livre \/ m6' # m6 \/ m4' # m4
                          \/ m10[v].tipo = "planos" /\ m10[v].depois = m4
    BY DEF Floor!MarcadoresQuietos
  <1>1. CASE \/ Floor!TrocaUnidade(v) \/ Floor!SavePins(v) \/ Floor!HandleDeletePlan(v)
             \/ Floor!HandleUpload(v) \/ Floor!Executa(v) \/ Floor!Recusa(v)
    BY <1>1 DEF Floor!TrocaUnidade, Floor!SavePins, Floor!HandleDeletePlan, Floor!HandleUpload,
                Floor!Executa, Floor!Recusa
  <1>2. CASE Floor!RecebePlanos(v)
    BY <1>2 DEF Floor!RecebePlanos, Floor!Abre, Floor!AbreEnviada
  <1>3. CASE Floor!Falha(v)
    BY <1>3 DEF Floor!Falha, Floor!AbreEnviada
  <1>4. CASE Floor!Conclui(v)
    BY <1>4 DEF Floor!Conclui, Floor!Abre
  <1>. QED  BY <1>1, <1>2, <1>3, <1>4

-----------------------------------------------------------------------------
\* Pins in edition change by the hand of the user, by the answer of a write or with the
\* plan, and nothing begins to read over them (FloorPlanView.tsx).
THEOREM EdicaoSempreFica ==
  Spec => EdicaoFica
  <1>1. [Next]_memoria => [tela = "plantas" => Floor!MarcadoresQuietos]_memoria
    <2>. SUFFICES ASSUME Next, tela = "plantas" PROVE Floor!MarcadoresQuietos
      OBVIOUS
    <2>1. Floor!Next
      BY DEF Next, TelaDeLeituras, TelaDeEdicoes, TelaDeFluxo, TelaDeRascunho, TelaDePlantas,
             TelaDeBancos, TelaDeContainers, TelaDeRede, TelaDeAuditoria, TelaDeHistorico,
             TelaDeEsquema, TelaDeMalha
    <2>. QED  BY <2>1, PlantasQuietas, PedidosQuietos DEF Floor!Next
  <1>. QED  BY <1>1, PTL DEF Spec, EdicaoFica
==============================================================================
