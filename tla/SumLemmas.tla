----------------------------- MODULE SumLemmas -----------------------------
(***************************************************************************)
(* What SumFunctionOnSet of module Functions returns, for every function   *)
(* into the integers and every finite set: the facts about sums that the   *)
(* proofs about balances rest on.  The library's induction theorems cannot *)
(* be instantiated, as they take an operator; MinimalSet is their form for *)
(* a set of counterexamples, and takes their place.                        *)
(***************************************************************************)
EXTENDS Functions, FiniteSetTheorems, TLAPS

(* A non-empty family of subsets of a finite set has a smallest member.    *)
LEMMA MinimalSet ==
    ASSUME NEW S, IsFiniteSet(S), NEW F \in SUBSET (SUBSET S), F # {}
    PROVE  \E M \in F : \A T \in F : T \subseteq M => T = M
<1>1. IsWellFoundedOn(StrictSubsetOrdering(S), SUBSET S)
  BY FS_StrictSubsetOrderingWellFounded, FS_FiniteSubsetsOfFinite
<1>2. \E M \in F : \A T \in F : <<T, M>> \notin StrictSubsetOrdering(S)
  BY <1>1, WFMin
<1> QED
  BY <1>2 DEF StrictSubsetOrdering

(* Induction on finite sets, for a family instead of a predicate.          *)
LEMMA SetInduction ==
    ASSUME NEW S, IsFiniteSet(S), NEW F, {} \in F,
           \A T \in SUBSET S : \A x \in T : T \ {x} \in F => T \in F
    PROVE  S \in F
<1> DEFINE G == {T \in SUBSET S : T \notin F}
<1>1. SUFFICES ASSUME G # {} PROVE FALSE
  OBVIOUS
<1>2. PICK M \in G : \A T \in G : T \subseteq M => T = M
  <2>1. G \in SUBSET (SUBSET S)
    OBVIOUS
  <2> HIDE DEF G
  <2> QED
    BY <1>1, <2>1, MinimalSet
<1>3. PICK x \in M : TRUE
  OBVIOUS
<1>4. M \ {x} \in F
  BY <1>2, <1>3
<1> QED
  BY <1>3, <1>4
-----------------------------------------------------------------------------
(* The recursion by which the library defines the sum, as a function of    *)
(* the subsets of S.                                                       *)
Picked(s) == CHOOSE x \in s : TRUE

Accumulates(g, f, S) ==
    g = [s \in SUBSET S |-> IF s = {} THEN 0
                            ELSE f[Picked(s)] + g[s \ {Picked(s)}]]

LEMMA AccumulatesUnfold ==
    ASSUME NEW g, NEW f, NEW S, Accumulates(g, f, S), NEW s \in SUBSET S
    PROVE  g[s] = IF s = {} THEN 0 ELSE f[Picked(s)] + g[s \ {Picked(s)}]
  BY DEF Accumulates

(* Two such functions agree where both are defined.                        *)
LEMMA AccumulatesAgree ==
    ASSUME NEW f, NEW S, NEW T \in SUBSET S, IsFiniteSet(T),
           NEW g, NEW h, Accumulates(g, f, S), Accumulates(h, f, T)
    PROVE  \A s \in SUBSET T : g[s] = h[s]
<1> DEFINE F == {s \in SUBSET T : g[s] # h[s]}
<1>1. SUFFICES ASSUME F # {} PROVE FALSE
  OBVIOUS
<1>2. PICK M \in F : \A s \in F : s \subseteq M => s = M
  <2>1. F \in SUBSET (SUBSET T)
    OBVIOUS
  <2> HIDE DEF F
  <2> QED
    BY <1>1, <2>1, MinimalSet
<1>3. M \in SUBSET T /\ M \in SUBSET S /\ g[M] # h[M]
  OBVIOUS
<1>4. \A s \in SUBSET M : s # M => g[s] = h[s]
  BY <1>2
<1> HIDE DEF F
<1>5. \A s \in SUBSET S : g[s] = IF s = {} THEN 0
                                ELSE f[Picked(s)] + g[s \ {Picked(s)}]
  BY AccumulatesUnfold
<1>6. \A s \in SUBSET T : h[s] = IF s = {} THEN 0
                                ELSE f[Picked(s)] + h[s \ {Picked(s)}]
  BY AccumulatesUnfold
<1>7. M # {}
  BY <1>3, <1>5, <1>6
<1>8. Picked(M) \in M
  BY <1>7 DEF Picked
<1>9. g[M \ {Picked(M)}] = h[M \ {Picked(M)}]
  BY <1>4, <1>8
<1> QED
  BY <1>3, <1>5, <1>6, <1>7, <1>9

(* The recursion has a solution on every finite set.                       *)
LEMMA AccumulatesExists ==
    ASSUME NEW f, NEW S, IsFiniteSet(S)
    PROVE  \E g : Accumulates(g, f, S)
<1> DEFINE F == {s \in SUBSET S : ~ \E g : Accumulates(g, f, s)}
<1>1. SUFFICES ASSUME F # {} PROVE FALSE
  OBVIOUS
<1>2. PICK M \in F : \A s \in F : s \subseteq M => s = M
  <2>1. F \in SUBSET (SUBSET S)
    OBVIOUS
  <2> HIDE DEF F
  <2> QED
    BY <1>1, <2>1, MinimalSet
<1> DEFINE G(s) == CHOOSE g : Accumulates(g, f, s)
<1>3. \A s \in SUBSET M : s # M => Accumulates(G(s), f, s)
  BY <1>2
<1> DEFINE h == [s \in SUBSET M |->
                    IF s = {} THEN 0
                    ELSE f[Picked(s)] + G(s \ {Picked(s)})[s \ {Picked(s)}]]
<1>4. \A s \in SUBSET M : s # M => h[s] = G(s)[s]
  <2> SUFFICES ASSUME NEW s \in SUBSET M, s # M PROVE h[s] = G(s)[s]
    OBVIOUS
  <2>1. Accumulates(G(s), f, s)
    BY <1>3
  <2>2. CASE s = {}
    BY <2>1, <2>2, AccumulatesUnfold
  <2>3. CASE s # {}
    <3>1. Picked(s) \in s
      BY <2>3 DEF Picked
    <3> DEFINE t == s \ {Picked(s)}
    <3>2. Accumulates(G(t), f, t) /\ t \in SUBSET s /\ IsFiniteSet(t)
      BY <1>3, <3>1, FS_Subset
    <3>3. G(s)[t] = G(t)[t]
      <4> HIDE DEF G, t
      <4> QED
        BY <2>1, <3>2, AccumulatesAgree
    <3>4. G(s)[s] = f[Picked(s)] + G(s)[t]
      BY <2>1, <2>3, AccumulatesUnfold
    <3> QED
      BY <2>3, <3>3, <3>4
  <2> QED
    BY <2>2, <2>3
<1>5. Accumulates(h, f, M)
  <2>1. \A s \in SUBSET M : s # {} =>
            h[s] = f[Picked(s)] + h[s \ {Picked(s)}]
    <3> SUFFICES ASSUME NEW s \in SUBSET M, s # {}
                 PROVE  h[s] = f[Picked(s)] + h[s \ {Picked(s)}]
      OBVIOUS
    <3>1. Picked(s) \in s
      BY DEF Picked
    <3>2. s \ {Picked(s)} \in SUBSET M /\ s \ {Picked(s)} # M
      BY <3>1
    <3>3. h[s \ {Picked(s)}] = G(s \ {Picked(s)})[s \ {Picked(s)}]
      BY <1>4, <3>2
    <3> QED
      BY <3>3
  <2> HIDE DEF h
  <2>2. h = [s \in SUBSET M |-> h[s]]
    BY DEF h
  <2>3. \A s \in SUBSET M : s = {} => h[s] = 0
    BY DEF h
  <2> QED
    BY <2>1, <2>2, <2>3 DEF Accumulates
<1> QED
  BY <1>2, <1>5

LEMMA SumAccumulates ==
    ASSUME NEW f, NEW S
    PROVE  SumFunctionOnSet(f, S) = (CHOOSE g : Accumulates(g, f, S))[S]
  BY DEF SumFunctionOnSet, FoldFunctionOnSet, MapThenFoldSet, Accumulates,
         Picked
-----------------------------------------------------------------------------
LEMMA SumEmpty == ASSUME NEW f PROVE SumFunctionOnSet(f, {}) = 0
<1>1. PICK g : Accumulates(g, f, {})
  BY AccumulatesExists, FS_EmptySet
<1>2. Accumulates(CHOOSE h : Accumulates(h, f, {}), f, {})
  BY <1>1
<1> QED
  BY <1>2, SumAccumulates, AccumulatesUnfold

(* The sum over a finite set takes out the picked element and goes on.     *)
LEMMA SumStep ==
    ASSUME NEW f, NEW S, IsFiniteSet(S), S # {}
    PROVE  /\ Picked(S) \in S
           /\ SumFunctionOnSet(f, S) =
                  f[Picked(S)] + SumFunctionOnSet(f, S \ {Picked(S)})
<1> DEFINE T == S \ {Picked(S)}
<1>1. Picked(S) \in S
  BY DEF Picked
<1>2. IsFiniteSet(T)
  BY FS_RemoveElement
<1> DEFINE g == CHOOSE h : Accumulates(h, f, S)
           k == CHOOSE h : Accumulates(h, f, T)
<1>3. Accumulates(g, f, S) /\ Accumulates(k, f, T)
  BY <1>2, AccumulatesExists
<1>4. g[T] = k[T]
  BY <1>2, <1>3, AccumulatesAgree
<1>5. g[S] = f[Picked(S)] + g[T]
  BY <1>3, AccumulatesUnfold
<1> QED
  BY <1>1, <1>4, <1>5, SumAccumulates

(* A sum of integers is an integer.                                        *)
LEMMA SumInt ==
    ASSUME NEW f, NEW S, IsFiniteSet(S), \A x \in S : f[x] \in Int
    PROVE  SumFunctionOnSet(f, S) \in Int
<1> DEFINE F == {T \in SUBSET S : SumFunctionOnSet(f, T) \notin Int}
<1>1. SUFFICES ASSUME F # {} PROVE FALSE
  OBVIOUS
<1>2. PICK M \in F : \A T \in F : T \subseteq M => T = M
  <2>1. F \in SUBSET (SUBSET S)
    OBVIOUS
  <2> HIDE DEF F
  <2> QED
    BY <1>1, <2>1, MinimalSet
<1>3. M # {} /\ IsFiniteSet(M)
  <2>1. SumFunctionOnSet(f, {}) = 0
    BY SumEmpty
  <2>2. M # {}
    BY <2>1
  <2>3. IsFiniteSet(M)
    BY FS_Subset
  <2> QED
    BY <2>2, <2>3
<1>4. /\ Picked(M) \in M
      /\ SumFunctionOnSet(f, M) =
             f[Picked(M)] + SumFunctionOnSet(f, M \ {Picked(M)})
  BY <1>3, SumStep
<1>5. SumFunctionOnSet(f, M \ {Picked(M)}) \in Int
  BY <1>2, <1>4
<1> QED
  BY <1>4, <1>5

(* Sums of functions that agree on the set are the same.                   *)
LEMMA SumSame ==
    ASSUME NEW f, NEW g, NEW S, IsFiniteSet(S), \A x \in S : f[x] = g[x]
    PROVE  SumFunctionOnSet(f, S) = SumFunctionOnSet(g, S)
<1> DEFINE F == {T \in SUBSET S :
                    SumFunctionOnSet(f, T) # SumFunctionOnSet(g, T)}
<1>1. SUFFICES ASSUME F # {} PROVE FALSE
  OBVIOUS
<1>2. PICK M \in F : \A T \in F : T \subseteq M => T = M
  <2>1. F \in SUBSET (SUBSET S)
    OBVIOUS
  <2> HIDE DEF F
  <2> QED
    BY <1>1, <2>1, MinimalSet
<1>3. M # {} /\ IsFiniteSet(M)
  BY SumEmpty, FS_Subset
<1>4. /\ Picked(M) \in M
      /\ SumFunctionOnSet(f, M) =
             f[Picked(M)] + SumFunctionOnSet(f, M \ {Picked(M)})
      /\ SumFunctionOnSet(g, M) =
             g[Picked(M)] + SumFunctionOnSet(g, M \ {Picked(M)})
  BY <1>3, SumStep
<1>5. SumFunctionOnSet(f, M \ {Picked(M)})
          = SumFunctionOnSet(g, M \ {Picked(M)})
  BY <1>2, <1>4
<1> QED
  BY <1>4, <1>5

(* Any element may be taken out, not only the one that is picked.          *)
LEMMA SumRemove ==
    ASSUME NEW f, NEW S, IsFiniteSet(S), \A y \in S : f[y] \in Int,
           NEW x \in S
    PROVE  SumFunctionOnSet(f, S) = f[x] + SumFunctionOnSet(f, S \ {x})
<1> DEFINE Works(T) == \A y \in T : SumFunctionOnSet(f, T) =
                                       f[y] + SumFunctionOnSet(f, T \ {y})
           F == {T \in SUBSET S : ~Works(T)}
<1>1. SUFFICES ASSUME F # {} PROVE FALSE
  OBVIOUS
<1>2. PICK M \in F : \A T \in F : T \subseteq M => T = M
  <2>1. F \in SUBSET (SUBSET S)
    OBVIOUS
  <2> HIDE DEF F
  <2> QED
    BY <1>1, <2>1, MinimalSet
<1>3. PICK y \in M : SumFunctionOnSet(f, M) #
                         f[y] + SumFunctionOnSet(f, M \ {y})
  OBVIOUS
<1>4. \A T \in SUBSET M : IsFiniteSet(T) /\ SumFunctionOnSet(f, T) \in Int
  BY FS_Subset, SumInt
<1>5. PICK p \in M : SumFunctionOnSet(f, M) =
                         f[p] + SumFunctionOnSet(f, M \ {p})
  BY <1>4, SumStep
<1>6. p # y
  BY <1>3, <1>5
<1>7. SumFunctionOnSet(f, M \ {p}) =
          f[y] + SumFunctionOnSet(f, (M \ {p}) \ {y})
  BY <1>2, <1>5, <1>6
<1>8. SumFunctionOnSet(f, M \ {y}) =
          f[p] + SumFunctionOnSet(f, (M \ {y}) \ {p})
  BY <1>2, <1>5, <1>6
<1>9. (M \ {p}) \ {y} = (M \ {y}) \ {p}
  OBVIOUS
<1> DEFINE rest == SumFunctionOnSet(f, (M \ {p}) \ {y})
<1>10. rest \in Int /\ f[p] \in Int /\ f[y] \in Int
  BY <1>4, <1>5
<1>11. SumFunctionOnSet(f, M \ {y}) = f[p] + rest
  BY <1>8, <1>9
<1>12. SumFunctionOnSet(f, M) = f[p] + (f[y] + rest)
  BY <1>5, <1>7
<1> HIDE DEF rest
<1> QED
  BY <1>3, <1>10, <1>11, <1>12

(* A new element is added to the sum.                                      *)
LEMMA SumAdd ==
    ASSUME NEW f, NEW S, IsFiniteSet(S), \A y \in S : f[y] \in Int,
           NEW x, x \notin S, f[x] \in Int
    PROVE  SumFunctionOnSet(f, S \cup {x}) = f[x] + SumFunctionOnSet(f, S)
<1>1. IsFiniteSet(S \cup {x}) /\ (S \cup {x}) \ {x} = S
  BY FS_AddElement
<1>2. \A y \in S \cup {x} : f[y] \in Int
  OBVIOUS
<1> QED
  BY <1>1, <1>2, SumRemove

(* A function that differs at one element differs as much in its sum.      *)
LEMMA SumChange ==
    ASSUME NEW f, NEW g, NEW S, IsFiniteSet(S), NEW x \in S,
           \A y \in S : f[y] \in Int, g[x] \in Int,
           \A y \in S \ {x} : g[y] = f[y]
    PROVE  SumFunctionOnSet(g, S) = SumFunctionOnSet(f, S) - f[x] + g[x]
<1> DEFINE rest == SumFunctionOnSet(f, S \ {x})
<1>1. IsFiniteSet(S \ {x})
  BY FS_RemoveElement
<1>2. rest \in Int
  BY <1>1, SumInt
<1>3. SumFunctionOnSet(f, S) = f[x] + rest
  BY SumRemove
<1>4. SumFunctionOnSet(g, S) = g[x] + SumFunctionOnSet(g, S \ {x})
  <2>1. \A y \in S : g[y] \in Int
    OBVIOUS
  <2> QED
    BY <2>1, SumRemove
<1>5. SumFunctionOnSet(g, S \ {x}) = rest
  BY <1>1, SumSame
<1> HIDE DEF rest
<1> QED
  BY <1>2, <1>3, <1>4, <1>5

(* A sum of naturals is a natural, and covers each of them.                *)
LEMMA SumNat ==
    ASSUME NEW f, NEW S, IsFiniteSet(S), \A x \in S : f[x] \in Nat
    PROVE  /\ SumFunctionOnSet(f, S) \in Nat
           /\ \A x \in S : f[x] <= SumFunctionOnSet(f, S)
<1> DEFINE F == {T \in SUBSET S : SumFunctionOnSet(f, T) \in Nat}
<1>1. \A T \in SUBSET S : T \in F
  <2> SUFFICES ASSUME NEW T \in SUBSET S PROVE T \in F
    OBVIOUS
  <2>1. IsFiniteSet(T)
    BY FS_Subset
  <2>2. {} \in F
    BY SumEmpty
  <2>3. \A U \in SUBSET T : \A x \in U : U \ {x} \in F => U \in F
    <3> SUFFICES ASSUME NEW U \in SUBSET T, NEW x \in U, U \ {x} \in F
                 PROVE  SumFunctionOnSet(f, U) \in Nat
      OBVIOUS
    <3>1. IsFiniteSet(U)
      BY <2>1, FS_Subset
    <3>2. SumFunctionOnSet(f, U) = f[x] + SumFunctionOnSet(f, U \ {x})
      BY <3>1, SumRemove
    <3> QED
      BY <3>2
  <2> HIDE DEF F
  <2> QED
    BY <2>1, <2>2, <2>3, SetInduction
<1>2. ASSUME NEW x \in S
      PROVE  f[x] <= SumFunctionOnSet(f, S)
  <2>1. SumFunctionOnSet(f, S) = f[x] + SumFunctionOnSet(f, S \ {x})
    BY SumRemove
  <2>2. S \ {x} \in F
    BY <1>1
  <2> QED
    BY <2>1, <2>2
<1> QED
  BY <1>1, <1>2

(* The sum of sums.                                                        *)
LEMMA SumPlus ==
    ASSUME NEW f, NEW g, NEW h, NEW S, IsFiniteSet(S),
           \A x \in S : f[x] \in Int /\ g[x] \in Int /\ h[x] = f[x] + g[x]
    PROVE  SumFunctionOnSet(h, S) =
               SumFunctionOnSet(f, S) + SumFunctionOnSet(g, S)
<1> DEFINE F == {T \in SUBSET S :
                    SumFunctionOnSet(h, T) =
                        SumFunctionOnSet(f, T) + SumFunctionOnSet(g, T)}
<1>1. {} \in F
  BY SumEmpty
<1>2. \A U \in SUBSET S : \A x \in U : U \ {x} \in F => U \in F
  <2> SUFFICES ASSUME NEW U \in SUBSET S, NEW x \in U, U \ {x} \in F
               PROVE  U \in F
    OBVIOUS
  <2>1. IsFiniteSet(U) /\ IsFiniteSet(U \ {x})
    BY FS_Subset
  <2> DEFINE a == SumFunctionOnSet(f, U \ {x})
             b == SumFunctionOnSet(g, U \ {x})
  <2>2. /\ SumFunctionOnSet(f, U) = f[x] + a
        /\ SumFunctionOnSet(g, U) = g[x] + b
    BY <2>1, SumRemove
  <2>3. SumFunctionOnSet(h, U) = h[x] + SumFunctionOnSet(h, U \ {x})
    <3>1. \A y \in U : h[y] \in Int
      OBVIOUS
    <3> QED
      BY <2>1, <3>1, SumRemove
  <2>4. SumFunctionOnSet(h, U \ {x}) = a + b
    OBVIOUS
  <2>5. a \in Int /\ b \in Int
    BY <2>1, SumInt
  <2> HIDE DEF a, b
  <2>6. SumFunctionOnSet(h, U) = (f[x] + a) + (g[x] + b)
    BY <2>3, <2>4, <2>5
  <2> QED
    BY <2>2, <2>6
<1> HIDE DEF F
<1>3. S \in F
  BY <1>1, <1>2, SetInduction
<1> QED
  BY <1>3 DEF F

(* A sum of zeros.                                                         *)
LEMMA SumZero ==
    ASSUME NEW f, NEW S, IsFiniteSet(S), \A x \in S : f[x] = 0
    PROVE  SumFunctionOnSet(f, S) = 0
<1> DEFINE F == {T \in SUBSET S : SumFunctionOnSet(f, T) = 0}
<1>1. {} \in F
  BY SumEmpty
<1>2. \A U \in SUBSET S : \A x \in U : U \ {x} \in F => U \in F
  <2> SUFFICES ASSUME NEW U \in SUBSET S, NEW x \in U, U \ {x} \in F
               PROVE  U \in F
    OBVIOUS
  <2>1. IsFiniteSet(U) /\ \A y \in U : f[y] \in Int
    BY FS_Subset
  <2>2. SumFunctionOnSet(f, U) = f[x] + SumFunctionOnSet(f, U \ {x})
    BY <2>1, SumRemove
  <2> QED
    BY <2>2
<1> HIDE DEF F
<1>3. S \in F
  BY <1>1, <1>2, SetInduction
<1> QED
  BY <1>3 DEF F

(* The sum over two sets that have nothing in common.                      *)
LEMMA SumUnion ==
    ASSUME NEW f, NEW S, NEW T, IsFiniteSet(S), IsFiniteSet(T),
           S \cap T = {}, \A x \in S \cup T : f[x] \in Int
    PROVE  SumFunctionOnSet(f, S \cup T) =
               SumFunctionOnSet(f, S) + SumFunctionOnSet(f, T)
<1> DEFINE F == {U \in SUBSET T :
                    SumFunctionOnSet(f, S \cup U) =
                        SumFunctionOnSet(f, S) + SumFunctionOnSet(f, U)}
<1>1. {} \in F
  <2>1. S \cup {} = S /\ SumFunctionOnSet(f, S) \in Int
    BY SumInt
  <2> QED
    BY <2>1, SumEmpty
<1>2. \A U \in SUBSET T : \A x \in U : U \ {x} \in F => U \in F
  <2> SUFFICES ASSUME NEW U \in SUBSET T, NEW x \in U, U \ {x} \in F
               PROVE  U \in F
    OBVIOUS
  <2>1. IsFiniteSet(U) /\ IsFiniteSet(U \ {x}) /\ IsFiniteSet(S \cup U)
    BY FS_Subset, FS_Union
  <2>2. SumFunctionOnSet(f, U) = f[x] + SumFunctionOnSet(f, U \ {x})
    BY <2>1, SumRemove
  <2>3. SumFunctionOnSet(f, S \cup U) = f[x] + SumFunctionOnSet(f, S \cup (U \ {x}))
    <3>1. (S \cup U) \ {x} = S \cup (U \ {x}) /\ x \in S \cup U
      OBVIOUS
    <3> QED
      BY <2>1, <3>1, SumRemove
  <2>4. SumFunctionOnSet(f, S \cup (U \ {x})) =
            SumFunctionOnSet(f, S) + SumFunctionOnSet(f, U \ {x})
    OBVIOUS
  <2>5. SumFunctionOnSet(f, S) \in Int /\ SumFunctionOnSet(f, U \ {x}) \in Int
        /\ f[x] \in Int
    BY <2>1, SumInt
  <2> QED
    BY <2>2, <2>3, <2>4, <2>5
<1> HIDE DEF F
<1>3. T \in F
  BY <1>1, <1>2, SetInduction
<1> QED
  BY <1>3 DEF F

(* The function may differ elsewhere when an element comes in or goes.     *)
LEMMA SumWith ==
    ASSUME NEW f, NEW g, NEW S, IsFiniteSet(S),
           \A y \in S : f[y] \in Int /\ g[y] = f[y],
           NEW x, x \notin S, g[x] \in Int
    PROVE  /\ SumFunctionOnSet(f, S) \in Int
           /\ SumFunctionOnSet(g, S \cup {x}) = SumFunctionOnSet(f, S) + g[x]
<1>1. SumFunctionOnSet(f, S) \in Int /\ SumFunctionOnSet(g, S) = SumFunctionOnSet(f, S)
  BY SumInt, SumSame
<1>2. SumFunctionOnSet(g, S \cup {x}) = g[x] + SumFunctionOnSet(g, S)
  <2>1. \A y \in S : g[y] \in Int
    OBVIOUS
  <2> QED
    BY <2>1, SumAdd
<1> QED
  BY <1>1, <1>2

LEMMA SumWithout ==
    ASSUME NEW f, NEW g, NEW S, IsFiniteSet(S), NEW x \in S,
           \A y \in S : f[y] \in Int, \A y \in S \ {x} : g[y] = f[y]
    PROVE  /\ SumFunctionOnSet(f, S) \in Int
           /\ SumFunctionOnSet(g, S \ {x}) = SumFunctionOnSet(f, S) - f[x]
<1>1. IsFiniteSet(S \ {x})
  BY FS_RemoveElement
<1>2. /\ SumFunctionOnSet(f, S) \in Int /\ SumFunctionOnSet(f, S \ {x}) \in Int
      /\ SumFunctionOnSet(f, S) = f[x] + SumFunctionOnSet(f, S \ {x})
  BY <1>1, SumInt, SumRemove
<1>3. SumFunctionOnSet(g, S \ {x}) = SumFunctionOnSet(f, S \ {x})
  BY <1>1, SumSame
<1> QED
  BY <1>2, <1>3
=============================================================================
