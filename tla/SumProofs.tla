------------------------------- MODULE SumProofs -------------------------------
(***************************************************************************)
(* Lemmas about finite sums. The models add up amounts and quantities with *)
(* SumFunction and MapThenSumSet of the community modules, which recurse   *)
(* over the subsets of a set. The library's induction theorems take the    *)
(* property as an operator, which the provers cannot instantiate; the      *)
(* lemmas argue instead from a smallest set that would break them.         *)
(***************************************************************************)
EXTENDS Functions, FiniteSetsExt, FiniteSetTheorems, WellFoundedInduction, TLAPS

-----------------------------------------------------------------------------

\* Among the finite sets of a collection one is minimal.
LEMMA MinimalSet ==
    ASSUME NEW S, IsFiniteSet(S), NEW C, C \subseteq SUBSET S, C # {}
    PROVE  \E T \in C : \A U \in C : U \subseteq T => U = T
<1>1. IsWellFoundedOn(StrictSubsetOrdering(S), SUBSET S)
  BY FS_StrictSubsetOrderingWellFounded, FS_FiniteSubsetsOfFinite
<1>2. \E T \in C : \A U \in C : <<U, T>> \notin StrictSubsetOrdering(S)
  BY <1>1, WFMin
<1>3. PICK T \in C : \A U \in C : <<U, T>> \notin StrictSubsetOrdering(S)
  BY <1>2
<1>4. \A U \in C : U \subseteq T => U = T
  BY <1>3 DEF StrictSubsetOrdering
<1> QED
  BY <1>4

-----------------------------------------------------------------------------
(* The recursion behind a sum *)

Pick(s) == CHOOSE x \in s : TRUE

\* g sums f over each subset of S, one picked element after the other.
Sums(g, f, S) ==
    g = [s \in SUBSET S |-> IF s = {} THEN 0 ELSE f[Pick(s)] + g[s \ {Pick(s)}]]

\* Two functions that obey the recursion agree where both are defined.
LEMMA SumsAgree ==
    ASSUME NEW f, NEW S, NEW T, NEW g, NEW h, IsFiniteSet(S),
           T \subseteq S, Sums(g, f, S), Sums(h, f, T)
    PROVE  \A s \in SUBSET T : g[s] = h[s]
<1> DEFINE C == {s \in SUBSET T : g[s] # h[s]}
<1> SUFFICES ASSUME C # {}
             PROVE  FALSE
  OBVIOUS
<1>1. PICK s \in C : \A u \in C : u \subseteq s => u = s
  <2> C \subseteq SUBSET S
    OBVIOUS
  <2> HIDE DEF C
  <2> QED
    BY MinimalSet
<1>2. s \in SUBSET T /\ s \in SUBSET S /\ g[s] # h[s]
  OBVIOUS
<1>3. s # {}
  BY <1>2 DEF Sums
<1>4. Pick(s) \in s
  BY <1>3 DEF Pick
<1>5. g[s \ {Pick(s)}] = h[s \ {Pick(s)}]
  <2>1. s \ {Pick(s)} \notin C
    BY <1>1, <1>4
  <2> QED
    BY <2>1, <1>2
<1>6. g[s] = f[Pick(s)] + g[s \ {Pick(s)}]
  BY <1>2, <1>3 DEF Sums
<1>7. h[s] = f[Pick(s)] + h[s \ {Pick(s)}]
  BY <1>2, <1>3 DEF Sums
<1> QED
  BY <1>2, <1>5, <1>6, <1>7

\* Over a finite set some function obeys the recursion.
LEMMA SumsExist ==
    ASSUME NEW f, NEW S, IsFiniteSet(S)
    PROVE  \E g : Sums(g, f, S)
<1> DEFINE C == {T \in SUBSET S : ~ \E g : Sums(g, f, T)}
<1> SUFFICES ASSUME C # {}
             PROVE  FALSE
  OBVIOUS
<1>1. PICK T \in C : \A U \in C : U \subseteq T => U = T
  <2> C \subseteq SUBSET S
    OBVIOUS
  <2> HIDE DEF C
  <2> QED
    BY MinimalSet
<1>2. \A U \in SUBSET T : U # T => \E g : Sums(g, f, U)
  BY <1>1
<1> DEFINE Of(U) == CHOOSE g : Sums(g, f, U)
           V(U) == Of(U)[U]
           G == [s \in SUBSET T |-> IF s = {} THEN 0 ELSE f[Pick(s)] + V(s \ {Pick(s)})]
<1>3. \A U \in SUBSET T : U # T => Sums(Of(U), f, U)
  BY <1>2
<1>4. ASSUME NEW U \in SUBSET T, U # T
      PROVE  V(U) = IF U = {} THEN 0 ELSE f[Pick(U)] + V(U \ {Pick(U)})
  <2>1. Sums(Of(U), f, U)
    BY <1>3, <1>4
  <2>2. CASE U = {}
    BY <2>1, <2>2 DEF Sums
  <2>3. CASE U # {}
    <3> DEFINE W == U \ {Pick(U)}
    <3>1. Pick(U) \in U
      BY <2>3 DEF Pick
    <3>2. W \in SUBSET T /\ W # T /\ W \subseteq U
      BY <3>1
    <3>3. Sums(Of(W), f, W)
      BY <1>3, <3>2
    <3>4. IsFiniteSet(U)
      BY FS_Subset
    <3>5. \A s \in SUBSET W : Of(U)[s] = Of(W)[s]
      <4> DEFINE a == Of(U)
                 b == Of(W)
      <4>1. Sums(a, f, U) /\ Sums(b, f, W) /\ W \subseteq U
        BY <2>1, <3>2, <3>3
      <4> HIDE DEF a, b, W
      <4>2. \A s \in SUBSET W : a[s] = b[s]
        BY <4>1, <3>4, SumsAgree
      <4> QED
        BY <4>2 DEF a, b
    <3>6. Of(U)[W] = V(W)
      BY <3>5
    <3>7. Of(U)[U] = f[Pick(U)] + Of(U)[W]
      BY <2>1, <2>3 DEF Sums
    <3> QED
      BY <3>6, <3>7, <2>3
  <2> QED
    BY <2>2, <2>3
<1>5. ASSUME NEW s \in SUBSET T, s # {}
      PROVE  V(s \ {Pick(s)}) = G[s \ {Pick(s)}]
  <2>1. Pick(s) \in s
    BY <1>5 DEF Pick
  <2>2. s \ {Pick(s)} \in SUBSET T /\ s \ {Pick(s)} # T
    BY <2>1
  <2> DEFINE w == s \ {Pick(s)}
  <2>3. w \in SUBSET T /\ w # T
    BY <2>2
  <2> HIDE DEF w, V
  <2>4. V(w) = IF w = {} THEN 0 ELSE f[Pick(w)] + V(w \ {Pick(w)})
    BY <2>3, <1>4
  <2>5. G[w] = IF w = {} THEN 0 ELSE f[Pick(w)] + V(w \ {Pick(w)})
    BY <2>3
  <2> QED
    BY <2>4, <2>5 DEF w
<1>6. Sums(G, f, T)
  <2> HIDE DEF V
  <2>1. \A s \in SUBSET T : s # {} => V(s \ {Pick(s)}) = G[s \ {Pick(s)}]
    BY <1>5
  <2> DEFINE H == [s \in SUBSET T |-> IF s = {} THEN 0 ELSE f[Pick(s)] + G[s \ {Pick(s)}]]
  <2>2. \A s \in SUBSET T : G[s] = H[s]
    BY <2>1
  <2>3. G = H
    BY <2>2
  <2> QED
    BY <2>3 DEF Sums
<1> QED
  BY <1>1, <1>6

\* The sum the library defines obeys its recursion.
LEMMA SumIsOf ==
    ASSUME NEW f, NEW S, IsFiniteSet(S)
    PROVE  \E g : /\ Sums(g, f, S)
                  /\ \A s \in SUBSET S : SumFunctionOnSet(f, s) = g[s]
<1>1. \A T \in SUBSET S : \E h : Sums(h, f, T) /\ SumFunctionOnSet(f, T) = h[T]
  <2> SUFFICES ASSUME NEW T \in SUBSET S
               PROVE  \E h : Sums(h, f, T) /\ SumFunctionOnSet(f, T) = h[T]
    OBVIOUS
  <2> DEFINE h == CHOOSE h : Sums(h, f, T)
  <2>1. IsFiniteSet(T)
    BY FS_Subset
  <2>2. Sums(h, f, T)
    BY <2>1, SumsExist
  <2>3. SumFunctionOnSet(f, T) = h[T]
    BY DEF SumFunctionOnSet, FoldFunctionOnSet, MapThenFoldSet, Sums, Pick
  <2> QED
    BY <2>2, <2>3
<1>2. PICK g : Sums(g, f, S)
  BY SumsExist
<1>3. ASSUME NEW T \in SUBSET S
      PROVE  SumFunctionOnSet(f, T) = g[T]
  <2>1. PICK h : Sums(h, f, T) /\ SumFunctionOnSet(f, T) = h[T]
    BY <1>1
  <2>2. \A s \in SUBSET T : g[s] = h[s]
    BY <1>2, <2>1, SumsAgree
  <2> QED
    BY <2>1, <2>2
<1> QED
  BY <1>2, <1>3

\* The sum over no element is 0.
LEMMA SumEmpty == ASSUME NEW f PROVE SumFunctionOnSet(f, {}) = 0
<1>1. PICK g : Sums(g, f, {}) /\ \A s \in SUBSET {} : SumFunctionOnSet(f, s) = g[s]
  BY SumIsOf, FS_EmptySet
<1> QED
  BY <1>1 DEF Sums

\* A sum is the picked summand and the sum of the others.
LEMMA SumPick ==
    ASSUME NEW f, NEW S, IsFiniteSet(S), S # {}
    PROVE  SumFunctionOnSet(f, S) = f[Pick(S)] + SumFunctionOnSet(f, S \ {Pick(S)})
<1>1. PICK g : Sums(g, f, S) /\ \A s \in SUBSET S : SumFunctionOnSet(f, s) = g[s]
  BY SumIsOf
<1>2. g[S] = f[Pick(S)] + g[S \ {Pick(S)}]
  BY <1>1 DEF Sums
<1> QED
  BY <1>1, <1>2

\* A sum of integers is an integer.
LEMMA SumInt ==
    ASSUME NEW f, NEW S, IsFiniteSet(S), \A x \in S : f[x] \in Int
    PROVE  SumFunctionOnSet(f, S) \in Int
<1> DEFINE C == {T \in SUBSET S : SumFunctionOnSet(f, T) \notin Int}
<1> SUFFICES ASSUME C # {}
             PROVE  FALSE
  OBVIOUS
<1>1. PICK T \in C : \A U \in C : U \subseteq T => U = T
  <2> C \subseteq SUBSET S
    OBVIOUS
  <2> HIDE DEF C
  <2> QED
    BY MinimalSet
<1>2. T # {}
  BY SumEmpty
<1>3. Pick(T) \in T
  BY <1>2 DEF Pick
<1>4. IsFiniteSet(T)
  BY FS_Subset
<1>5. SumFunctionOnSet(f, T) = f[Pick(T)] + SumFunctionOnSet(f, T \ {Pick(T)})
  BY <1>2, <1>4, SumPick
<1>6. SumFunctionOnSet(f, T \ {Pick(T)}) \in Int
  BY <1>1, <1>3
<1> QED
  BY <1>3, <1>5, <1>6

\* Function f gives an integer at every element of S.
IntegerOn(f, S) == \A y \in S : f[y] \in Int

\* Set S without its element x.
Without(S, x) == S \ {x}

\* The same for any summand: the order of the elements does not matter.
LEMMA SumElement ==
    ASSUME NEW f, NEW S, NEW x, x \in S, IsFiniteSet(S), IntegerOn(f, S)
    PROVE  SumFunctionOnSet(f, S) = f[x] + SumFunctionOnSet(f, Without(S, x))
<1> DEFINE C == {T \in SUBSET S : \E z \in T :
                    SumFunctionOnSet(f, T) # f[z] + SumFunctionOnSet(f, T \ {z})}
<1> USE DEF IntegerOn
<1>1. \A U \in SUBSET S : IsFiniteSet(U) /\ SumFunctionOnSet(f, U) \in Int
  BY FS_Subset, SumInt
<1> SUFFICES ASSUME C # {}
             PROVE  FALSE
  <2> SUFFICES SumFunctionOnSet(f, S) = f[x] + SumFunctionOnSet(f, S \ {x})
    BY DEF Without
  <2> QED
    OBVIOUS
<1>2. PICK T \in C : \A U \in C : U \subseteq T => U = T
  <2> C \subseteq SUBSET S
    OBVIOUS
  <2> HIDE DEF C
  <2> QED
    BY MinimalSet
<1>3. PICK z \in T : SumFunctionOnSet(f, T) # f[z] + SumFunctionOnSet(f, T \ {z})
  OBVIOUS
<1> DEFINE p == Pick(T)
           R == T \ {p, z}
           Sum(U) == SumFunctionOnSet(f, U)
<1>4. p \in T
  BY <1>3 DEF Pick
<1>5. Sum(T) = f[p] + Sum(T \ {p})
  BY <1>1, <1>3, SumPick
<1>6. z # p
  BY <1>3, <1>5
<1>7. Sum(T \ {p}) = f[z] + Sum(R)
  <2>1. T \ {p} \notin C
    BY <1>2, <1>4
  <2>2. (T \ {p}) \ {z} = R
    OBVIOUS
  <2> QED
    BY <2>1, <2>2, <1>3, <1>6
<1>8. Sum(T \ {z}) = f[p] + Sum(R)
  <2>1. T \ {z} \notin C
    BY <1>2, <1>3
  <2>2. (T \ {z}) \ {p} = R
    OBVIOUS
  <2> QED
    BY <2>1, <2>2, <1>4, <1>6
<1>9. Sum(R) \in Int /\ f[p] \in Int /\ f[z] \in Int
  BY <1>1, <1>3, <1>4
<1> HIDE DEF p, R, Sum
<1> QED
  BY <1>3, <1>5, <1>7, <1>8, <1>9 DEF Sum

\* Equal summands have equal sums.
LEMMA SumSame ==
    ASSUME NEW f, NEW g, NEW S, IsFiniteSet(S), \A x \in S : f[x] = g[x]
    PROVE  SumFunctionOnSet(f, S) = SumFunctionOnSet(g, S)
<1> DEFINE C == {T \in SUBSET S : SumFunctionOnSet(f, T) # SumFunctionOnSet(g, T)}
<1> SUFFICES ASSUME C # {}
             PROVE  FALSE
  OBVIOUS
<1>1. PICK T \in C : \A U \in C : U \subseteq T => U = T
  <2> C \subseteq SUBSET S
    OBVIOUS
  <2> HIDE DEF C
  <2> QED
    BY MinimalSet
<1>2. T # {}
  BY SumEmpty
<1>3. Pick(T) \in T
  BY <1>2 DEF Pick
<1>4. IsFiniteSet(T)
  BY FS_Subset
<1>5. /\ SumFunctionOnSet(f, T) = f[Pick(T)] + SumFunctionOnSet(f, T \ {Pick(T)})
      /\ SumFunctionOnSet(g, T) = g[Pick(T)] + SumFunctionOnSet(g, T \ {Pick(T)})
  BY <1>2, <1>4, SumPick
<1>6. SumFunctionOnSet(f, T \ {Pick(T)}) = SumFunctionOnSet(g, T \ {Pick(T)})
  BY <1>1, <1>3
<1> QED
  BY <1>3, <1>5, <1>6

\* Sums compare as their summands do.
LEMMA SumAtMost ==
    ASSUME NEW f, NEW g, NEW S, IsFiniteSet(S),
           \A x \in S : f[x] \in Int /\ g[x] \in Int /\ f[x] <= g[x]
    PROVE  SumFunctionOnSet(f, S) <= SumFunctionOnSet(g, S)
<1> DEFINE C == {T \in SUBSET S : ~(SumFunctionOnSet(f, T) <= SumFunctionOnSet(g, T))}
<1> SUFFICES ASSUME C # {}
             PROVE  FALSE
  OBVIOUS
<1>1. PICK T \in C : \A U \in C : U \subseteq T => U = T
  <2> C \subseteq SUBSET S
    OBVIOUS
  <2> HIDE DEF C
  <2> QED
    BY MinimalSet
<1>2. T # {}
  BY SumEmpty
<1>3. Pick(T) \in T
  BY <1>2 DEF Pick
<1>4. IsFiniteSet(T)
  BY FS_Subset
<1> DEFINE U == T \ {Pick(T)}
<1>5. /\ SumFunctionOnSet(f, T) = f[Pick(T)] + SumFunctionOnSet(f, U)
      /\ SumFunctionOnSet(g, T) = g[Pick(T)] + SumFunctionOnSet(g, U)
  BY <1>2, <1>4, SumPick
<1>6. SumFunctionOnSet(f, U) <= SumFunctionOnSet(g, U)
  BY <1>1, <1>3
<1>7. SumFunctionOnSet(f, U) \in Int /\ SumFunctionOnSet(g, U) \in Int
  <2>1. IsFiniteSet(U)
    BY <1>4, FS_Subset
  <2>2. \A x \in U : f[x] \in Int /\ g[x] \in Int
    OBVIOUS
  <2> HIDE DEF U
  <2> QED
    BY <2>1, <2>2, SumInt
<1>8. f[Pick(T)] <= g[Pick(T)] /\ f[Pick(T)] \in Int /\ g[Pick(T)] \in Int
  BY <1>3
<1>9. ~(SumFunctionOnSet(f, T) <= SumFunctionOnSet(g, T))
  BY <1>1
<1> HIDE DEF U, C
<1> QED
  BY <1>5, <1>6, <1>7, <1>8, <1>9

\* The sum of sums of two summands is the sum of the two sums.
LEMMA SumPlus ==
    ASSUME NEW f, NEW g, NEW h, NEW S, IsFiniteSet(S),
           \A x \in S : f[x] \in Int /\ g[x] \in Int /\ h[x] = f[x] + g[x]
    PROVE  SumFunctionOnSet(h, S) = SumFunctionOnSet(f, S) + SumFunctionOnSet(g, S)
<1> DEFINE C == {T \in SUBSET S :
       SumFunctionOnSet(h, T) # SumFunctionOnSet(f, T) + SumFunctionOnSet(g, T)}
<1> SUFFICES ASSUME C # {}
             PROVE  FALSE
  OBVIOUS
<1>1. PICK T \in C : \A U \in C : U \subseteq T => U = T
  <2> C \subseteq SUBSET S
    OBVIOUS
  <2> HIDE DEF C
  <2> QED
    BY MinimalSet
<1>2. ASSUME T = {}
      PROVE  FALSE
  <2>1. /\ SumFunctionOnSet(f, T) = 0
        /\ SumFunctionOnSet(g, T) = 0
        /\ SumFunctionOnSet(h, T) = 0
    BY <1>2, SumEmpty, Zenon
  <2>2. SumFunctionOnSet(h, T) # SumFunctionOnSet(f, T) + SumFunctionOnSet(g, T)
    BY <1>1
  <2> HIDE DEF C
  <2> QED
    BY <2>1, <2>2
<1>3. Pick(T) \in T
  BY <1>2 DEF Pick
<1>4. IsFiniteSet(T)
  BY FS_Subset
<1> DEFINE U == T \ {Pick(T)}
<1>5. /\ SumFunctionOnSet(f, T) = f[Pick(T)] + SumFunctionOnSet(f, U)
      /\ SumFunctionOnSet(g, T) = g[Pick(T)] + SumFunctionOnSet(g, U)
      /\ SumFunctionOnSet(h, T) = h[Pick(T)] + SumFunctionOnSet(h, U)
  BY <1>2, <1>4, SumPick
<1>6. SumFunctionOnSet(h, U) = SumFunctionOnSet(f, U) + SumFunctionOnSet(g, U)
  BY <1>1, <1>3
<1>7. SumFunctionOnSet(f, U) \in Int /\ SumFunctionOnSet(g, U) \in Int
  <2>1. IsFiniteSet(U)
    BY <1>4, FS_Subset
  <2>2. \A x \in U : f[x] \in Int /\ g[x] \in Int
    OBVIOUS
  <2> HIDE DEF U
  <2> QED
    BY <2>1, <2>2, SumInt
<1>8. h[Pick(T)] = f[Pick(T)] + g[Pick(T)] /\ f[Pick(T)] \in Int /\ g[Pick(T)] \in Int
  BY <1>3
<1>9. SumFunctionOnSet(h, T) # SumFunctionOnSet(f, T) + SumFunctionOnSet(g, T)
  BY <1>1
<1> HIDE DEF U, C
<1> QED
  BY <1>5, <1>6, <1>7, <1>8, <1>9

\* A sum of zeros is 0.
LEMMA SumZero ==
    ASSUME NEW f, NEW S, IsFiniteSet(S), \A x \in S : f[x] = 0
    PROVE  SumFunctionOnSet(f, S) = 0
<1> DEFINE s == SumFunctionOnSet(f, S)
<1>1. s = s + s
  <2>1. \A x \in S : f[x] \in Int /\ f[x] \in Int
    OBVIOUS
  <2>2. \A x \in S : f[x] = f[x] + f[x]
    OBVIOUS
  <2> QED
    BY <2>1, <2>2, SumPlus
<1>2. s \in Int
  <2>1. \A x \in S : f[x] \in Int
    OBVIOUS
  <2> QED
    BY <2>1, SumInt
<1> HIDE DEF s
<1>3. s = 0
  BY <1>1, <1>2
<1> QED
  BY <1>3 DEF s

\* A sum of naturals is a natural.
LEMMA SumNat ==
    ASSUME NEW f, NEW S, IsFiniteSet(S), \A x \in S : f[x] \in Nat
    PROVE  SumFunctionOnSet(f, S) \in Nat
<1> DEFINE z == [x \in S |-> 0]
<1>1. \A x \in S : z[x] = 0
  OBVIOUS
<1>2. \A x \in S : z[x] \in Int /\ f[x] \in Int /\ z[x] <= f[x]
  OBVIOUS
<1> HIDE DEF z
<1>3. SumFunctionOnSet(z, S) = 0
  BY <1>1, SumZero
<1>4. SumFunctionOnSet(z, S) <= SumFunctionOnSet(f, S)
  BY <1>2, SumAtMost
<1>5. SumFunctionOnSet(f, S) \in Int
  BY SumInt
<1> QED
  BY <1>3, <1>4, <1>5

\* Functions f and g agree on S.
AgreeOn(f, g, S) == \A y \in S : g[y] = f[y]

\* A sum changes by as much as the one summand that differs.
LEMMA SumChange ==
    ASSUME NEW f, NEW g, NEW S, NEW x, x \in S, IsFiniteSet(S),
           IntegerOn(f, S), IntegerOn(g, S), AgreeOn(f, g, Without(S, x))
    PROVE  SumFunctionOnSet(g, S) = SumFunctionOnSet(f, S) - f[x] + g[x]
<1> DEFINE R == Without(S, x)
<1>1. /\ SumFunctionOnSet(f, S) = f[x] + SumFunctionOnSet(f, R)
      /\ SumFunctionOnSet(g, S) = g[x] + SumFunctionOnSet(g, R)
  <2>1. SumFunctionOnSet(f, S) = f[x] + SumFunctionOnSet(f, Without(S, x))
    BY SumElement
  <2>2. SumFunctionOnSet(g, S) = g[x] + SumFunctionOnSet(g, Without(S, x))
    BY SumElement
  <2> QED
    BY <2>1, <2>2
<1>2. IsFiniteSet(R)
  BY FS_Subset DEF Without
<1>3. \A y \in R : g[y] = f[y]
  BY DEF AgreeOn
<1>4. \A y \in R : f[y] \in Int
  BY DEF IntegerOn, Without
<1>9. f[x] \in Int /\ g[x] \in Int
  BY DEF IntegerOn
<1> HIDE DEF R
<1>5. SumFunctionOnSet(g, R) = SumFunctionOnSet(f, R)
  BY <1>2, <1>3, SumSame
<1>6. SumFunctionOnSet(f, R) \in Int
  BY <1>2, <1>4, SumInt
<1> QED
  BY <1>1, <1>5, <1>6, <1>9

\* Of naturals a subset sums to no more.
LEMMA SumSubset ==
    ASSUME NEW f, NEW S, NEW T, IsFiniteSet(S), T \subseteq S, \A x \in S : f[x] \in Nat
    PROVE  SumFunctionOnSet(f, T) <= SumFunctionOnSet(f, S)
<1> DEFINE C == {U \in SUBSET S :
       T \subseteq U /\ ~(SumFunctionOnSet(f, T) <= SumFunctionOnSet(f, U))}
<1> SUFFICES ASSUME C # {}
             PROVE  FALSE
  OBVIOUS
<1>1. PICK U \in C : \A V \in C : V \subseteq U => V = U
  <2> C \subseteq SUBSET S
    OBVIOUS
  <2> HIDE DEF C
  <2> QED
    BY MinimalSet
<1>2. \A V \in SUBSET S : IsFiniteSet(V) /\ SumFunctionOnSet(f, V) \in Nat
  BY FS_Subset, SumNat
<1>3. U # T
  BY <1>2
<1>4. PICK x \in U : x \notin T
  BY <1>3
<1>5. SumFunctionOnSet(f, U) = f[x] + SumFunctionOnSet(f, U \ {x})
  <2>1. IntegerOn(f, U)
    BY DEF IntegerOn
  <2>2. IsFiniteSet(U)
    BY <1>2
  <2> HIDE DEF C
  <2>3. SumFunctionOnSet(f, U) = f[x] + SumFunctionOnSet(f, Without(U, x))
    BY <2>1, <2>2, SumElement
  <2> QED
    BY <2>3 DEF Without
<1>6. SumFunctionOnSet(f, T) <= SumFunctionOnSet(f, U \ {x})
  BY <1>1, <1>4
<1>7. /\ SumFunctionOnSet(f, T) \in Nat
      /\ SumFunctionOnSet(f, U \ {x}) \in Nat
      /\ f[x] \in Nat
  BY <1>2, <1>4
<1>8. ~(SumFunctionOnSet(f, T) <= SumFunctionOnSet(f, U))
  BY <1>1
<1> HIDE DEF C
<1> QED
  BY <1>5, <1>6, <1>7, <1>8

\* Function f gives a natural number at every element of S.
NaturalOn(f, S) == \A y \in S : f[y] \in Nat

\* Of naturals a union sums to no more than its parts.
LEMMA SumUnion ==
    ASSUME NEW f, NEW A, NEW B, IsFiniteSet(A), IsFiniteSet(B), NaturalOn(f, A \cup B)
    PROVE  SumFunctionOnSet(f, A \cup B) <= SumFunctionOnSet(f, A) + SumFunctionOnSet(f, B)
<1> DEFINE Sum(U) == SumFunctionOnSet(f, U)
           C == {U \in SUBSET B : ~(Sum(A \cup U) <= Sum(A) + Sum(U))}
<1> SUFFICES ASSUME C # {}
             PROVE  FALSE
  OBVIOUS
<1>1. PICK U \in C : \A V \in C : V \subseteq U => V = U
  <2> C \subseteq SUBSET B
    OBVIOUS
  <2> HIDE DEF C
  <2> QED
    BY MinimalSet
<1>2. ASSUME NEW V, V \subseteq A \cup B
      PROVE  IsFiniteSet(V) /\ Sum(V) \in Nat /\ IntegerOn(f, V)
  <2>1. IsFiniteSet(V)
    BY <1>2, FS_Union, FS_Subset
  <2>2. \A x \in V : f[x] \in Nat
    BY <1>2 DEF NaturalOn
  <2> HIDE DEF C
  <2> QED
    BY <2>1, <2>2, SumNat DEF IntegerOn
<1>3. U \subseteq B /\ ~(Sum(A \cup U) <= Sum(A) + Sum(U))
  BY <1>1
<1>4. Sum(A) \in Nat /\ Sum(U) \in Nat
  BY <1>2, <1>3
<1>5. PICK x \in U : TRUE
  <2> SUFFICES ASSUME U = {}
               PROVE  FALSE
    OBVIOUS
  <2>1. A \cup U = A
    OBVIOUS
  <2>2. Sum(U) = 0
    BY SumEmpty
  <2> HIDE DEF C, Sum
  <2> QED
    BY <2>1, <2>2, <1>3, <1>4
<1> DEFINE V == Without(U, x)
<1>6. V \subseteq B /\ V # U /\ V \subseteq U
  BY <1>3 DEF Without
<1>7. Sum(A \cup V) <= Sum(A) + Sum(V)
  BY <1>1, <1>6
<1> HIDE DEF C
<1>8. Sum(U) = f[x] + Sum(V)
  <2>1. IsFiniteSet(U) /\ IntegerOn(f, U)
    BY <1>2, <1>3
  <2> QED
    BY <2>1, SumElement
<1>9. /\ Sum(V) \in Nat /\ Sum(A \cup V) \in Nat /\ f[x] \in Nat
  <2>1. V \subseteq A \cup B /\ A \cup V \subseteq A \cup B /\ x \in A \cup B
    BY <1>3, <1>6
  <2> HIDE DEF V
  <2>2. f[x] \in Nat
    BY <2>1 DEF NaturalOn
  <2> QED
    BY <2>1, <2>2, <1>2
<1>10. CASE x \in A
  <2>1. A \cup U = A \cup V
    BY <1>10 DEF Without
  <2> HIDE DEF Sum, V
  <2> QED
    BY <2>1, <1>3, <1>4, <1>7, <1>8, <1>9
<1>11. CASE x \notin A
  <2> DEFINE W == A \cup U
  <2>1. x \in W /\ Without(W, x) = A \cup V
    BY <1>11 DEF Without
  <2>2. IsFiniteSet(W) /\ IntegerOn(f, W)
    BY <1>2, <1>3
  <2> HIDE DEF W
  <2>3. SumFunctionOnSet(f, W) = f[x] + SumFunctionOnSet(f, Without(W, x))
    BY <2>1, <2>2, SumElement
  <2>4. Sum(A \cup U) = f[x] + Sum(A \cup V)
    BY <2>1, <2>3 DEF W
  <2> HIDE DEF Sum, V
  <2> QED
    BY <2>4, <1>3, <1>4, <1>7, <1>8, <1>9
<1> QED
  BY <1>10, <1>11

\* A sum does not depend on how its summands are numbered.
LEMMA SumRenamed ==
    ASSUME NEW f, NEW g, NEW S, NEW T, NEW h \in Bijection(S, T), IsFiniteSet(S),
           \A x \in S : g[h[x]] = f[x] /\ f[x] \in Int
    PROVE  SumFunctionOnSet(g, T) = SumFunctionOnSet(f, S)
<1> DEFINE Im(U) == {h[x] : x \in U}
           C == {U \in SUBSET S : SumFunctionOnSet(g, Im(U)) # SumFunctionOnSet(f, U)}
<1>1. /\ \A x \in S : h[x] \in T
      /\ \A x, y \in S : h[x] = h[y] => x = y
      /\ \A t \in T : \E x \in S : h[x] = t
  BY DEF Bijection, Injection, Surjection, IsInjective
<1>2. IsFiniteSet(T)
  BY FS_Bijection DEF ExistsBijection
<1>3. Im(S) = T
  BY <1>1
<1> SUFFICES ASSUME C # {}
             PROVE  FALSE
  <2> S \in SUBSET S
    OBVIOUS
  <2> QED
    BY <1>3
<1>4. PICK U \in C : \A V \in C : V \subseteq U => V = U
  <2> C \subseteq SUBSET S
    OBVIOUS
  <2> HIDE DEF C
  <2> QED
    BY MinimalSet
<1>5. U # {}
  <2>1. Im({}) = {}
    OBVIOUS
  <2>2. SumFunctionOnSet(f, {}) = 0 /\ SumFunctionOnSet(g, {}) = 0
    BY SumEmpty
  <2> QED
    BY <2>1, <2>2
<1> DEFINE p == Pick(U)
           W == U \ {p}
<1>6. p \in U
  BY <1>5 DEF Pick
<1>7. Im(U) \ {h[p]} = Im(W)
  BY <1>1, <1>6
<1>8. SumFunctionOnSet(f, U) = f[p] + SumFunctionOnSet(f, W)
  <2>1. IsFiniteSet(U)
    BY FS_Subset
  <2> QED
    BY <2>1, <1>5, SumPick
<1>9. SumFunctionOnSet(g, Im(U)) = g[h[p]] + SumFunctionOnSet(g, Im(U) \ {h[p]})
  <2> DEFINE I == Im(U)
             q == h[p]
  <2>1. IsFiniteSet(I)
    <3> I \in SUBSET T
      BY <1>1
    <3> HIDE DEF I
    <3> QED
      BY <1>2, FS_Subset
  <2>2. q \in I
    BY <1>6
  <2>3. IntegerOn(g, I)
    BY DEF IntegerOn
  <2> HIDE DEF I, q, C, Im
  <2>4. SumFunctionOnSet(g, I) = g[q] + SumFunctionOnSet(g, Without(I, q))
    BY <2>1, <2>2, <2>3, SumElement
  <2> QED
    BY <2>4 DEF Without, I, q, Im
<1>10. SumFunctionOnSet(g, Im(W)) = SumFunctionOnSet(f, W)
  BY <1>4, <1>6
<1>11. g[h[p]] = f[p]
  BY <1>6
<1>12. SumFunctionOnSet(g, Im(U)) # SumFunctionOnSet(f, U)
  BY <1>4
<1> HIDE DEF p, W, Im, C
<1> QED
  BY <1>7, <1>8, <1>9, <1>10, <1>11, <1>12
-----------------------------------------------------------------------------
(* Sums over positions *)

\* The sum over one position more, as after Append.
LEMMA SumLast ==
    ASSUME NEW n, n \in Nat, NEW f, NEW g,
           AgreeOn(f, g, 1 .. n), IntegerOn(f, 1 .. n), g[n + 1] \in Int
    PROVE  SumFunctionOnSet(g, 1 .. n + 1) = SumFunctionOnSet(f, 1 .. n) + g[n + 1]
<1> DEFINE S == 1 .. n + 1
           R == 1 .. n
           k == n + 1
<1>1. IsFiniteSet(S) /\ IsFiniteSet(R)
  BY FS_Interval
<1>2. k \in S /\ IntegerOn(g, S)
  BY DEF IntegerOn, AgreeOn
<1>3. Without(S, k) = R
  BY DEF Without
<1>4. \A i \in R : g[i] = f[i] /\ f[i] \in Int
  BY DEF IntegerOn, AgreeOn
<1> HIDE DEF S, R, k
<1>5. SumFunctionOnSet(g, S) = g[k] + SumFunctionOnSet(g, Without(S, k))
  BY <1>1, <1>2, SumElement
<1>6. SumFunctionOnSet(g, R) = SumFunctionOnSet(f, R)
  BY <1>1, <1>4, SumSame
<1>7. SumFunctionOnSet(f, R) \in Int
  BY <1>1, <1>4, SumInt
<1>8. g[k] \in Int
  BY <1>2 DEF IntegerOn
<1> QED
  <2>1. SumFunctionOnSet(g, S) = SumFunctionOnSet(f, R) + g[k]
    BY <1>3, <1>5, <1>6, <1>7, <1>8
  <2> QED
    BY <2>1 DEF S, R, k

\* Function g is f with position k taken out and the later ones moved up.
MovedUp(f, g, n, k) == \A i \in 1 .. n : g[i] = IF i < k THEN f[i] ELSE f[i + 1]

\* The sum without position k, the later ones moved up, as after RemoveAt.
LEMMA SumRemoved ==
    ASSUME NEW n, n \in Nat, NEW k, k \in 1 .. n + 1, NEW f, NEW g,
           IntegerOn(f, 1 .. n + 1), MovedUp(f, g, n, k)
    PROVE  SumFunctionOnSet(g, 1 .. n) = SumFunctionOnSet(f, 1 .. n + 1) - f[k]
<1> DEFINE S == 1 .. n + 1
           R == 1 .. n
           T == S \ {k}
           h == [i \in R |-> IF i < k THEN i ELSE i + 1]
<1>1. IsFiniteSet(S) /\ IsFiniteSet(R)
  BY FS_Interval
<1>2. h \in Bijection(R, T)
  <2>1. h \in [R -> T]
    OBVIOUS
  <2>2. \A i, j \in R : h[i] = h[j] => i = j
    OBVIOUS
  <2>3. ASSUME NEW t \in T
        PROVE  \E i \in R : h[i] = t
    <3>1. CASE t < k
      <4> t \in R /\ h[t] = t
        BY <3>1
      <4> QED
        OBVIOUS
    <3>2. CASE t > k
      <4> t - 1 \in R /\ h[t - 1] = t
        BY <3>2
      <4> QED
        OBVIOUS
    <3> QED
      BY <3>1, <3>2
  <2> HIDE DEF h
  <2> QED
    BY <2>1, <2>2, <2>3 DEF Bijection, Injection, Surjection, IsInjective
<1>3. \A i \in R : f[h[i]] = g[i] /\ g[i] \in Int
  BY DEF IntegerOn, MovedUp
<1>4. IntegerOn(f, S)
  BY DEF IntegerOn
<1>5. k \in S
  OBVIOUS
<1>6. IsFiniteSet(T) /\ \A i \in T : f[i] \in Int
  <2> \A i \in T : f[i] \in Int
    BY DEF IntegerOn
  <2> QED
    BY <1>1, FS_Subset
<1> HIDE DEF S, R, h
<1>7. SumFunctionOnSet(f, S) = f[k] + SumFunctionOnSet(f, T)
  <2>1. SumFunctionOnSet(f, S) = f[k] + SumFunctionOnSet(f, Without(S, k))
    BY <1>1, <1>4, <1>5, SumElement
  <2> QED
    BY <2>1 DEF Without
<1> HIDE DEF T
<1>8. SumFunctionOnSet(f, T) = SumFunctionOnSet(g, R)
  BY <1>1, <1>2, <1>3, SumRenamed
<1>9. SumFunctionOnSet(f, T) \in Int /\ f[k] \in Int
  BY <1>4, <1>5, <1>6, SumInt DEF IntegerOn
<1> QED
  BY <1>7, <1>8, <1>9 DEF S, R

-----------------------------------------------------------------------------
(* The sums as the models write them *)

\* SumFunction sums over the domain.
LEMMA SumOfFunction ==
    ASSUME NEW f
    PROVE  SumFunction(f) = SumFunctionOnSet(f, DOMAIN f)
<1> QED
  BY DEF SumFunction

\* MapThenSumSet of the values of a function is the same sum.
LEMMA SumOfMap ==
    ASSUME NEW f, NEW S
    PROVE  MapThenSumSet(LAMBDA x : f[x], S) = SumFunctionOnSet(f, S)
<1> QED
  BY DEF MapThenSumSet, SumFunctionOnSet, FoldFunctionOnSet, MapThenFoldSet

=============================================================================
