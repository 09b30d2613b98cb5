---------------------------- MODULE SumTheorems ----------------------------
(***************************************************************************)
(* What the books are made of: sums over the rows of a table.  The models  *)
(* write them with the community operator SumFunctionOnSet, a fold that    *)
(* takes the rows in an unspecified order; these theorems say that the     *)
(* order is of no account and how a sum answers to a row that is added,    *)
(* changed or left out.  The code adds the same rows in SQL (SUM over a    *)
(* query) and in loops over what a query returned.                         *)
(*                                                                         *)
(* Induction over finite sets is used in its set form, a smallest          *)
(* counterexample (WFMin), because a rule with an operator parameter       *)
(* cannot be instantiated by the provers.                                  *)
(***************************************************************************)
EXTENDS Integers, Sequences, Functions, FiniteSetsExt, FiniteSetTheorems, TLAPS

(* Induction over the parts of a finite set. *)

\* What holds of a part whenever it holds of the smaller parts of it, holds of all.
LEMMA StrongSubsetInduction ==
    ASSUME NEW S, IsFiniteSet(S), NEW G,
           \A T \in SUBSET S : (\A U \in SUBSET T : U # T => U \in G) => T \in G
    PROVE  \A T \in SUBSET S : T \in G
<1> DEFINE Bad == (SUBSET S) \ G
<1>1. SUFFICES ASSUME Bad # {}
               PROVE  FALSE
  OBVIOUS
<1>2. IsWellFoundedOn(StrictSubsetOrdering(S), SUBSET S)
  BY FS_StrictSubsetOrderingWellFounded, FS_FiniteSubsetsOfFinite
<1>3. PICK T \in Bad : \A U \in Bad : <<U, T>> \notin StrictSubsetOrdering(S)
  <2>1. Bad \subseteq SUBSET S
    OBVIOUS
  <2> HIDE DEF Bad
  <2> QED
    BY <1>1, <1>2, <2>1, WFMin
<1>4. ASSUME NEW U \in SUBSET T, U # T
      PROVE  U \in G
  <2>1. <<U, T>> \in StrictSubsetOrdering(S)
    BY <1>3, <1>4 DEF StrictSubsetOrdering
  <2> QED
    BY <1>3, <2>1
<1> QED
  BY <1>3, <1>4

\* What holds of nothing, and of a part with one more element, holds of all parts.
LEMMA SubsetInduction ==
    ASSUME NEW S, IsFiniteSet(S), NEW G, {} \in G,
           \A T \in SUBSET S, x \in S : T \in G /\ x \notin T => T \cup {x} \in G
    PROVE  \A T \in SUBSET S : T \in G
<1> SUFFICES ASSUME NEW T \in SUBSET S, \A U \in SUBSET T : U # T => U \in G
             PROVE  T \in G
  BY StrongSubsetInduction
<1>1. CASE T = {}
  BY <1>1
<1>2. CASE T # {}
  <2>1. PICK x \in T : TRUE
    BY <1>2
  <2>2. T \ {x} \in G
    BY <2>1
  <2>3. (T \ {x}) \cup {x} = T
    BY <2>1
  <2> QED
    BY <2>1, <2>2, <2>3
<1> QED
  BY <1>1, <1>2

----------------------------------------------------------------------------
(* The recursion of the fold: what it chooses, what is left, and the totals of the *)
(* parts of S.                                                                     *)

Chosen(s) == CHOOSE x \in s : TRUE
Others(s) == s \ {Chosen(s)}

Totals(f, S) ==
    CHOOSE iter : iter = [s \in SUBSET S |-> IF s = {} THEN 0 ELSE f[Chosen(s)] + iter[Others(s)]]

\* The community operator is that recursion, at the whole set.
LEMMA SumIsTotals ==
    ASSUME NEW f, NEW S
    PROVE  SumFunctionOnSet(f, S) = Totals(f, S)[S]
BY DEF SumFunctionOnSet, FoldFunctionOnSet, MapThenFoldSet, Totals, Chosen, Others

\* The element chosen is one of the set.
LEMMA ChosenIn ==
    ASSUME NEW s, s # {}
    PROVE  Chosen(s) \in s
BY DEF Chosen

\* Without it the set is smaller by one.
LEMMA OthersFewer ==
    ASSUME NEW s, IsFiniteSet(s), s # {}
    PROVE  /\ IsFiniteSet(Others(s))
           /\ Cardinality(s) \in Nat /\ Cardinality(Others(s)) \in Nat
           /\ Cardinality(Others(s)) + 1 = Cardinality(s)
BY ChosenIn, FS_RemoveElement, FS_CardinalityType DEF Others

TotalStep(f, g, s) == IF s = {} THEN 0 ELSE f[Chosen(s)] + g[Others(s)]
PartsUpTo(S, n) == {s \in SUBSET S : Cardinality(s) <= n}

\* Totals of the parts with up to n elements extend to those with one more.
LEMMA OneMore ==
    ASSUME NEW f, NEW S, IsFiniteSet(S), NEW n \in Nat, NEW g,
           g = [s \in PartsUpTo(S, n) |-> TotalStep(f, g, s)]
    PROVE  \E h : h = [s \in PartsUpTo(S, n + 1) |-> TotalStep(f, h, s)]
<1> DEFINE h == [s \in PartsUpTo(S, n + 1) |-> TotalStep(f, g, s)]
<1>1. ASSUME NEW s \in PartsUpTo(S, n + 1), s # {}
      PROVE  h[Others(s)] = g[Others(s)]
  <2>1. IsFiniteSet(s) /\ Others(s) \subseteq s
    BY FS_Subset DEF PartsUpTo, Others
  <2>2. Others(s) \in PartsUpTo(S, n) /\ Others(s) \in PartsUpTo(S, n + 1)
    BY <1>1, <2>1, OthersFewer DEF PartsUpTo
  <2>3. g[Others(s)] = TotalStep(f, g, Others(s))
    BY <2>2
  <2> QED
    BY <2>2, <2>3
<1>2. \A s \in PartsUpTo(S, n + 1) : TotalStep(f, g, s) = TotalStep(f, h, s)
  BY <1>1 DEF TotalStep
<1>3. h = [s \in PartsUpTo(S, n + 1) |-> TotalStep(f, h, s)]
  BY <1>2
<1> QED
  BY <1>3

\* The recursion has a solution: the CHOOSE that stands for it is not empty.
LEMMA TotalsExist ==
    ASSUME NEW f, NEW S, IsFiniteSet(S)
    PROVE  \E g : g = [s \in SUBSET S |-> TotalStep(f, g, s)]
<1> DEFINE Good == {T \in SUBSET S : \E g : g = [s \in PartsUpTo(S, Cardinality(T)) |-> TotalStep(f, g, s)]}
<1>1. {} \in Good
  <2>1. \A s \in PartsUpTo(S, 0) : s = {}
    BY FS_Subset, FS_EmptySet, FS_CardinalityType DEF PartsUpTo
  <2>2. \A g : \A s \in PartsUpTo(S, 0) : TotalStep(f, g, s) = 0
    BY <2>1 DEF TotalStep
  <2>3. [s \in PartsUpTo(S, 0) |-> 0] = [s \in PartsUpTo(S, 0) |-> TotalStep(f, [t \in PartsUpTo(S, 0) |-> 0], s)]
    BY <2>2
  <2> QED
    BY <2>3, FS_EmptySet
<1>2. ASSUME NEW T \in SUBSET S, NEW x \in S, T \in Good, x \notin T
      PROVE  T \cup {x} \in Good
  <2>1. IsFiniteSet(T) /\ Cardinality(T) \in Nat /\ Cardinality(T \cup {x}) = Cardinality(T) + 1
    BY <1>2, FS_Subset, FS_CardinalityType, FS_AddElement
  <2>2. PICK g : g = [s \in PartsUpTo(S, Cardinality(T)) |-> TotalStep(f, g, s)]
    BY <1>2
  <2>3. \E h : h = [s \in PartsUpTo(S, Cardinality(T) + 1) |-> TotalStep(f, h, s)]
    BY <2>1, <2>2, OneMore
  <2> QED
    BY <2>1, <2>3
<1>3. S \in Good
  <2> HIDE DEF Good
  <2>1. \A T \in SUBSET S, x \in S : T \in Good /\ x \notin T => T \cup {x} \in Good
    BY <1>2
  <2> QED
    BY <1>1, <2>1, SubsetInduction
<1>4. PartsUpTo(S, Cardinality(S)) = SUBSET S
  BY FS_Subset DEF PartsUpTo
<1> QED
  BY <1>3, <1>4

\* So the recursion may be unfolded.
LEMMA TotalsUnfold ==
    ASSUME NEW f, NEW S, IsFiniteSet(S), NEW T \in SUBSET S
    PROVE  Totals(f, S)[T] = TotalStep(f, Totals(f, S), T)
<1>1. Totals(f, S) = CHOOSE g : g = [s \in SUBSET S |-> TotalStep(f, g, s)]
  BY DEF Totals, TotalStep
<1>2. Totals(f, S) = [s \in SUBSET S |-> TotalStep(f, Totals(f, S), s)]
  BY <1>1, TotalsExist
<1> QED
  BY <1>2

\* A part is summed alike within any whole.
LEMMA TotalsOfPart ==
    ASSUME NEW f, NEW S, IsFiniteSet(S), NEW U \in SUBSET S
    PROVE  Totals(f, S)[U] = Totals(f, U)[U]
<1> DEFINE G == {T \in SUBSET U : Totals(f, S)[T] = Totals(f, U)[T]}
<1>1. IsFiniteSet(U)
  BY FS_Subset
<1>2. ASSUME NEW T \in SUBSET U, \A V \in SUBSET T : V # T => V \in G
      PROVE  T \in G
  <2>1. Totals(f, S)[T] = TotalStep(f, Totals(f, S), T) /\ Totals(f, U)[T] = TotalStep(f, Totals(f, U), T)
    BY <1>1, TotalsUnfold
  <2>2. T # {} => Others(T) \in SUBSET T /\ Others(T) # T
    BY ChosenIn DEF Others
  <2>3. T # {} => Totals(f, S)[Others(T)] = Totals(f, U)[Others(T)]
    BY <1>2, <2>2
  <2> QED
    BY <2>1, <2>3 DEF TotalStep
<1>3. U \in G
  <2> HIDE DEF G
  <2> QED
    BY <1>1, <1>2, StrongSubsetInduction
<1> QED
  BY <1>3

----------------------------------------------------------------------------
(* Sums. *)

\* No rows add up to nothing: a report of an empty period.
THEOREM SumEmpty == ASSUME NEW f PROVE SumFunctionOnSet(f, {}) = 0
BY SumIsTotals, TotalsUnfold, FS_EmptySet DEF TotalStep

\* A sum is its chosen element and the rest.
LEMMA SumUnfold ==
    ASSUME NEW f, NEW S, IsFiniteSet(S), S # {}
    PROVE  SumFunctionOnSet(f, S) = f[Chosen(S)] + SumFunctionOnSet(f, Others(S))
<1>1. Totals(f, S)[S] = TotalStep(f, Totals(f, S), S)
  BY TotalsUnfold
<1>2. Others(S) \in SUBSET S
  BY DEF Others
<1>3. Totals(f, S)[Others(S)] = Totals(f, Others(S))[Others(S)]
  BY <1>2, TotalsOfPart
<1> QED
  BY <1>1, <1>3, SumIsTotals DEF TotalStep

\* A sum of whole cents is whole cents.
THEOREM SumInt ==
    ASSUME NEW f, NEW S, IsFiniteSet(S), \A x \in S : f[x] \in Int
    PROVE  SumFunctionOnSet(f, S) \in Int
<1> DEFINE G == {T \in SUBSET S : SumFunctionOnSet(f, T) \in Int}
<1>1. ASSUME NEW T \in SUBSET S, \A V \in SUBSET T : V # T => V \in G
      PROVE  T \in G
  <2>1. CASE T = {}
    BY <2>1, SumEmpty
  <2>2. CASE T # {}
    <3>1. IsFiniteSet(T) /\ Chosen(T) \in T /\ Others(T) \in SUBSET T /\ Others(T) # T
      BY <2>2, ChosenIn, FS_Subset DEF Others
    <3> QED
      BY <1>1, <2>2, <3>1, SumUnfold
  <2> QED
    BY <2>1, <2>2
<1>2. S \in G
  <2> HIDE DEF G
  <2> QED
    BY <1>1, StrongSubsetInduction
<1> QED
  BY <1>2

\* Any row can be taken out of the sum, not only the chosen one: the order in which a
\* query returns its rows is of no account.
THEOREM SumRemove ==
    ASSUME NEW f, NEW S, IsFiniteSet(S), \A y \in S : f[y] \in Int, NEW x \in S
    PROVE  SumFunctionOnSet(f, S) = f[x] + SumFunctionOnSet(f, S \ {x})
<1> DEFINE Sum(T) == SumFunctionOnSet(f, T)
           G == {T \in SUBSET S : \A z \in T : Sum(T) = f[z] + Sum(T \ {z})}
<1>1. ASSUME NEW T \in SUBSET S, \A V \in SUBSET T : V # T => V \in G
      PROVE  T \in G
  <2> SUFFICES ASSUME NEW z \in T
               PROVE  Sum(T) = f[z] + Sum(T \ {z})
    OBVIOUS
  <2>0. PICK p \in T : Sum(T) = f[p] + Sum(T \ {p})
    BY ChosenIn, SumUnfold, FS_Subset DEF Others
  <2>1. IsFiniteSet(T)
    BY FS_Subset
  <2>2. Sum(T) = f[p] + Sum(T \ {p})
    BY <2>0
  <2>3. CASE z = p
    BY <2>2, <2>3
  <2>4. CASE z # p
    <3>1. PICK U : U = (T \ {p}) \ {z} /\ U = (T \ {z}) \ {p}
      OBVIOUS
    <3>2. Sum(T \ {p}) = f[z] + Sum(U)
      BY <1>1, <2>1, <2>4, <3>1
    <3>3. Sum(T \ {z}) = f[p] + Sum(U)
      BY <1>1, <2>1, <2>4, <3>1
    <3>4. Sum(U) \in Int /\ f[p] \in Int /\ f[z] \in Int
      BY <2>1, <3>1, SumInt, FS_Subset
    <3> QED
      BY <2>2, <3>2, <3>3, <3>4
  <2> QED
    BY <2>3, <2>4
<1>2. S \in G
  <2> HIDE DEF G
  <2> QED
    BY <1>1, StrongSubsetInduction
<1> QED
  BY <1>2

\* One more row adds its amount.
THEOREM SumAdd ==
    ASSUME NEW f, NEW S, IsFiniteSet(S), NEW x, x \notin S, \A y \in S \cup {x} : f[y] \in Int
    PROVE  SumFunctionOnSet(f, S \cup {x}) = SumFunctionOnSet(f, S) + f[x]
<1>1. IsFiniteSet(S \cup {x}) /\ (S \cup {x}) \ {x} = S
  BY FS_AddElement
<1>2. SumFunctionOnSet(f, S \cup {x}) = f[x] + SumFunctionOnSet(f, S)
  <2>1. SumFunctionOnSet(f, S \cup {x}) = f[x] + SumFunctionOnSet(f, (S \cup {x}) \ {x})
    BY <1>1, SumRemove
  <2> QED
    BY <1>1, <2>1
<1> QED
  BY <1>2, SumInt

\* Only the amounts count: rows that say the same add up to the same.
THEOREM SumSame ==
    ASSUME NEW f, NEW g, NEW S, IsFiniteSet(S), \A x \in S : f[x] = g[x]
    PROVE  SumFunctionOnSet(f, S) = SumFunctionOnSet(g, S)
<1> DEFINE G == {T \in SUBSET S : SumFunctionOnSet(f, T) = SumFunctionOnSet(g, T)}
<1>1. ASSUME NEW T \in SUBSET S, \A V \in SUBSET T : V # T => V \in G
      PROVE  T \in G
  <2>1. CASE T = {}
    BY <2>1, SumEmpty
  <2>2. CASE T # {}
    <3>1. IsFiniteSet(T) /\ Chosen(T) \in T /\ Others(T) \in SUBSET T /\ Others(T) # T
      BY <2>2, ChosenIn, FS_Subset DEF Others
    <3> QED
      BY <1>1, <2>2, <3>1, SumUnfold
  <2> QED
    BY <2>1, <2>2
<1>2. S \in G
  <2> HIDE DEF G
  <2> QED
    BY <1>1, StrongSubsetInduction
<1> QED
  BY <1>2

\* Row by row: a column that is the sum of two adds up to the sum of both.
THEOREM SumPlus ==
    ASSUME NEW f, NEW g, NEW h, NEW S, IsFiniteSet(S),
           \A x \in S : f[x] \in Int /\ g[x] \in Int /\ h[x] = f[x] + g[x]
    PROVE  SumFunctionOnSet(h, S) = SumFunctionOnSet(f, S) + SumFunctionOnSet(g, S)
<1> DEFINE G == {T \in SUBSET S :
                    SumFunctionOnSet(h, T) = SumFunctionOnSet(f, T) + SumFunctionOnSet(g, T)}
<1>1. {} \in G
  BY SumEmpty
<1>2. ASSUME NEW T \in SUBSET S, NEW x \in S, T \in G, x \notin T
      PROVE  T \cup {x} \in G
  <2>1. IsFiniteSet(T) /\ \A y \in T \cup {x} : f[y] \in Int /\ g[y] \in Int /\ h[y] \in Int
    BY FS_Subset
  <2>2. SumFunctionOnSet(f, T \cup {x}) = SumFunctionOnSet(f, T) + f[x]
    BY <1>2, <2>1, SumAdd
  <2>3. SumFunctionOnSet(g, T \cup {x}) = SumFunctionOnSet(g, T) + g[x]
    BY <1>2, <2>1, SumAdd
  <2>4. SumFunctionOnSet(h, T \cup {x}) = SumFunctionOnSet(h, T) + h[x]
    BY <1>2, <2>1, SumAdd
  <2>5. SumFunctionOnSet(f, T) \in Int /\ SumFunctionOnSet(g, T) \in Int
    BY <2>1, SumInt
  <2> QED
    BY <1>2, <2>1, <2>2, <2>3, <2>4, <2>5
<1>3. S \in G
  <2> HIDE DEF G
  <2> QED
    BY <1>1, <1>2, SubsetInduction
<1> QED
  BY <1>3

\* Rows in two heaps: the sum over both is the two sums.
THEOREM SumUnion ==
    ASSUME NEW f, NEW S, NEW U, IsFiniteSet(S), IsFiniteSet(U), S \cap U = {},
           \A x \in S \cup U : f[x] \in Int
    PROVE  SumFunctionOnSet(f, S \cup U) = SumFunctionOnSet(f, S) + SumFunctionOnSet(f, U)
<1> DEFINE G == {T \in SUBSET U :
                    SumFunctionOnSet(f, S \cup T) = SumFunctionOnSet(f, S) + SumFunctionOnSet(f, T)}
<1>0. SumFunctionOnSet(f, S) \in Int
  BY SumInt
<1>1. {} \in G
  <2>1. S \cup {} = S
    OBVIOUS
  <2> QED
    BY <1>0, <2>1, SumEmpty
<1>2. ASSUME NEW T \in SUBSET U, NEW x \in U, T \in G, x \notin T
      PROVE  T \cup {x} \in G
  <2>1. IsFiniteSet(T) /\ IsFiniteSet(S \cup T) /\ x \notin S \cup T
    BY <1>2, FS_Subset, FS_Union
  <2>2. SumFunctionOnSet(f, T \cup {x}) = SumFunctionOnSet(f, T) + f[x]
    BY <1>2, <2>1, SumAdd
  <2>3. SumFunctionOnSet(f, (S \cup T) \cup {x}) = SumFunctionOnSet(f, S \cup T) + f[x]
    BY <1>2, <2>1, SumAdd
  <2>4. (S \cup T) \cup {x} = S \cup (T \cup {x})
    OBVIOUS
  <2>5. SumFunctionOnSet(f, T) \in Int /\ f[x] \in Int
    BY <2>1, SumInt
  <2>6. SumFunctionOnSet(f, S \cup T) = SumFunctionOnSet(f, S) + SumFunctionOnSet(f, T)
    BY <1>2
  <2>7. SumFunctionOnSet(f, S \cup (T \cup {x})) = SumFunctionOnSet(f, S \cup T) + f[x]
    BY <2>3, <2>4
  <2> QED
    BY <1>0, <2>2, <2>5, <2>6, <2>7
<1>3. U \in G
  <2> HIDE DEF G
  <2> QED
    BY <1>1, <1>2, SubsetInduction
<1> QED
  BY <1>3

\* Rows of nothing add nothing.
THEOREM SumZero ==
    ASSUME NEW f, NEW S, IsFiniteSet(S), \A x \in S : f[x] = 0
    PROVE  SumFunctionOnSet(f, S) = 0
<1> DEFINE G == {T \in SUBSET S : SumFunctionOnSet(f, T) = 0}
<1>1. {} \in G
  BY SumEmpty
<1>2. ASSUME NEW T \in SUBSET S, NEW x \in S, T \in G, x \notin T
      PROVE  T \cup {x} \in G
  <2>1. IsFiniteSet(T)
    BY FS_Subset
  <2>2. SumFunctionOnSet(f, T \cup {x}) = SumFunctionOnSet(f, T) + f[x]
    BY <1>2, <2>1, SumAdd
  <2> QED
    BY <1>2, <2>2
<1>3. S \in G
  <2> HIDE DEF G
  <2> QED
    BY <1>1, <1>2, SubsetInduction
<1> QED
  BY <1>3

\* Row by row: a column no larger anywhere has no larger sum.
THEOREM SumAtMost ==
    ASSUME NEW f, NEW g, NEW S, IsFiniteSet(S),
           \A x \in S : f[x] \in Int /\ g[x] \in Int /\ f[x] <= g[x]
    PROVE  SumFunctionOnSet(f, S) <= SumFunctionOnSet(g, S)
<1> DEFINE G == {T \in SUBSET S : SumFunctionOnSet(f, T) <= SumFunctionOnSet(g, T)}
<1>1. {} \in G
  BY SumEmpty
<1>2. ASSUME NEW T \in SUBSET S, NEW x \in S, T \in G, x \notin T
      PROVE  T \cup {x} \in G
  <2>1. IsFiniteSet(T)
    BY FS_Subset
  <2>2. SumFunctionOnSet(f, T \cup {x}) = SumFunctionOnSet(f, T) + f[x]
    BY <1>2, <2>1, SumAdd
  <2>3. SumFunctionOnSet(g, T \cup {x}) = SumFunctionOnSet(g, T) + g[x]
    BY <1>2, <2>1, SumAdd
  <2>4. SumFunctionOnSet(f, T) \in Int /\ SumFunctionOnSet(g, T) \in Int
    BY <2>1, SumInt
  <2> QED
    BY <1>2, <2>2, <2>3, <2>4
<1>3. S \in G
  <2> HIDE DEF G
  <2> QED
    BY <1>1, <1>2, SubsetInduction
<1> QED
  BY <1>3

\* A table that grows by a row, the others left as they are.
THEOREM SumGrow ==
    ASSUME NEW f, NEW g, NEW S, IsFiniteSet(S), NEW x, x \notin S,
           \A y \in S : f[y] \in Int /\ g[y] = f[y],
           g[x] \in Int
    PROVE  SumFunctionOnSet(g, S \cup {x}) = SumFunctionOnSet(f, S) + g[x]
<1>1. SumFunctionOnSet(g, S) = SumFunctionOnSet(f, S)
  BY SumSame
<1>2. SumFunctionOnSet(g, S \cup {x}) = SumFunctionOnSet(g, S) + g[x]
  BY SumAdd
<1> QED
  BY <1>1, <1>2

\* One row says something else: the sum moves by the difference.
THEOREM SumChange ==
    ASSUME NEW f, NEW g, NEW S, IsFiniteSet(S), NEW x \in S,
           \A y \in S : f[y] \in Int,
           \A y \in S \ {x} : g[y] = f[y],
           g[x] \in Int
    PROVE  SumFunctionOnSet(g, S) = SumFunctionOnSet(f, S) + g[x] - f[x]
<1>1. IsFiniteSet(S \ {x}) /\ \A y \in S : g[y] \in Int
  BY FS_Subset
<1>2. SumFunctionOnSet(g, S \ {x}) = SumFunctionOnSet(f, S \ {x})
  BY <1>1, SumSame
<1>3. SumFunctionOnSet(f, S) = f[x] + SumFunctionOnSet(f, S \ {x})
  BY SumRemove
<1>4. SumFunctionOnSet(g, S) = g[x] + SumFunctionOnSet(g, S \ {x})
  BY <1>1, SumRemove
<1>5. SumFunctionOnSet(f, S \ {x}) \in Int
  BY <1>1, SumInt
<1> QED
  BY <1>1, <1>2, <1>3, <1>4, <1>5

\* Rows whose amount is nothing may be left out of the sum.
THEOREM SumRestrict ==
    ASSUME NEW f, NEW g, NEW S, NEW U \in SUBSET S, IsFiniteSet(S),
           \A x \in U : f[x] \in Int /\ g[x] = f[x],
           \A x \in S \ U : g[x] = 0
    PROVE  SumFunctionOnSet(g, S) = SumFunctionOnSet(f, U)
<1>1. IsFiniteSet(U) /\ IsFiniteSet(S \ U) /\ U \cup (S \ U) = S /\ U \cap (S \ U) = {}
  BY FS_Subset
<1>2. SumFunctionOnSet(g, U \cup (S \ U)) = SumFunctionOnSet(g, U) + SumFunctionOnSet(g, S \ U)
  BY <1>1, SumUnion
<1>3. SumFunctionOnSet(g, S \ U) = 0
  BY <1>1, SumZero
<1>4. SumFunctionOnSet(g, U) = SumFunctionOnSet(f, U) /\ SumFunctionOnSet(f, U) \in Int
  BY <1>1, SumSame, SumInt
<1>5. SumFunctionOnSet(g, S) = SumFunctionOnSet(g, U) + SumFunctionOnSet(g, S \ U)
  BY <1>1, <1>2
<1> QED
  BY <1>3, <1>4, <1>5

\* Row by row: a column that is the difference of two adds up to the difference.
THEOREM SumMinus ==
    ASSUME NEW f, NEW g, NEW h, NEW S, IsFiniteSet(S),
           \A x \in S : f[x] \in Int /\ g[x] \in Int /\ h[x] = f[x] - g[x]
    PROVE  SumFunctionOnSet(h, S) = SumFunctionOnSet(f, S) - SumFunctionOnSet(g, S)
<1>1. \A x \in S : h[x] \in Int /\ g[x] \in Int /\ f[x] = h[x] + g[x]
  OBVIOUS
<1>2. SumFunctionOnSet(f, S) = SumFunctionOnSet(h, S) + SumFunctionOnSet(g, S)
  BY <1>1, SumPlus
<1>3. SumFunctionOnSet(h, S) \in Int /\ SumFunctionOnSet(g, S) \in Int
  BY <1>1, SumInt
<1> QED
  BY <1>2, <1>3

\* Amounts none of which is negative have no negative sum, and the other way round.
THEOREM SumSign ==
    ASSUME NEW f, NEW S, IsFiniteSet(S), \A x \in S : f[x] \in Int
    PROVE  /\ (\A x \in S : f[x] >= 0) => SumFunctionOnSet(f, S) >= 0
           /\ (\A x \in S : f[x] <= 0) => SumFunctionOnSet(f, S) <= 0
<1> DEFINE z == [x \in S |-> 0]
<1>1. \A x \in S : z[x] = 0
  OBVIOUS
<1> HIDE DEF z
<1>2. SumFunctionOnSet(z, S) = 0
  BY <1>1, SumZero
<1>3. SumFunctionOnSet(f, S) \in Int
  BY SumInt
<1>4. ASSUME \A x \in S : f[x] >= 0
      PROVE  SumFunctionOnSet(f, S) >= 0
  <2>1. \A x \in S : z[x] \in Int /\ f[x] \in Int /\ z[x] <= f[x]
    BY <1>1, <1>4
  <2>2. SumFunctionOnSet(z, S) <= SumFunctionOnSet(f, S)
    BY <2>1, SumAtMost
  <2> QED
    BY <1>2, <1>3, <2>2
<1>5. ASSUME \A x \in S : f[x] <= 0
      PROVE  SumFunctionOnSet(f, S) <= 0
  <2>1. \A x \in S : f[x] \in Int /\ z[x] \in Int /\ f[x] <= z[x]
    BY <1>1, <1>5
  <2>2. SumFunctionOnSet(f, S) <= SumFunctionOnSet(z, S)
    BY <2>1, SumAtMost
  <2> QED
    BY <1>2, <2>2
<1> QED
  BY <1>4, <1>5

\* GROUP BY: rows added up group by group add up to the rows of all the groups.
THEOREM SumGroups ==
    ASSUME NEW f, NEW h, NEW P, IsFiniteSet(P), \A p \in P : f[p] \in Int,
           NEW I, IsFiniteSet(I),
           NEW group, \A i \in I : group[i] \in SUBSET P,
           \A i \in I, p \in P : p \in group[i] <=> h[p] = i,
           NEW g, \A i \in I : g[i] = SumFunctionOnSet(f, group[i]),
           NEW all \in SUBSET P, \A p \in P : p \in all <=> h[p] \in I
    PROVE  SumFunctionOnSet(g, I) = SumFunctionOnSet(f, all)
<1> DEFINE Group(T) == {p \in P : h[p] \in T}
           G == {T \in SUBSET I : SumFunctionOnSet(g, T) = SumFunctionOnSet(f, Group(T))}
<1>1. {} \in G
  <2>1. Group({}) = {}
    OBVIOUS
  <2> QED
    BY <2>1, SumEmpty
<1>2. \A i \in I : IsFiniteSet(group[i]) /\ g[i] \in Int
  <2> SUFFICES ASSUME NEW i \in I
               PROVE  IsFiniteSet(group[i]) /\ g[i] \in Int
    OBVIOUS
  <2>1. IsFiniteSet(group[i]) /\ \A p \in group[i] : f[p] \in Int
    BY FS_Subset
  <2> QED
    BY <2>1, SumInt
<1>3. ASSUME NEW T \in SUBSET I, NEW x \in I, T \in G, x \notin T
      PROVE  T \cup {x} \in G
  <2>1. PICK A : A = Group(T)
    OBVIOUS
  <2>2. IsFiniteSet(A) /\ IsFiniteSet(group[x]) /\ \A p \in A \cup group[x] : f[p] \in Int
    BY <1>2, <2>1, FS_Subset
  <2>3. A \cap group[x] = {} /\ Group(T \cup {x}) = A \cup group[x]
    BY <1>3, <2>1
  <2>4. SumFunctionOnSet(f, A \cup group[x])
          = SumFunctionOnSet(f, A) + SumFunctionOnSet(f, group[x])
    BY <2>2, <2>3, SumUnion
  <2>5. IsFiniteSet(T) /\ \A y \in T \cup {x} : g[y] \in Int
    BY <1>2, FS_Subset
  <2>6. SumFunctionOnSet(g, T \cup {x}) = SumFunctionOnSet(g, T) + g[x]
    BY <1>3, <2>5, SumAdd
  <2>7. SumFunctionOnSet(g, T) = SumFunctionOnSet(f, A)
    BY <1>3, <2>1
  <2>8. SumFunctionOnSet(g, T \cup {x}) = SumFunctionOnSet(f, Group(T \cup {x}))
    BY <2>3, <2>4, <2>6, <2>7
  <2> QED
    BY <2>8
<1>4. I \in G
  <2> HIDE DEF G
  <2>1. \A T \in SUBSET I, x \in I : T \in G /\ x \notin T => T \cup {x} \in G
    BY <1>3
  <2>2. \A T \in SUBSET I : T \in G
    BY <1>1, <2>1, SubsetInduction
  <2> QED
    BY <2>2
<1>5. Group(I) = all
  OBVIOUS
<1> QED
  BY <1>4, <1>5

\* One row is the whole sum.
THEOREM SumOne ==
    ASSUME NEW f, NEW x, f[x] \in Int
    PROVE  SumFunctionOnSet(f, {x}) = f[x]
<1>1. IsFiniteSet({}) /\ x \notin {} /\ {} \cup {x} = {x}
  BY FS_EmptySet
<1>2. SumFunctionOnSet(f, {} \cup {x}) = SumFunctionOnSet(f, {}) + f[x]
  BY <1>1, SumAdd
<1> QED
  BY <1>1, <1>2, SumEmpty

\* The same amounts with the other sign.
THEOREM SumNegated ==
    ASSUME NEW f, NEW g, NEW S, IsFiniteSet(S), \A x \in S : f[x] \in Int /\ g[x] = -f[x]
    PROVE  SumFunctionOnSet(g, S) = -SumFunctionOnSet(f, S)
<1> DEFINE z == [x \in S |-> 0]
<1>1. \A x \in S : z[x] = 0
  OBVIOUS
<1> HIDE DEF z
<1>2. \A x \in S : f[x] \in Int /\ g[x] \in Int /\ z[x] = f[x] + g[x]
  BY <1>1
<1>3. SumFunctionOnSet(z, S) = 0
  BY <1>1, SumZero
<1>4. SumFunctionOnSet(z, S) = SumFunctionOnSet(f, S) + SumFunctionOnSet(g, S)
  BY <1>2, SumPlus
<1>5. SumFunctionOnSet(f, S) \in Int /\ SumFunctionOnSet(g, S) \in Int
  BY <1>2, SumInt
<1> QED
  BY <1>3, <1>4, <1>5

\* Rows under other names: a renumbering changes no sum.
THEOREM SumRenamed ==
    ASSUME NEW f, NEW g, NEW S, IsFiniteSet(S), NEW U, IsFiniteSet(U), NEW h,
           \A x \in S : h[x] \in U,
           \A x, y \in S : h[x] = h[y] => x = y,
           \A u \in U : \E x \in S : h[x] = u,
           \A x \in S : g[x] \in Int /\ g[x] = f[h[x]]
    PROVE  SumFunctionOnSet(g, S) = SumFunctionOnSet(f, U)
<1> DEFINE group == [u \in U |-> {x \in S : h[x] = u}]
<1>1. /\ \A u \in U : group[u] \in SUBSET S
      /\ \A u \in U, x \in S : x \in group[u] <=> h[x] = u
  OBVIOUS
<1>2. ASSUME NEW u \in U
      PROVE  f[u] = SumFunctionOnSet(g, group[u])
  <2>1. PICK x \in S : h[x] = u
    OBVIOUS
  <2>2. group[u] = {x}
    BY <2>1
  <2>3. g[x] \in Int /\ g[x] = f[u]
    BY <2>1
  <2>4. SumFunctionOnSet(g, {x}) = g[x]
    BY <2>3, SumOne
  <2> QED
    BY <2>2, <2>3, <2>4
<1>3. S \in SUBSET S /\ \A x \in S : x \in S <=> h[x] \in U
  OBVIOUS
<1> HIDE DEF group
<1> QED
  BY <1>1, <1>2, <1>3, SumGroups

\* Every row but the kept ones has a twin with the other sign: only the kept ones count.
THEOREM SumCancels ==
    ASSUME NEW f, NEW S, IsFiniteSet(S), NEW Kept \in SUBSET S, NEW twin,
           \A x \in S : f[x] \in Int,
           \A x \in S \ Kept : /\ twin[x] \in S \ Kept
                               /\ twin[twin[x]] = x
                               /\ f[twin[x]] = -f[x]
    PROVE  SumFunctionOnSet(f, S) = SumFunctionOnSet(f, Kept)
<1> DEFINE Gone == S \ Kept
           g == [x \in Gone |-> f[twin[x]]]
<1>1. IsFiniteSet(Kept) /\ IsFiniteSet(Gone) /\ S = Kept \cup Gone /\ Kept \cap Gone = {}
  BY FS_Subset
<1>2. \A x \in Gone : f[x] \in Int /\ g[x] = -f[x] /\ g[x] \in Int /\ g[x] = f[twin[x]]
  OBVIOUS
<1>3. /\ \A x \in Gone : twin[x] \in Gone
      /\ \A x, y \in Gone : twin[x] = twin[y] => x = y
      /\ \A u \in Gone : \E x \in Gone : twin[x] = u
  OBVIOUS
<1> HIDE DEF g, Gone
<1>4. SumFunctionOnSet(g, Gone) = -SumFunctionOnSet(f, Gone)
  BY <1>1, <1>2, SumNegated
<1>5. SumFunctionOnSet(g, Gone) = SumFunctionOnSet(f, Gone)
  BY <1>1, <1>2, <1>3, SumRenamed
<1>6. SumFunctionOnSet(f, Gone) \in Int /\ SumFunctionOnSet(f, Kept) \in Int
  BY <1>1, <1>2, SumInt
<1>7. SumFunctionOnSet(f, Gone) = 0
  BY <1>4, <1>5, <1>6
<1>8. SumFunctionOnSet(f, Kept \cup Gone) = SumFunctionOnSet(f, Kept) + SumFunctionOnSet(f, Gone)
  BY <1>1, SumUnion
<1> QED
  BY <1>1, <1>6, <1>7, <1>8

\* COUNT is the sum of ones.
THEOREM SumCounts ==
    ASSUME NEW f, NEW S, IsFiniteSet(S), \A x \in S : f[x] = 1
    PROVE  SumFunctionOnSet(f, S) = Cardinality(S)
<1> DEFINE G == {T \in SUBSET S : SumFunctionOnSet(f, T) = Cardinality(T)}
<1>1. {} \in G
  BY SumEmpty, FS_EmptySet
<1>2. ASSUME NEW T \in SUBSET S, NEW x \in S, T \in G, x \notin T
      PROVE  T \cup {x} \in G
  <2>1. IsFiniteSet(T)
    BY FS_Subset
  <2>2. SumFunctionOnSet(f, T \cup {x}) = SumFunctionOnSet(f, T) + f[x]
    BY <1>2, <2>1, SumAdd
  <2>3. Cardinality(T \cup {x}) = Cardinality(T) + 1
    BY <1>2, <2>1, FS_AddElement
  <2> QED
    BY <1>2, <2>2, <2>3
<1>3. S \in G
  <2> HIDE DEF G
  <2>1. \A T \in SUBSET S, x \in S : T \in G /\ x \notin T => T \cup {x} \in G
    BY <1>2
  <2>2. \A T \in SUBSET S : T \in G
    BY <1>1, <2>1, SubsetInduction
  <2> QED
    BY <2>2
<1> QED
  BY <1>3

----------------------------------------------------------------------------
(* Rows appended to a table, which is how every service writes. *)

\* The rows of a table are finitely many, one more after an insert, and the ones
\* before it read as they did.
THEOREM RowsAppended ==
    ASSUME NEW R, NEW q \in Seq(R), NEW e
    PROVE  /\ DOMAIN q = 1 .. Len(q) /\ Len(q) \in Nat /\ IsFiniteSet(DOMAIN q)
           /\ DOMAIN Append(q, e) = DOMAIN q \cup {Len(q) + 1}
           /\ Len(q) + 1 \notin DOMAIN q
           /\ Len(Append(q, e)) = Len(q) + 1
           /\ \A i \in DOMAIN q : Append(q, e)[i] = q[i]
           /\ Append(q, e)[Len(q) + 1] = e
<1>1. DOMAIN q = 1 .. Len(q) /\ Len(q) \in Nat
  OBVIOUS
<1>2. IsFiniteSet(1 .. Len(q))
  BY <1>1, FS_Interval
<1>3. DOMAIN Append(q, e) = 1 .. (Len(q) + 1) /\ Len(Append(q, e)) = Len(q) + 1
  BY <1>1
<1>4. 1 .. (Len(q) + 1) = (1 .. Len(q)) \cup {Len(q) + 1} /\ Len(q) + 1 \notin 1 .. Len(q)
  BY <1>1
<1>5. \A i \in 1 .. Len(q) : Append(q, e)[i] = q[i]
  BY <1>1
<1>6. Append(q, e)[Len(q) + 1] = e
  BY <1>1
<1> QED
  BY <1>1, <1>2, <1>3, <1>4, <1>5, <1>6

\* A table that grows by a row has its sum grown by what the row says.
THEOREM SumAppend ==
    ASSUME NEW R, NEW q \in Seq(R), NEW e, NEW f, NEW g,
           \A i \in DOMAIN q : f[i] \in Int /\ g[i] = f[i],
           g[Len(q) + 1] \in Int
    PROVE  SumFunctionOnSet(g, DOMAIN Append(q, e))
               = SumFunctionOnSet(f, DOMAIN q) + g[Len(q) + 1]
BY RowsAppended, SumGrow

----------------------------------------------------------------------------
(* The largest and the smallest. *)

\* A list that is not empty has a last number: MAX and ORDER BY id DESC LIMIT 1.
THEOREM MaxIn ==
    ASSUME NEW S, IsFiniteSet(S), S # {}, \A x \in S : x \in Int
    PROVE  Max(S) \in S /\ \A y \in S : y <= Max(S)
<1> DEFINE G == {T \in SUBSET S : T # {} => \E x \in T : \A y \in T : x >= y}
<1>1. {} \in G
  OBVIOUS
<1>2. ASSUME NEW T \in SUBSET S, NEW x \in S, T \in G, x \notin T
      PROVE  T \cup {x} \in G
  <2>1. CASE T = {}
    BY <2>1
  <2>2. CASE T # {}
    <3>1. PICK z \in T : \A y \in T : z >= y
      BY <1>2, <2>2
    <3>2. x \in Int /\ z \in Int /\ \A y \in T : y \in Int
      OBVIOUS
    <3>3. CASE z >= x
      <4>1. \A y \in T \cup {x} : z >= y
        BY <3>1, <3>3
      <4> QED
        BY <4>1
    <3>4. CASE ~(z >= x)
      <4>1. \A y \in T \cup {x} : x >= y
        BY <3>1, <3>2, <3>4
      <4> QED
        BY <4>1
    <3> QED
      BY <3>3, <3>4
  <2> QED
    BY <2>1, <2>2
<1>3. S \in G
  <2> HIDE DEF G
  <2>1. \A T \in SUBSET S, x \in S : T \in G /\ x \notin T => T \cup {x} \in G
    BY <1>2
  <2>2. \A T \in SUBSET S : T \in G
    BY <1>1, <2>1, SubsetInduction
  <2> QED
    BY <2>2
<1>4. \E x \in S : \A y \in S : x >= y
  BY <1>3
<1>5. Max(S) \in S /\ \A y \in S : Max(S) >= y
  BY <1>4 DEF Max
<1> QED
  BY <1>5

\* And a first one: ORDER BY id LIMIT 1.
THEOREM MinIn ==
    ASSUME NEW S, IsFiniteSet(S), S # {}, \A x \in S : x \in Int
    PROVE  Min(S) \in S /\ \A y \in S : Min(S) <= y
<1> DEFINE G == {T \in SUBSET S : T # {} => \E x \in T : \A y \in T : x <= y}
<1>1. {} \in G
  OBVIOUS
<1>2. ASSUME NEW T \in SUBSET S, NEW x \in S, T \in G, x \notin T
      PROVE  T \cup {x} \in G
  <2>1. CASE T = {}
    BY <2>1
  <2>2. CASE T # {}
    <3>1. PICK z \in T : \A y \in T : z <= y
      BY <1>2, <2>2
    <3>2. x \in Int /\ z \in Int /\ \A y \in T : y \in Int
      OBVIOUS
    <3>3. CASE z <= x
      <4>1. \A y \in T \cup {x} : z <= y
        BY <3>1, <3>3
      <4> QED
        BY <4>1
    <3>4. CASE ~(z <= x)
      <4>1. \A y \in T \cup {x} : x <= y
        BY <3>1, <3>2, <3>4
      <4> QED
        BY <4>1
    <3> QED
      BY <3>3, <3>4
  <2> QED
    BY <2>1, <2>2
<1>3. S \in G
  <2> HIDE DEF G
  <2>1. \A T \in SUBSET S, x \in S : T \in G /\ x \notin T => T \cup {x} \in G
    BY <1>2
  <2>2. \A T \in SUBSET S : T \in G
    BY <1>1, <2>1, SubsetInduction
  <2> QED
    BY <2>2
<1>4. \E x \in S : \A y \in S : x <= y
  BY <1>3
<1> QED
  BY <1>4 DEF Min

\* Of any numbers that are not negative there is a smallest one.
THEOREM LeastIn ==
    ASSUME NEW S, S # {}, \A x \in S : x \in Nat
    PROVE  Min(S) \in S
<1>1. PICK n \in S : TRUE
  OBVIOUS
<1> DEFINE T == {x \in S : x <= n}
<1>2. IsFiniteSet(T)
  <2>1. T \subseteq 0 .. n /\ IsFiniteSet(0 .. n)
    BY FS_Interval
  <2> QED
    BY <2>1, FS_Subset
<1>3. T # {} /\ \A x \in T : x \in Int
  BY <1>1
<1>4. Min(T) \in T /\ \A y \in T : Min(T) <= y
  <2> HIDE DEF T
  <2> QED
    BY <1>2, <1>3, MinIn
<1>5. PICK x \in S : x = Min(T)
  BY <1>4
<1>6. \A y \in S : x <= y
  <2> TAKE y \in S
  <2>1. CASE y <= n
    BY <2>1, <1>4, <1>5
  <2>2. CASE ~(y <= n)
    BY <2>2, <1>1, <1>4, <1>5
  <2> QED
    BY <2>1, <2>2
<1> QED
  BY <1>6 DEF Min
=============================================================================
