------------------------------ MODULE SumLemmas ------------------------------
(***************************************************************************)
(* What MapThenSumSet of FiniteSetsExt computes.  The models add up sizes  *)
(* with it: the files of an owner (DriveTree!Bytes), the sessions that     *)
(* hold a reservation and the chunks received (UploadSession).             *)
(*                                                                         *)
(* The operator takes the elements of a set in the order that CHOOSE picks *)
(* them, with a function on the subsets that is defined by recursion.  The *)
(* lemmas show that this function exists and is unique on a finite set,    *)
(* that the order does not matter, and how a sum changes with its set.     *)
(* Every induction is a proof by contradiction that takes a smallest       *)
(* counterexample (MinimalSet).                                            *)
(***************************************************************************)
EXTENDS Integers, FiniteSets, FiniteSetsExt, FiniteSetTheorems, WellFoundedInduction, TLAPS

\* The element of S that the sum takes first.
Pick(S) == CHOOSE x \in S : TRUE

\* g computes the sums of w over the subsets of S.
SumsUp(g, w, S) ==
    g = [T \in SUBSET S |-> IF T = {} THEN 0 ELSE w[Pick(T)] + g[T \ {Pick(T)}]]

Sum(w, S) == (CHOOSE g : SumsUp(g, w, S))[S]

\* The sums that the models write.
LEMMA MapThenSum ==
    ASSUME NEW w, NEW S
    PROVE  MapThenSumSet(LAMBDA x : w[x], S) = Sum(w, S)
BY DEF MapThenSumSet, MapThenFoldSet, Sum, SumsUp, Pick

\* A family of subsets of a finite set has a member with no smaller member.
LEMMA MinimalSet ==
    ASSUME NEW S, IsFiniteSet(S), NEW C, C \subseteq SUBSET S, C # {}
    PROVE  \E T \in C : \A U \in C : U \subseteq T => U = T
<1>1. IsWellFoundedOn(StrictSubsetOrdering(S), SUBSET S)
    BY FS_StrictSubsetOrderingWellFounded, FS_FiniteSubsetsOfFinite
<1>2. PICK T \in C : \A U \in C : <<U, T>> \notin StrictSubsetOrdering(S)
    BY <1>1, WFMin
<1>3. ASSUME NEW U \in C, U \subseteq T PROVE U = T
    BY <1>2, <1>3 DEF StrictSubsetOrdering
<1> QED BY <1>3

\* CHOOSE picks a member.
LEMMA PickIn == \A S : S # {} => Pick(S) \in S
BY DEF Pick

\* At most one function computes the sums.
LEMMA SumsUnique ==
    ASSUME NEW w, NEW S, IsFiniteSet(S), NEW g, NEW h, SumsUp(g, w, S), SumsUp(h, w, S)
    PROVE  g = h
<1> DEFINE C == {T \in SUBSET S : g[T] # h[T]}
<1>1. C = {}
    <2> SUFFICES ASSUME C # {} PROVE FALSE
        OBVIOUS
    <2>1. PICK T \in C : \A U \in C : U \subseteq T => U = T
        <3>1. C \subseteq SUBSET S
            OBVIOUS
        <3> HIDE DEF C
        <3> QED BY <3>1, MinimalSet
    <2>2. /\ g[T] = IF T = {} THEN 0 ELSE w[Pick(T)] + g[T \ {Pick(T)}]
          /\ h[T] = IF T = {} THEN 0 ELSE w[Pick(T)] + h[T \ {Pick(T)}]
        BY DEF SumsUp
    <2>3. T # {}
        BY <2>2
    <2>4. T \ {Pick(T)} \notin C
        BY <2>1, <2>3, PickIn
    <2>5. g[T \ {Pick(T)}] = h[T \ {Pick(T)}]
        BY <2>4
    <2> QED BY <2>2, <2>5
<1>2. \A T \in SUBSET S : g[T] = h[T]
    BY <1>1
<1>3. /\ g = [T \in SUBSET S |-> g[T]]
      /\ h = [T \in SUBSET S |-> h[T]]
    BY DEF SumsUp
<1> QED BY <1>2, <1>3

\* The equation by which the operator is defined.
LEMMA SumPick ==
    ASSUME NEW w, NEW S, IsFiniteSet(S)
    PROVE  Sum(w, S) = IF S = {} THEN 0 ELSE w[Pick(S)] + Sum(w, S \ {Pick(S)})
<1> DEFINE Eq(T) == Sum(w, T) = IF T = {} THEN 0 ELSE w[Pick(T)] + Sum(w, T \ {Pick(T)})
           C == {T \in SUBSET S : ~Eq(T)}
<1>1. C = {}
    <2> SUFFICES ASSUME C # {} PROVE FALSE
        OBVIOUS
    <2>1. PICK T \in C : \A U \in C : U \subseteq T => U = T
        <3>1. C \subseteq SUBSET S
            OBVIOUS
        <3> HIDE DEF C
        <3> QED BY <3>1, MinimalSet
    <2> DEFINE g == [U \in SUBSET T |-> IF U = {} THEN 0 ELSE w[Pick(U)] + Sum(w, U \ {Pick(U)})]
    <2>2. \A U \in SUBSET T : U # T => g[U] = Sum(w, U)
        <3> SUFFICES ASSUME NEW U \in SUBSET T, U # T PROVE g[U] = Sum(w, U)
            OBVIOUS
        <3>1. U \notin C
            BY <2>1
        <3> QED BY <3>1
    <2>3. \A U \in SUBSET T : U # {} => g[U \ {Pick(U)}] = Sum(w, U \ {Pick(U)})
        <3> SUFFICES ASSUME NEW U \in SUBSET T, U # {}
                     PROVE  g[U \ {Pick(U)}] = Sum(w, U \ {Pick(U)})
            OBVIOUS
        <3>1. U \ {Pick(U)} \in SUBSET T /\ U \ {Pick(U)} # T
            BY PickIn
        <3> HIDE DEF g
        <3> QED BY <3>1, <2>2
    <2>4. SumsUp(g, w, T)
        <3>1. \A U \in SUBSET T : g[U] = IF U = {} THEN 0 ELSE w[Pick(U)] + g[U \ {Pick(U)}]
            <4> SUFFICES ASSUME NEW U \in SUBSET T
                         PROVE  g[U] = IF U = {} THEN 0 ELSE w[Pick(U)] + g[U \ {Pick(U)}]
                OBVIOUS
            <4>1. g[U] = IF U = {} THEN 0 ELSE w[Pick(U)] + Sum(w, U \ {Pick(U)})
                OBVIOUS
            <4> HIDE DEF g
            <4> QED BY <4>1, <2>3
        <3>2. g = [U \in SUBSET T |-> g[U]]
            OBVIOUS
        <3> HIDE DEF g
        <3> QED BY <3>1, <3>2, Zenon DEF SumsUp
    <2> HIDE DEF g
    <2> DEFINE k == CHOOSE f : SumsUp(f, w, T)
    <2>5. SumsUp(k, w, T)
        BY <2>4
    <2>6. IsFiniteSet(T)
        BY FS_Subset
    <2>7. k = g
        <3> HIDE DEF k
        <3> QED BY <2>4, <2>5, <2>6, SumsUnique
    <2>8. Sum(w, T) = g[T]
        BY <2>7 DEF Sum
    <2>9. g[T] = IF T = {} THEN 0 ELSE w[Pick(T)] + Sum(w, T \ {Pick(T)})
        BY DEF g
    <2> QED BY <2>8, <2>9
<1> QED BY <1>1

-----------------------------------------------------------------------------
\* The empty sum.
LEMMA SumEmpty == \A w : Sum(w, {}) = 0
BY SumPick, FS_EmptySet

\* A sum of natural numbers is one.
LEMMA SumNat ==
    ASSUME NEW S, IsFiniteSet(S), NEW w, \A x \in S : w[x] \in Nat
    PROVE  Sum(w, S) \in Nat
<1> DEFINE C == {T \in SUBSET S : Sum(w, T) \notin Nat}
<1> SUFFICES ASSUME C # {} PROVE FALSE
    OBVIOUS
<1>1. PICK T \in C : \A U \in C : U \subseteq T => U = T
    <2>1. C \subseteq SUBSET S
        OBVIOUS
    <2> HIDE DEF C
    <2> QED BY <2>1, MinimalSet
<1>2. IsFiniteSet(T)
    BY FS_Subset
<1>3. Sum(w, T) = IF T = {} THEN 0 ELSE w[Pick(T)] + Sum(w, T \ {Pick(T)})
    BY <1>2, SumPick
<1>4. T # {}
    BY <1>3
<1>5. Pick(T) \in T
    BY <1>4, PickIn
<1>6. Sum(w, T \ {Pick(T)}) \in Nat
    BY <1>1, <1>5
<1> QED BY <1>3, <1>4, <1>5, <1>6

\* Any element may be taken first.
LEMMA SumElement ==
    ASSUME NEW S, IsFiniteSet(S), NEW w, \A x \in S : w[x] \in Nat, NEW x \in S
    PROVE  Sum(w, S) = w[x] + Sum(w, S \ {x})
<1> DEFINE C == {T \in SUBSET S : \E y \in T : Sum(w, T) # w[y] + Sum(w, T \ {y})}
<1> SUFFICES ASSUME C # {} PROVE FALSE
    OBVIOUS
<1>1. PICK T \in C : \A U \in C : U \subseteq T => U = T
    <2>1. C \subseteq SUBSET S
        OBVIOUS
    <2> HIDE DEF C
    <2> QED BY <2>1, MinimalSet
<1>2. PICK y \in T : Sum(w, T) # w[y] + Sum(w, T \ {y})
    OBVIOUS
<1>3. \A U \in SUBSET S : IsFiniteSet(U) /\ Sum(w, U) \in Nat
    BY FS_Subset, SumNat
<1>4. PICK p \in T : Sum(w, T) = w[p] + Sum(w, T \ {p})
    <2>1. Sum(w, T) = w[Pick(T)] + Sum(w, T \ {Pick(T)})
        BY <1>3, SumPick
    <2> QED BY <2>1, PickIn
<1>5. p # y
    BY <1>2, <1>4
<1>6. T \ {p} \notin C /\ T \ {y} \notin C
    BY <1>1
<1>7. (T \ {p}) \ {y} = (T \ {y}) \ {p}
    OBVIOUS
<1>8. Sum(w, T \ {p}) = w[y] + Sum(w, (T \ {y}) \ {p})
    BY <1>5, <1>6, <1>7
<1>9. Sum(w, T \ {y}) = w[p] + Sum(w, (T \ {y}) \ {p})
    BY <1>5, <1>6
<1>10. w[p] \in Nat /\ w[y] \in Nat /\ Sum(w, (T \ {y}) \ {p}) \in Nat
    BY <1>3
<1> HIDE DEF C
<1> QED BY <1>2, <1>4, <1>8, <1>9, <1>10

\* Two disjoint sets.
LEMMA SumUnion ==
    ASSUME NEW A, NEW B, IsFiniteSet(A), IsFiniteSet(B), A \cap B = {},
           NEW w, \A x \in A \cup B : w[x] \in Nat
    PROVE  Sum(w, A \cup B) = Sum(w, A) + Sum(w, B)
<1> DEFINE C == {T \in SUBSET B : Sum(w, A \cup T) # Sum(w, A) + Sum(w, T)}
<1> SUFFICES ASSUME C # {} PROVE FALSE
    OBVIOUS
<1>1. PICK T \in C : \A U \in C : U \subseteq T => U = T
    <2>1. C \subseteq SUBSET B
        OBVIOUS
    <2> HIDE DEF C
    <2> QED BY <2>1, MinimalSet
<1>2. \A U \in SUBSET (A \cup B) : IsFiniteSet(U) /\ Sum(w, U) \in Nat
    BY FS_Subset, FS_Union, SumNat
<1>3. T # {}
    <2>1. A \cup {} = A /\ Sum(w, A) \in Nat
        BY <1>2
    <2>2. {} \notin C
        BY <2>1, SumEmpty
    <2> QED BY <2>2
<1>4. PICK p \in T : TRUE
    BY <1>3
<1>5. T \ {p} \notin C
    BY <1>1, <1>4
<1>6. Sum(w, A \cup (T \ {p})) = Sum(w, A) + Sum(w, T \ {p})
    BY <1>5
<1>7. Sum(w, T) = w[p] + Sum(w, T \ {p})
    BY <1>2, SumElement
<1>8. Sum(w, A \cup T) = w[p] + Sum(w, (A \cup T) \ {p})
    BY <1>2, SumElement
<1>9. (A \cup T) \ {p} = A \cup (T \ {p})
    OBVIOUS
<1>10. w[p] \in Nat /\ Sum(w, A) \in Nat /\ Sum(w, T \ {p}) \in Nat
    BY <1>2
<1>11. Sum(w, A \cup T) # Sum(w, A) + Sum(w, T)
    OBVIOUS
<1> HIDE DEF C
<1> QED BY <1>6, <1>7, <1>8, <1>9, <1>10, <1>11

\* A part of a set: what is left and what is taken away.
LEMMA SumSubset ==
    ASSUME NEW S, IsFiniteSet(S), NEW T \in SUBSET S, NEW w, \A x \in S : w[x] \in Nat
    PROVE  /\ Sum(w, S) = Sum(w, S \ T) + Sum(w, T)
           /\ Sum(w, T) <= Sum(w, S)
<1>1. IsFiniteSet(T) /\ IsFiniteSet(S \ T)
    BY FS_Subset
<1>2. Sum(w, T) \in Nat /\ Sum(w, S \ T) \in Nat
    BY <1>1, SumNat
<1>3. (S \ T) \cup T = S /\ (S \ T) \cap T = {}
    OBVIOUS
<1>4. Sum(w, S) = Sum(w, S \ T) + Sum(w, T)
    BY <1>1, <1>3, SumUnion
<1> QED BY <1>2, <1>4

\* A sum depends on the weights of its own elements only, and grows with them.
LEMMA SumMonotone ==
    ASSUME NEW S, IsFiniteSet(S), NEW v, NEW w,
           \A x \in S : v[x] \in Nat /\ w[x] \in Nat /\ v[x] <= w[x]
    PROVE  Sum(v, S) <= Sum(w, S)
<1> DEFINE C == {T \in SUBSET S : ~(Sum(v, T) <= Sum(w, T))}
<1> SUFFICES ASSUME C # {} PROVE FALSE
    OBVIOUS
<1>1. PICK T \in C : \A U \in C : U \subseteq T => U = T
    <2>1. C \subseteq SUBSET S
        OBVIOUS
    <2> HIDE DEF C
    <2> QED BY <2>1, MinimalSet
<1>2. \A U \in SUBSET S : IsFiniteSet(U) /\ Sum(v, U) \in Nat /\ Sum(w, U) \in Nat
    BY FS_Subset, SumNat
<1>3. T # {}
    BY <1>2, SumEmpty
<1>4. PICK p \in T : TRUE
    BY <1>3
<1>5. T \ {p} \notin C
    BY <1>1, <1>4
<1>6. Sum(v, T \ {p}) <= Sum(w, T \ {p})
    BY <1>5
<1>7. Sum(v, T) = v[p] + Sum(v, T \ {p}) /\ Sum(w, T) = w[p] + Sum(w, T \ {p})
    BY <1>2, SumElement
<1>8. ~(Sum(v, T) <= Sum(w, T))
    OBVIOUS
<1>9. Sum(v, T \ {p}) \in Nat /\ Sum(w, T \ {p}) \in Nat /\ v[p] \in Nat /\ w[p] \in Nat /\ v[p] <= w[p]
    BY <1>2
<1> HIDE DEF C
<1> QED BY <1>6, <1>7, <1>8, <1>9

\* Equal weights, equal sums.
LEMMA SumSame ==
    ASSUME NEW S, IsFiniteSet(S), NEW v, NEW w, \A x \in S : v[x] \in Nat /\ v[x] = w[x]
    PROVE  Sum(v, S) = Sum(w, S)
<1>1. Sum(v, S) <= Sum(w, S) /\ Sum(w, S) <= Sum(v, S)
    BY SumMonotone
<1>2. Sum(v, S) \in Nat /\ Sum(w, S) \in Nat
    BY SumNat
<1> QED BY <1>1, <1>2

\* A sum after one weight is set, of an element of the set or of a new one.
LEMMA SumUpdate ==
    ASSUME NEW S, IsFiniteSet(S), NEW w, \A x \in S : w[x] \in Nat, NEW i, NEW v,
           v[i] \in Nat, \A x \in S \ {i} : v[x] = w[x]
    PROVE  Sum(v, S \cup {i}) + (IF i \in S THEN w[i] ELSE 0) = Sum(w, S) + v[i]
<1> DEFINE R == S \ {i}
<1>1. IsFiniteSet(S \cup {i}) /\ IsFiniteSet(R)
    BY FS_AddElement, FS_Subset
<1>2. (S \cup {i}) \ {i} = R /\ \A x \in S \cup {i} : v[x] \in Nat
    OBVIOUS
<1>3. Sum(v, S \cup {i}) = v[i] + Sum(v, R)
    BY <1>1, <1>2, SumElement
<1>4. Sum(v, R) = Sum(w, R) /\ Sum(w, R) \in Nat
    BY <1>1, SumSame, SumNat
<1>5. CASE i \in S
    <2>1. Sum(w, S) = w[i] + Sum(w, R)
        BY <1>5, SumElement
    <2> QED
        BY <1>3, <1>4, <1>5, <2>1
<1>6. CASE i \notin S
    <2>1. R = S
        BY <1>6
    <2>2. Sum(v, S \cup {i}) = v[i] + Sum(w, S) /\ Sum(w, S) \in Nat
        BY <1>3, <1>4, <2>1
    <2> QED
        BY <1>6, <2>2
<1> QED
    BY <1>5, <1>6
=============================================================================
