--------------------------- MODULE RequestProofs ----------------------------
(***************************************************************************)
(* Proofs about the parts of Request: for any starts of a gateway, any      *)
(* answers in any chunks, any saves, edits and deletes of checkpoints, any  *)
(* profiles and what becomes of their migration, any filter and text, any   *)
(* turns of a conversation and any usage rows and queries.  Each part has   *)
(* an invariant of its own, which the steps of the other parts leave alone. *)
(*                                                                          *)
(* Sums, rewritten lines and chosen subsequences are defined by recursion   *)
(* over data.  What is said of them for every input is proved by a smallest *)
(* counterexample: a set of numbers, or of subsets of a finite set, with    *)
(* the first and with each one next to those in it has all.                 *)
(***************************************************************************)
EXTENDS Request, FiniteSetTheorems, SequenceTheorems, WellFoundedInduction, TLAPS

(***************************************************************************)
(* Induction, over sets of numbers and of finite sets: what holds of none   *)
(* that is smallest among those it does not hold of holds of all.           *)
(***************************************************************************)
LEMMA Least ==
  ASSUME NEW S \in SUBSET Nat, S # {}
  PROVE \E m \in S : \A k \in S : m <= k
<1>1. IsWellFoundedOn(OpToRel(<, Nat), Nat) BY NatLessThanWellFounded
<1>2. PICK m \in S : \A k \in S : ~(<<k, m>> \in OpToRel(<, Nat)) BY <1>1, WFMin
<1>3. ASSUME NEW k \in S PROVE m <= k
  <2>1. <<k, m>> \notin OpToRel(<, Nat) BY <1>2
  <2>2. ~(k < m) BY <2>1 DEF OpToRel
  <2> QED BY <2>2
<1> QED BY <1>3

LEMMA AllNumbers ==
  ASSUME NEW S \in SUBSET Nat, 0 \in S, \A n \in S : n + 1 \in S
  PROVE S = Nat
<1> SUFFICES ASSUME Nat \ S # {} PROVE FALSE
  OBVIOUS
<1>1. PICK m \in Nat \ S : \A k \in Nat \ S : m <= k BY Least
<1>2. m - 1 \in Nat /\ m - 1 \in S BY <1>1
<1> QED BY <1>2, (m - 1) + 1 = m

LEMMA AllSubsets ==
  ASSUME NEW U, IsFiniteSet(U), NEW G \in SUBSET (SUBSET U), {} \in G,
         \A s \in SUBSET U : s # {} /\ (\A x \in s : s \ {x} \in G) => s \in G
  PROVE G = SUBSET U
<1> SUFFICES ASSUME NEW t \in SUBSET U, t \notin G PROVE FALSE
  OBVIOUS
<1> DEFINE sizes == {n \in Nat : \E s \in SUBSET U : s \notin G /\ Cardinality(s) = n}
<1>1. ASSUME NEW s \in SUBSET U PROVE IsFiniteSet(s) /\ Cardinality(s) \in Nat
  BY FS_Subset, FS_CardinalityType
<1>2. sizes \in SUBSET Nat /\ sizes # {} BY <1>1
<1>3. PICK m \in sizes : \A k \in sizes : m <= k
  <2> HIDE DEF sizes
  <2> QED BY <1>2, Least
<1>4. PICK s \in SUBSET U : s \notin G /\ Cardinality(s) = m BY <1>3
<1>5. ASSUME NEW x \in s PROVE s \ {x} \in G
  <2>1. s \ {x} \in SUBSET U /\ Cardinality(s \ {x}) = m - 1 /\ m \in Nat
    BY <1>1, <1>4, FS_RemoveElement
  <2>2. m - 1 \notin sizes BY <1>3, <2>1
  <2>3. m - 1 \in Nat BY <1>1, <2>1
  <2> QED BY <2>1, <2>2, <2>3
<1> QED BY <1>4, <1>5

-----------------------------------------------------------------------------
(***************************************************************************)
(* Sums of a function over a finite set.                                    *)
(***************************************************************************)
AnyOf(s) == CHOOSE x \in s : TRUE

Adding(it, f, U) == it = [s \in U |-> IF s = {} THEN 0 ELSE f[AnyOf(s)] + it[s \ {AnyOf(s)}]]

UpToSize(S, n) == {s \in SUBSET S : Cardinality(s) <= n}

LEMMA AnyOfIsIn == ASSUME NEW s, s # {} PROVE AnyOf(s) \in s
BY DEF AnyOf

LEMMA SumsUpTo ==
  ASSUME NEW f, NEW S, IsFiniteSet(S), NEW n \in Nat
  PROVE \E it : Adding(it, f, UpToSize(S, n))
<1> DEFINE T == {k \in Nat : \E it : Adding(it, f, UpToSize(S, k))}
<1>0. ASSUME NEW s \in SUBSET S
      PROVE /\ Cardinality(s) \in Nat /\ (Cardinality(s) = 0 <=> s = {})
            /\ \A x \in s : s \ {x} \in SUBSET S /\ Cardinality(s \ {x}) = Cardinality(s) - 1
  BY FS_Subset, FS_CardinalityType, FS_EmptySet, FS_RemoveElement
<1>1. 0 \in T
  <2> DEFINE it == [s \in UpToSize(S, 0) |-> 0]
  <2>1. \A s \in UpToSize(S, 0) : s = {} BY <1>0 DEF UpToSize
  <2>2. Adding(it, f, UpToSize(S, 0)) BY <2>1 DEF Adding
  <2> QED BY <2>2
<1>2. ASSUME NEW k \in T PROVE k + 1 \in T
  <2>1. PICK it : Adding(it, f, UpToSize(S, k)) OBVIOUS
  <2> DEFINE more == [s \in UpToSize(S, k + 1) |->
                        IF s = {} THEN 0 ELSE f[AnyOf(s)] + it[s \ {AnyOf(s)}]]
  <2>2. ASSUME NEW s \in UpToSize(S, k + 1), s # {}
        PROVE s \ {AnyOf(s)} \in UpToSize(S, k)
    <3>1. AnyOf(s) \in s BY <2>2, AnyOfIsIn
    <3> QED BY <1>0, <3>1 DEF UpToSize
  <2>3. ASSUME NEW s \in UpToSize(S, k) PROVE s \in UpToSize(S, k + 1) /\ more[s] = it[s]
    <3>1. s \in UpToSize(S, k + 1) BY <1>0 DEF UpToSize
    <3>2. it[s] = IF s = {} THEN 0 ELSE f[AnyOf(s)] + it[s \ {AnyOf(s)}] BY <2>1 DEF Adding
    <3> QED BY <3>1, <3>2
  <2>4. ASSUME NEW s \in UpToSize(S, k + 1)
        PROVE more[s] = IF s = {} THEN 0 ELSE f[AnyOf(s)] + more[s \ {AnyOf(s)}]
    <3>1. CASE s = {} BY <3>1
    <3>2. CASE s # {}
      <4>1. more[s \ {AnyOf(s)}] = it[s \ {AnyOf(s)}] BY <2>2, <2>3, <3>2
      <4> QED BY <3>2, <4>1
    <3> QED BY <3>1, <3>2
  <2>5. Adding(more, f, UpToSize(S, k + 1)) BY <2>4 DEF Adding
  <2> HIDE DEF more
  <2> QED BY <2>5
<1>3. T = Nat
  <2> HIDE DEF T
  <2>1. T \in SUBSET Nat BY DEF T
  <2> QED BY <1>1, <1>2, <2>1, AllNumbers
<1> QED BY <1>3

\* What a sum over S is made from: the sums over the subsets of S.
Sums(it, f, S) ==
  /\ it \in [SUBSET S -> Nat]
  /\ it[{}] = 0
  /\ \A s \in SUBSET S : s # {} => it[s] = f[AnyOf(s)] + it[s \ {AnyOf(s)}]

LEMMA SumUnfolds ==
  ASSUME NEW f, NEW S, IsFiniteSet(S), \A x \in S : f[x] \in Nat
  PROVE \E it : Sums(it, f, S) /\ SumFunctionOnSet(f, S) = it[S]
<1> DEFINE it == CHOOSE g : Adding(g, f, SUBSET S)
<1>1. UpToSize(S, Cardinality(S)) = SUBSET S BY FS_Subset DEF UpToSize
<1>2. \E g : Adding(g, f, SUBSET S)
  <2>1. Cardinality(S) \in Nat BY FS_CardinalityType
  <2>2. \E g : Adding(g, f, UpToSize(S, Cardinality(S))) BY <2>1, SumsUpTo
  <2> QED BY <1>1, <2>2
<1>3. Adding(it, f, SUBSET S) BY <1>2, Zenon
<1>4. SumFunctionOnSet(f, S) = it[S]
  BY DEF SumFunctionOnSet, FoldFunctionOnSet, MapThenFoldSet, Adding, AnyOf
<1> HIDE DEF it
<1>5. /\ it[{}] = 0
      /\ \A s \in SUBSET S : s # {} => it[s] = f[AnyOf(s)] + it[s \ {AnyOf(s)}]
  BY <1>3 DEF Adding
<1> DEFINE G == {s \in SUBSET S : it[s] \in Nat}
<1>6. {} \in G BY <1>5
<1>7. ASSUME NEW s \in SUBSET S, s # {}, \A x \in s : s \ {x} \in G PROVE s \in G
  <2>1. AnyOf(s) \in s BY <1>7, AnyOfIsIn
  <2>2. f[AnyOf(s)] \in Nat /\ it[s \ {AnyOf(s)}] \in Nat BY <1>7, <2>1
  <2>3. it[s] = f[AnyOf(s)] + it[s \ {AnyOf(s)}] BY <1>5, <1>7
  <2>4. it[s] \in Nat BY <2>2, <2>3
  <2> QED BY <2>4
<1>8. G = SUBSET S
  <2> HIDE DEF G
  <2>1. G \in SUBSET (SUBSET S) BY DEF G
  <2> QED BY <1>6, <1>7, <2>1, AllSubsets
<1>9. Sums(it, f, S)
  <2>1. it = [s \in SUBSET S |-> it[s]] BY <1>3 DEF Adding
  <2>2. \A s \in SUBSET S : it[s] \in Nat BY <1>8
  <2> QED BY <1>5, <2>1, <2>2 DEF Sums
<1> QED BY <1>4, <1>9

\* Any element may be added last.
LEMMA SumsOfAny ==
  ASSUME NEW f, NEW S, IsFiniteSet(S), \A x \in S : f[x] \in Nat, NEW it, Sums(it, f, S)
  PROVE \A s \in SUBSET S : \A x \in s : it[s] = f[x] + it[s \ {x}]
<1> DEFINE G == {s \in SUBSET S : \A x \in s : it[s] = f[x] + it[s \ {x}]}
<1>1. {} \in G OBVIOUS
<1>2. ASSUME NEW s \in SUBSET S, s # {}, \A x \in s : s \ {x} \in G PROVE s \in G
  <2> SUFFICES ASSUME NEW x \in s PROVE it[s] = f[x] + it[s \ {x}]
    OBVIOUS
  <2> DEFINE c == AnyOf(s)
  <2>1. c \in s /\ it[s] = f[c] + it[s \ {c}] BY <1>2, AnyOfIsIn DEF Sums
  <2> HIDE DEF c
  <2>2. CASE x = c BY <2>1, <2>2
  <2>3. CASE x # c
    <3>1. it[s \ {c}] = f[x] + it[(s \ {c}) \ {x}] BY <1>2, <2>1, <2>3
    <3>2. it[s \ {x}] = f[c] + it[(s \ {x}) \ {c}] BY <1>2, <2>1, <2>3
    <3>3. (s \ {c}) \ {x} = (s \ {x}) \ {c} OBVIOUS
    <3> DEFINE rest == it[(s \ {x}) \ {c}]
    <3>4. f[x] \in Nat /\ f[c] \in Nat /\ rest \in Nat BY <2>1 DEF Sums
    <3>5. it[s] = f[c] + (f[x] + rest) /\ it[s \ {x}] = f[c] + rest
      BY <2>1, <3>1, <3>2, <3>3
    <3> HIDE DEF rest
    <3>6. f[c] + (f[x] + rest) = f[x] + (f[c] + rest) BY <3>4
    <3> QED BY <3>5, <3>6
  <2> QED BY <2>2, <2>3
<1>3. G = SUBSET S
  <2> HIDE DEF G
  <2>1. G \in SUBSET (SUBSET S) BY DEF G
  <2> QED BY <1>1, <1>2, <2>1, AllSubsets
<1> QED BY <1>3

LEMMA SumsAreThose ==
  ASSUME NEW f, NEW S, IsFiniteSet(S), \A x \in S : f[x] \in Nat, NEW it, Sums(it, f, S),
         NEW T \in SUBSET S
  PROVE SumFunctionOnSet(f, T) = it[T]
<1>1. IsFiniteSet(T) BY FS_Subset
<1>2. PICK jt : Sums(jt, f, T) /\ SumFunctionOnSet(f, T) = jt[T] BY <1>1, SumUnfolds
<1> DEFINE G == {s \in SUBSET T : jt[s] = it[s]}
<1>3. {} \in G BY <1>2 DEF Sums
<1>4. ASSUME NEW s \in SUBSET T, s # {}, \A x \in s : s \ {x} \in G PROVE s \in G
  <2>1. AnyOf(s) \in s BY <1>4, AnyOfIsIn
  <2>2. jt[s \ {AnyOf(s)}] = it[s \ {AnyOf(s)}] BY <1>4, <2>1
  <2>3. jt[s] = f[AnyOf(s)] + jt[s \ {AnyOf(s)}] BY <1>2, <1>4 DEF Sums
  <2>4. it[s] = f[AnyOf(s)] + it[s \ {AnyOf(s)}] BY <1>4 DEF Sums
  <2> QED BY <2>2, <2>3, <2>4
<1>5. G = SUBSET T
  <2> HIDE DEF G
  <2>1. G \in SUBSET (SUBSET T) BY DEF G
  <2> QED BY <1>1, <1>3, <1>4, <2>1, AllSubsets
<1> QED BY <1>2, <1>5

LEMMA SumEmpty == ASSUME NEW f PROVE SumFunctionOnSet(f, {}) = 0
<1>1. IsFiniteSet({}) BY FS_EmptySet
<1>2. PICK it : Sums(it, f, {}) /\ SumFunctionOnSet(f, {}) = it[{}] BY <1>1, SumUnfolds
<1> QED BY <1>2 DEF Sums

LEMMA SumIsNat ==
  ASSUME NEW f, NEW S, IsFiniteSet(S), \A x \in S : f[x] \in Nat
  PROVE SumFunctionOnSet(f, S) \in Nat
<1>1. PICK it : Sums(it, f, S) /\ SumFunctionOnSet(f, S) = it[S] BY SumUnfolds
<1> QED BY <1>1 DEF Sums

LEMMA SumLess ==
  ASSUME NEW f, NEW S, IsFiniteSet(S), \A x \in S : f[x] \in Nat, NEW x \in S
  PROVE SumFunctionOnSet(f, S) = f[x] + SumFunctionOnSet(f, S \ {x})
<1>1. PICK it : Sums(it, f, S) /\ SumFunctionOnSet(f, S) = it[S] BY SumUnfolds
<1>2. SumFunctionOnSet(f, S \ {x}) = it[S \ {x}] BY <1>1, SumsAreThose
<1>3. it[S] = f[x] + it[S \ {x}] BY <1>1, SumsOfAny
<1> QED BY <1>1, <1>2, <1>3

\* What holds of the sums over a set holds if it holds of none and of one more.
LEMMA SumSame ==
  ASSUME NEW f, NEW g, NEW S, IsFiniteSet(S), \A x \in S : f[x] = g[x] /\ f[x] \in Nat
  PROVE SumFunctionOnSet(f, S) = SumFunctionOnSet(g, S)
<1> DEFINE G == {s \in SUBSET S : SumFunctionOnSet(f, s) = SumFunctionOnSet(g, s)}
<1>1. {} \in G BY SumEmpty
<1>2. ASSUME NEW s \in SUBSET S, s # {}, \A x \in s : s \ {x} \in G PROVE s \in G
  <2>1. PICK x \in s : TRUE BY <1>2
  <2>2. IsFiniteSet(s) BY FS_Subset
  <2>3. SumFunctionOnSet(f, s) = f[x] + SumFunctionOnSet(f, s \ {x}) BY <2>2, SumLess
  <2>4. SumFunctionOnSet(g, s) = g[x] + SumFunctionOnSet(g, s \ {x}) BY <2>2, SumLess
  <2>5. SumFunctionOnSet(f, s \ {x}) = SumFunctionOnSet(g, s \ {x}) BY <1>2
  <2> QED BY <2>3, <2>4, <2>5
<1>3. G = SUBSET S
  <2> HIDE DEF G
  <2>1. G \in SUBSET (SUBSET S) BY DEF G
  <2> QED BY <1>1, <1>2, <2>1, AllSubsets
<1> QED BY <1>3

LEMMA SumAtMost ==
  ASSUME NEW f, NEW g, NEW S, IsFiniteSet(S), 
         \A x \in S : f[x] \in Nat /\ g[x] \in Nat /\ f[x] <= g[x]
  PROVE SumFunctionOnSet(f, S) <= SumFunctionOnSet(g, S)
<1> DEFINE G == {s \in SUBSET S : SumFunctionOnSet(f, s) <= SumFunctionOnSet(g, s)}
<1>1. {} \in G BY SumEmpty
<1>2. ASSUME NEW s \in SUBSET S, s # {}, \A x \in s : s \ {x} \in G PROVE s \in G
  <2>1. PICK x \in s : TRUE BY <1>2
  <2>2. IsFiniteSet(s) /\ IsFiniteSet(s \ {x}) BY FS_Subset
  <2>3. SumFunctionOnSet(f, s) = f[x] + SumFunctionOnSet(f, s \ {x}) BY <2>2, SumLess
  <2>4. SumFunctionOnSet(g, s) = g[x] + SumFunctionOnSet(g, s \ {x}) BY <2>2, SumLess
  <2>5. SumFunctionOnSet(f, s \ {x}) <= SumFunctionOnSet(g, s \ {x}) BY <1>2
  <2>6. SumFunctionOnSet(f, s \ {x}) \in Nat /\ SumFunctionOnSet(g, s \ {x}) \in Nat
    BY <2>2, SumIsNat
  <2> QED BY <2>3, <2>4, <2>5, <2>6
<1>3. G = SUBSET S
  <2> HIDE DEF G
  <2>1. G \in SUBSET (SUBSET S) BY DEF G
  <2> QED BY <1>1, <1>2, <2>1, AllSubsets
<1> QED BY <1>3

LEMMA SumSplit ==
  ASSUME NEW f, NEW S, IsFiniteSet(S), \A x \in S : f[x] \in Nat, NEW T \in SUBSET S
  PROVE SumFunctionOnSet(f, S) = SumFunctionOnSet(f, T) + SumFunctionOnSet(f, S \ T)
<1>0. ASSUME NEW s \in SUBSET S PROVE IsFiniteSet(s) /\ SumFunctionOnSet(f, s) \in Nat
  BY FS_Subset, SumIsNat
<1> DEFINE G == {t \in SUBSET T : SumFunctionOnSet(f, S) = SumFunctionOnSet(f, t) + SumFunctionOnSet(f, S \ t)}
<1>1. {} \in G 
  <2>1. SumFunctionOnSet(f, S) \in Nat BY <1>0
  <2>2. S \ {} = S OBVIOUS
  <2> QED BY <2>1, <2>2, SumEmpty
<1>2. ASSUME NEW t \in SUBSET T, t # {}, \A x \in t : t \ {x} \in G PROVE t \in G
  <2>1. PICK x \in t : TRUE BY <1>2
  <2> DEFINE a == SumFunctionOnSet(f, t \ {x})
             b == SumFunctionOnSet(f, S \ t)
  <2>2. SumFunctionOnSet(f, t) = f[x] + a BY <1>0, SumLess
  <2>3. SumFunctionOnSet(f, S \ (t \ {x})) = f[x] + b
    <3>1. (S \ (t \ {x})) \ {x} = S \ t BY <2>1
    <3>2. x \in S \ (t \ {x}) /\ S \ (t \ {x}) \in SUBSET S BY <2>1
    <3> QED BY <1>0, <3>1, <3>2, SumLess
  <2>4. SumFunctionOnSet(f, S) = a + SumFunctionOnSet(f, S \ (t \ {x})) BY <1>2
  <2>5. a \in Nat /\ b \in Nat /\ f[x] \in Nat BY <1>0, <2>1
  <2> HIDE DEF a
  <2>6. SumFunctionOnSet(f, S) = SumFunctionOnSet(f, t) + b 
    <3> HIDE DEF b
    <3> QED BY <2>2, <2>3, <2>4, <2>5
  <2> QED BY <2>6
<1>3. G = SUBSET T
  <2> HIDE DEF G
  <2>1. G \in SUBSET (SUBSET T) BY DEF G
  <2> QED BY <1>0, <1>1, <1>2, <2>1, AllSubsets
<1> QED BY <1>3

\* Counting is summing ones.
LEMMA SumCounts ==
  ASSUME NEW f, NEW S, IsFiniteSet(S), NEW P, \A x \in S : f[x] = IF x \in P THEN 1 ELSE 0
  PROVE SumFunctionOnSet(f, S) = Cardinality(S \cap P)
<1> DEFINE G == {s \in SUBSET S : SumFunctionOnSet(f, s) = Cardinality(s \cap P)}
<1>1. {} \in G 
  <2>1. {} \cap P = {} OBVIOUS
  <2> QED BY <2>1, SumEmpty, FS_EmptySet
<1>2. ASSUME NEW s \in SUBSET S, s # {}, \A x \in s : s \ {x} \in G PROVE s \in G
  <2>1. PICK x \in s : TRUE BY <1>2
  <2>2. IsFiniteSet(s) /\ IsFiniteSet(s \cap P) /\ IsFiniteSet((s \ {x}) \cap P) 
    <3>1. s \cap P \in SUBSET S /\ (s \ {x}) \cap P \in SUBSET S OBVIOUS
    <3> QED BY <3>1, FS_Subset
  <2>3. SumFunctionOnSet(f, s) = f[x] + SumFunctionOnSet(f, s \ {x})
    <3>1. \A y \in s : f[y] \in Nat OBVIOUS
    <3> QED BY <2>2, <3>1, SumLess
  <2>4. SumFunctionOnSet(f, s \ {x}) = Cardinality((s \ {x}) \cap P) BY <1>2, <2>1
  <2>5. Cardinality((s \ {x}) \cap P) \in Nat BY <2>2, FS_CardinalityType
  <2>6. CASE x \in P
    <3>1. s \cap P = ((s \ {x}) \cap P) \cup {x} BY <2>1, <2>6
    <3>2. Cardinality(s \cap P) = Cardinality((s \ {x}) \cap P) + 1 
      BY <2>2, <3>1, FS_AddElement
    <3>3. f[x] = 1 BY <2>6
    <3>4. SumFunctionOnSet(f, s) = Cardinality(s \cap P) BY <2>3, <2>4, <2>5, <3>2, <3>3
    <3> QED BY <3>4
  <2>7. CASE x \notin P
    <3>1. s \cap P = (s \ {x}) \cap P BY <2>1, <2>7
    <3>2. f[x] = 0 BY <2>7
    <3>3. Cardinality(s \cap P) = Cardinality((s \ {x}) \cap P) BY <3>1, Zenon
    <3>4. SumFunctionOnSet(f, s) = Cardinality(s \cap P) BY <2>3, <2>4, <2>5, <3>2, <3>3
    <3> QED BY <3>4
  <2> QED BY <2>6, <2>7
<1>3. G = SUBSET S
  <2> HIDE DEF G
  <2>1. G \in SUBSET (SUBSET S) BY DEF G
  <2> QED BY <1>1, <1>2, <2>1, AllSubsets
<1> QED BY <1>3

\* The parts of S with each key.
Parts(part, key, S, K) ==
  /\ \A x \in S : key[x] \in K
  /\ \A k \in K : part[k] \in SUBSET S /\ \A x \in S : x \in part[k] <=> key[x] = k

\* The sum over the parts of a set, by any key, is the sum over the set.
LEMMA SumOfParts ==
  ASSUME NEW f, NEW S, IsFiniteSet(S), \A x \in S : f[x] \in Nat,
         NEW K, IsFiniteSet(K), NEW key, NEW part, Parts(part, key, S, K),
         NEW sums, \A k \in K : sums[k] = SumFunctionOnSet(f, part[k])
  PROVE SumFunctionOnSet(sums, K) = SumFunctionOnSet(f, S)
<1> USE DEF Parts
<1> DEFINE Of(L) == {x \in S : key[x] \in L}
           G == {L \in SUBSET K : SumFunctionOnSet(sums, L) = SumFunctionOnSet(f, Of(L))}
<1>0. ASSUME NEW s \in SUBSET S PROVE IsFiniteSet(s) /\ SumFunctionOnSet(f, s) \in Nat
  BY FS_Subset, SumIsNat
<1>6. ASSUME NEW k \in K PROVE sums[k] = SumFunctionOnSet(f, {x \in S : key[x] = k})
  <2>1. part[k] = {x \in S : key[x] = k} OBVIOUS
  <2> QED BY <2>1
<1>1. {} \in G 
  <2>1. Of({}) = {} OBVIOUS
  <2> QED BY <2>1, SumEmpty
<1>2. ASSUME NEW L \in SUBSET K, L # {}, \A k \in L : L \ {k} \in G PROVE L \in G
  <2>1. PICK k \in L : TRUE BY <1>2
  <2>2. IsFiniteSet(L) BY FS_Subset
  <2>3. \A j \in L : sums[j] \in Nat 
    <3> SUFFICES ASSUME NEW j \in L PROVE sums[j] \in Nat OBVIOUS
    <3>1. part[j] \in SUBSET S /\ sums[j] = SumFunctionOnSet(f, part[j]) OBVIOUS
    <3> QED BY <1>0, <3>1
  <2>4. SumFunctionOnSet(sums, L) = sums[k] + SumFunctionOnSet(sums, L \ {k}) BY <2>2, <2>3, SumLess
  <2>5. SumFunctionOnSet(sums, L \ {k}) = SumFunctionOnSet(f, Of(L \ {k})) BY <1>2, <2>1
  <2>6. sums[k] = SumFunctionOnSet(f, {x \in S : key[x] = k}) BY <1>6
  <2>7. SumFunctionOnSet(f, Of(L)) = SumFunctionOnSet(f, {x \in S : key[x] = k}) + SumFunctionOnSet(f, Of(L \ {k}))
    <3>1. Of(L \ {k}) = Of(L) \ {x \in S : key[x] = k} BY <2>1
    <3>2. Of(L) \in SUBSET S /\ {x \in S : key[x] = k} \in SUBSET Of(L) BY <2>1
    <3> DEFINE mine == {x \in S : key[x] = k}
    <3> HIDE DEF Of, mine
    <3>3. IsFiniteSet(Of(L)) /\ \A x \in Of(L) : f[x] \in Nat BY <1>0, <3>2
    <3>4. Of(L \ {k}) = Of(L) \ mine /\ mine \in SUBSET Of(L) BY <3>1, <3>2 DEF mine
    <3>5. SumFunctionOnSet(f, Of(L)) = SumFunctionOnSet(f, mine) + SumFunctionOnSet(f, Of(L) \ mine)
      BY <3>3, <3>4, SumSplit
    <3> QED BY <3>4, <3>5 DEF mine
  <2> HIDE DEF Of
  <2>8. SumFunctionOnSet(sums, L) = SumFunctionOnSet(f, Of(L)) BY <2>4, <2>5, <2>6, <2>7
  <2> QED BY <2>8
<1>3. G = SUBSET K
  <2> HIDE DEF G
  <2>1. G \in SUBSET (SUBSET K) BY DEF G
  <2> QED BY <1>1, <1>2, <2>1, AllSubsets
<1>4. SumFunctionOnSet(sums, K) = SumFunctionOnSet(f, Of(K))
  <2> HIDE DEF Of
  <2> QED BY <1>3
<1>5. Of(K) = S OBVIOUS
<1> QED BY <1>4, <1>5
-----------------------------------------------------------------------------
(****************************************************************************)
(* Sequences: what is made step by step along one, the members of one that  *)
(* are in a set, and several put together.                                  *)
(****************************************************************************)
\* it begins with base, and each step goes on from the one before as h says.
Steps(it, n, base, h) == it[0] = base /\ \A i \in 1..n : it[i] = h[i][it[i - 1]]

\* The same as long as the values are in V.
StepsIn(it, n, V, base, h) ==
  it[0] = base /\ \A i \in 1..n : it[i - 1] \in V => it[i] = h[i][it[i - 1]]

\* it is what base and h give, and whatever goes on as they do is the same.
Runs(it, n, V, base, h) ==
  /\ it \in [0..n -> V]
  /\ Steps(it, n, base, h)
  /\ \A jt : StepsIn(jt, n, V, base, h) => \A i \in 0..n : jt[i] = it[i]

LEMMA Recursion ==
  ASSUME NEW n \in Nat, NEW V, NEW base \in V, NEW h \in [1..n -> [V -> V]]
  PROVE \E it : Runs(it, n, V, base, h)
<1> DEFINE To(it, k) == /\ it \in [0..k -> V]
                        /\ it[0] = base
                        /\ \A i \in 1..k : it[i] = h[i][it[i - 1]]
           T == {k \in Nat : k <= n => \E it : To(it, k)}
<1>1. 0 \in T
  <2>1. To([i \in 0..0 |-> base], 0) OBVIOUS
  <2> QED BY <2>1
<1>2. ASSUME NEW k \in T PROVE k + 1 \in T
  <2> SUFFICES ASSUME k + 1 <= n PROVE \E it : To(it, k + 1)
    <3> HIDE DEF To
    <3> QED OBVIOUS
  <2>1. k \in Nat /\ k <= n OBVIOUS
  <2>2. PICK it : To(it, k) BY <2>1
  <2> DEFINE more == [i \in 0..(k + 1) |-> IF i <= k THEN it[i] ELSE h[k + 1][it[k]]]
  <2>3. it[k] \in V /\ h[k + 1] \in [V -> V] BY <2>1, <2>2
  <2>4. more \in [0..(k + 1) -> V] /\ more[0] = base BY <2>1, <2>2, <2>3
  <2>5. ASSUME NEW i \in 1..(k + 1) PROVE more[i] = h[i][more[i - 1]]
    <3>1. CASE i <= k
      <4>1. i \in 1..k /\ i - 1 \in 0..k BY <2>1, <3>1
      <4>2. more[i] = it[i] /\ more[i - 1] = it[i - 1] BY <2>1, <4>1
      <4>3. it[i] = h[i][it[i - 1]] BY <2>2, <4>1
      <4> QED BY <4>2, <4>3
    <3>2. CASE ~(i <= k)
      <4>1. i = k + 1 /\ i - 1 = k /\ k \in 0..(k + 1) BY <2>1, <3>2
      <4>2. more[i] = h[k + 1][it[k]] /\ more[i - 1] = it[k] BY <2>1, <3>2, <4>1
      <4> QED BY <4>1, <4>2
    <3> QED BY <3>1, <3>2
  <2> HIDE DEF more
  <2>6. To(more, k + 1) BY <2>4, <2>5
  <2> QED BY <2>6
<1>3. n \in T
  <2> HIDE DEF T
  <2>1. T \in SUBSET Nat BY DEF T
  <2> QED BY <1>1, <1>2, <2>1, AllNumbers
<1>4. PICK it : To(it, n) BY <1>3
<1>5. ASSUME NEW jt, StepsIn(jt, n, V, base, h)
      PROVE \A i \in 0..n : jt[i] = it[i]
  <2> DEFINE S == {k \in Nat : k <= n => jt[k] = it[k]}
  <2>1. 0 \in S BY <1>4, <1>5 DEF StepsIn
  <2>2. ASSUME NEW k \in S PROVE k + 1 \in S
    <3> SUFFICES ASSUME k + 1 <= n PROVE jt[k + 1] = it[k + 1] OBVIOUS
    <3>1. jt[k] = it[k] /\ it[k] \in V /\ k + 1 \in 1..n /\ (k + 1) - 1 = k BY <1>4
    <3>2. jt[k + 1] = h[k + 1][jt[k]] BY <1>5, <3>1 DEF StepsIn
    <3>3. it[k + 1] = h[k + 1][it[k]] BY <1>4, <3>1
    <3> QED BY <3>1, <3>2, <3>3
  <2>3. S = Nat
    <3> HIDE DEF S
    <3>1. S \in SUBSET Nat BY DEF S
    <3> QED BY <2>1, <2>2, <3>1, AllNumbers
  <2> QED BY <2>3
<1>6. it \in [0..n -> V] /\ Steps(it, n, base, h) BY <1>4 DEF Steps
<1>7. Runs(it, n, V, base, h) BY <1>5, <1>6 DEF Runs
<1> QED BY <1>7

LEMMA AllSequences ==
  ASSUME NEW S, NEW G \in SUBSET Seq(S), <<>> \in G,
         \A s \in G : \A x \in S : Append(s, x) \in G
  PROVE G = Seq(S)
<1> DEFINE T == {n \in Nat : \A s \in Seq(S) : Len(s) = n => s \in G}
<1>1. 0 \in T
  <2>1. \A s \in Seq(S) : Len(s) = 0 => s = <<>> OBVIOUS
  <2> QED BY <2>1
<1>2. ASSUME NEW n \in T PROVE n + 1 \in T
  <2>0. n \in Nat /\ n + 1 \in Nat OBVIOUS
  <2>1. ASSUME NEW s \in Seq(S), Len(s) = n + 1 PROVE s \in G
    <3>1. s # <<>> BY <2>0, <2>1
    <3>2. PICK front \in Seq(S), x \in S : s = Append(front, x)
      BY <3>1, SequenceEmptyOrAppend
    <3>3. Len(front) = n BY <2>0, <2>1, <3>2
    <3>4. front \in G BY <3>3
    <3> QED BY <3>2, <3>4
  <2> QED BY <2>0, <2>1
<1>3. T = Nat
  <2> HIDE DEF T
  <2>1. T \in SUBSET Nat BY DEF T
  <2> QED BY <1>1, <1>2, <2>1, AllNumbers
<1>4. \A s \in Seq(S) : s \in G
  <2> SUFFICES ASSUME NEW s \in Seq(S) PROVE s \in G OBVIOUS
  <2>1. Len(s) \in T BY <1>3
  <2> QED BY <2>1
<1> QED BY <1>4

\* How far Those has come at each element.
Keeping(it, s, set) ==
  it = [n \in 0..Len(s) |->
          IF n = 0 THEN <<>> ELSE IF s[n] \in set THEN Append(it[n - 1], s[n]) ELSE it[n - 1]]

Kept(it, s, set, S) ==
  /\ it \in [0..Len(s) -> Seq(S)]
  /\ it[0] = <<>>
  /\ \A n \in 1..Len(s) : it[n] = IF s[n] \in set THEN Append(it[n - 1], s[n]) ELSE it[n - 1]
  /\ Those(s, set) = it[Len(s)]

LEMMA ThoseGo ==
  ASSUME NEW S, NEW s \in Seq(S), NEW set
  PROVE \E it : Kept(it, s, set, S)
<1> DEFINE V == Seq(S)
           h == [n \in 1..Len(s) |-> [v \in V |-> IF s[n] \in set THEN Append(v, s[n]) ELSE v]]
           jt == CHOOSE g : Keeping(g, s, set)
<1>1. Len(s) \in Nat /\ \A n \in 1..Len(s) : s[n] \in S OBVIOUS
<1>2. h \in [1..Len(s) -> [V -> V]]
  <2>1. \A n \in 1..Len(s) : \A v \in V : (IF s[n] \in set THEN Append(v, s[n]) ELSE v) \in V
    BY <1>1
  <2> HIDE DEF V
  <2> QED BY <2>1
<1>3. \A n \in 1..Len(s) : \A v \in V : h[n][v] = IF s[n] \in set THEN Append(v, s[n]) ELSE v
  <2> HIDE DEF V
  <2> QED OBVIOUS
<1>4. <<>> \in V OBVIOUS
<1> HIDE DEF h, V
<1>0. PICK it : Runs(it, Len(s), V, <<>>, h) BY <1>1, <1>2, <1>4, Recursion
<1>5. /\ it \in [0..Len(s) -> V]
      /\ Steps(it, Len(s), <<>>, h)
      /\ \A g : StepsIn(g, Len(s), V, <<>>, h) => \A n \in 0..Len(s) : g[n] = it[n]
  BY <1>0 DEF Runs
<1>6. ASSUME NEW n \in 1..Len(s)
      PROVE it[n] = IF s[n] \in set THEN Append(it[n - 1], s[n]) ELSE it[n - 1]
  <2>1. n - 1 \in 0..Len(s) BY <1>1
  <2> QED BY <1>3, <1>5, <2>1 DEF Steps
<1>7. Keeping(it, s, set)
  <2>1. it = [n \in 0..Len(s) |-> it[n]] BY <1>5
  <2>2. \A n \in 0..Len(s) : n # 0 => n \in 1..Len(s) BY <1>1
  <2> QED BY <1>5, <1>6, <2>1, <2>2 DEF Keeping, Steps
<1>8. Keeping(jt, s, set) BY <1>7, Zenon
<1>9. Those(s, set) = jt[Len(s)] BY DEF Those, Keeping
<1> HIDE DEF jt
<1>10. StepsIn(jt, Len(s), V, <<>>, h)
  <2>1. jt[0] = <<>> BY <1>1, <1>8 DEF Keeping
  <2>2. ASSUME NEW n \in 1..Len(s), jt[n - 1] \in V PROVE jt[n] = h[n][jt[n - 1]]
    <3>1. jt[n] = IF s[n] \in set THEN Append(jt[n - 1], s[n]) ELSE jt[n - 1]
      <4>1. n \in 0..Len(s) /\ n # 0 BY <1>1
      <4> QED BY <1>8, <4>1 DEF Keeping
    <3> QED BY <1>3, <2>2, <3>1
  <2> QED BY <2>1, <2>2 DEF StepsIn
<1>11. jt[Len(s)] = it[Len(s)] BY <1>1, <1>5, <1>10
<1>12. it[0] = <<>> BY <1>5 DEF Steps
<1> QED BY <1>5, <1>6, <1>9, <1>11, <1>12 DEF V, Kept

LEMMA ThoseOf ==
  ASSUME NEW S, NEW s \in Seq(S), NEW set
  PROVE /\ Those(s, set) \in Seq(S)
        /\ Those(<<>>, set) = <<>>
        /\ \A x \in S : Those(Append(s, x), set) =
                          IF x \in set THEN Append(Those(s, set), x) ELSE Those(s, set)
<1>1. PICK it : Kept(it, s, set, S) BY ThoseGo
<1>2. Those(<<>>, set) = <<>>
  <2>1. <<>> \in Seq(S) /\ Len(<<>>) = 0 OBVIOUS
  <2>2. PICK g : Kept(g, <<>>, set, S) BY <2>1, ThoseGo
  <2> QED BY <2>1, <2>2 DEF Kept
<1>3. ASSUME NEW x \in S
      PROVE Those(Append(s, x), set) = IF x \in set THEN Append(Those(s, set), x) ELSE Those(s, set)
  <2> DEFINE t == Append(s, x)
             m == Len(s)
  <2>1. /\ m \in Nat /\ t \in Seq(S) /\ Len(t) = m + 1 /\ t[m + 1] = x
        /\ \A n \in 1..m : t[n] = s[n]
    OBVIOUS
  <2> HIDE DEF t, m
  <2>2. PICK jt : Kept(jt, t, set, S) BY <2>1, ThoseGo
  <2> DEFINE G == {n \in Nat : n <= m => jt[n] = it[n]}
  <2>3. 0 \in G BY <1>1, <2>2 DEF Kept
  <2>4. ASSUME NEW n \in G PROVE n + 1 \in G
    <3>1. n \in Nat OBVIOUS
    <3>2. ASSUME n + 1 <= m PROVE jt[n + 1] = it[n + 1]
      <4>1. jt[n] = it[n] /\ n + 1 \in 1..m /\ n + 1 \in 1..Len(t) /\ (n + 1) - 1 = n
        BY <2>1, <3>1, <3>2
      <4>2. jt[n + 1] = IF t[n + 1] \in set THEN Append(jt[n], t[n + 1]) ELSE jt[n] BY <2>2, <4>1 DEF Kept
      <4>3. it[n + 1] = IF s[n + 1] \in set THEN Append(it[n], s[n + 1]) ELSE it[n]
        BY <1>1, <4>1 DEF m, Kept
      <4> QED BY <2>1, <4>1, <4>2, <4>3
    <3> QED BY <3>1, <3>2
  <2>5. G = Nat
    <3> HIDE DEF G
    <3>1. G \in SUBSET Nat BY DEF G
    <3> QED BY <2>3, <2>4, <3>1, AllNumbers
  <2>6. jt[m] = it[m]
    <3>1. m \in G BY <2>1, <2>5
    <3>2. m <= m BY <2>1
    <3> QED BY <3>1, <3>2
  <2>7. jt[m + 1] = IF t[m + 1] \in set THEN Append(jt[m], t[m + 1]) ELSE jt[m]
    <3>1. m + 1 \in 1..Len(t) /\ (m + 1) - 1 = m BY <2>1
    <3> QED BY <2>2, <3>1 DEF Kept
  <2>8. Those(s, set) = it[m] BY <1>1 DEF m, Kept
  <2>9. Those(t, set) = jt[m + 1] BY <2>1, <2>2 DEF Kept
  <2>10. Those(t, set) = IF x \in set THEN Append(Those(s, set), x) ELSE Those(s, set)
    BY <2>1, <2>6, <2>7, <2>8, <2>9
  <2> QED BY <2>10 DEF t
<1>4. Those(s, set) \in Seq(S)
  <2>1. Len(s) \in 0..Len(s) OBVIOUS
  <2> QED BY <1>1, <2>1 DEF Kept
<1> QED BY <1>2, <1>3, <1>4
-----------------------------------------------------------------------------
(***************************************************************************)
(* Starts of a gateway on one directory.                                    *)
(***************************************************************************)
StartPlaces == {"off", "look", "create", "fill", "up", "gone"}

\* What is known of the starts on a directory where they come one after the other
\* and nothing fails but that they are killed.
IdentityInv ==
  identity # Nothing =>
    /\ identity = [may |-> identity.may, file |-> identity.file, at |-> identity.at,
                   id |-> identity.id]
    /\ identity.at \in [Starts -> StartPlaces]
    /\ identity.id \in [Starts -> Starts \cup {Nothing}]
    /\ identity.file \in Starts \cup {Nothing, Empty}
    /\ identity.may \subseteq {"crash"} =>
         /\ \A s, t \in Starting : s = t
         /\ \A s \in Served : identity.file \in Starts /\ identity.id[s] = identity.file
         /\ \A s \in Starts : identity.at[s] \in {"create", "fill"} =>
              identity.file \notin Starts /\ identity.id[s] = s

-----------------------------------------------------------------------------
LEMMA InitIdentity == RequestInit => IdentityInv
<1>1. IdentityIdle => IdentityInv BY DEF IdentityIdle, IdentityInv
<1>2. ASSUME IdentityInit PROVE IdentityInv
  <2>1. PICK may \in IdentityScenes :
          identity = [may |-> may, file |-> Nothing, at |-> [s \in Starts |-> "off"],
                      id |-> [s \in Starts |-> Nothing]]
    BY <1>2 DEF IdentityInit
  <2> QED BY <2>1 DEF IdentityInv, StartPlaces, Starting, Served
<1> QED BY <1>1, <1>2 DEF RequestInit

\* What a step of the start s does to the directory.
LEMMA StartStep ==
  ASSUME IdentityInv, NEW s \in Starts,
         StartRuntime(s) \/ LookForIdentity(s) \/ CreateIdentity(s) \/ FillIdentity(s) \/ KillStart(s)
  PROVE IdentityInv'
<1> USE IdentityAssumption DEF IdentityAssumption
<1>0. identity # Nothing
  BY DEF StartRuntime, LookForIdentity, CreateIdentity, FillIdentity, KillStart, StartAt
<1>1. CASE StartRuntime(s)
  <2>1. identity' = [may |-> identity.may, file |-> identity.file,
                     at |-> [identity.at EXCEPT ![s] = "look"], id |-> identity.id]
    BY <1>0, <1>1 DEF StartRuntime, IdentityInv
  <2>2. identity.at[s] = "off" /\ ("together" \in identity.may \/ Starting = {})
    BY <1>1 DEF StartRuntime, StartAt
  <2> QED BY <1>0, <2>1, <2>2 DEF IdentityInv, StartPlaces, Starting, Served
<1>2. CASE LookForIdentity(s)
  <2>1. identity.at[s] = "look"
    BY <1>2 DEF LookForIdentity, StartAt
  <2>2. CASE Known /\ identity' = [identity EXCEPT !.at[s] = "up", !.id[s] = identity.file]
    <3>1. identity' = [may |-> identity.may, file |-> identity.file,
                       at |-> [identity.at EXCEPT ![s] = "up"],
                       id |-> [identity.id EXCEPT ![s] = identity.file]]
      BY <1>0, <2>2 DEF IdentityInv
    <3>2. identity.file \in Starts
      BY <1>0, <2>2 DEF IdentityInv, Known
    <3>3. /\ identity'.at \in [Starts -> StartPlaces]
          /\ identity'.id \in [Starts -> Starts \cup {Nothing}]
      BY <1>0, <3>1, <3>2 DEF IdentityInv, StartPlaces
    <3>4. \A t \in Starts : /\ identity'.at[t] = IF t = s THEN "up" ELSE identity.at[t]
                            /\ identity'.id[t] = IF t = s THEN identity.file ELSE identity.id[t]
      BY <1>0, <3>1 DEF IdentityInv
    <3>5. /\ identity'.file = identity.file
          /\ identity'.may = identity.may
          /\ identity' = [may |-> identity'.may, file |-> identity'.file, at |-> identity'.at,
                          id |-> identity'.id]
      BY <3>1
    <3> QED BY <1>0, <2>1, <3>2, <3>3, <3>4, <3>5 DEF IdentityInv, Starting, Served
  <2>3. CASE /\ ~Known \/ "io" \in identity.may
             /\ identity' = [identity EXCEPT !.at[s] = "create", !.id[s] = s]
    <3>1. identity' = [may |-> identity.may, file |-> identity.file,
                       at |-> [identity.at EXCEPT ![s] = "create"],
                       id |-> [identity.id EXCEPT ![s] = s]]
      BY <1>0, <2>3 DEF IdentityInv
    <3>2. identity.may \subseteq {"crash"} => identity.file \notin Starts
      BY <1>0, <2>3 DEF IdentityInv, Known
    <3>3. /\ identity'.at \in [Starts -> StartPlaces]
          /\ identity'.id \in [Starts -> Starts \cup {Nothing}]
      BY <1>0, <3>1 DEF IdentityInv, StartPlaces
    <3>4. \A t \in Starts : /\ identity'.at[t] = IF t = s THEN "create" ELSE identity.at[t]
                            /\ identity'.id[t] = IF t = s THEN s ELSE identity.id[t]
      BY <1>0, <3>1 DEF IdentityInv
    <3>5. /\ identity'.file = identity.file
          /\ identity'.may = identity.may
          /\ identity' = [may |-> identity'.may, file |-> identity'.file, at |-> identity'.at,
                          id |-> identity'.id]
      BY <3>1
    <3> QED BY <1>0, <2>1, <3>2, <3>3, <3>4, <3>5 DEF IdentityInv, Starting, Served
  <2> QED BY <1>2, <2>2, <2>3 DEF LookForIdentity
<1>3. CASE CreateIdentity(s)
  <2>1. identity.at[s] = "create"
    BY <1>3 DEF CreateIdentity, StartAt
  <2>2. CASE identity' = [identity EXCEPT !.at[s] = "fill", !.file = Empty]
    <3>1. identity' = [may |-> identity.may, file |-> Empty,
                       at |-> [identity.at EXCEPT ![s] = "fill"], id |-> identity.id]
      BY <1>0, <2>2 DEF IdentityInv
    <3> QED BY <1>0, <2>1, <3>1 DEF IdentityInv, StartPlaces, Starting, Served
  <2>3. CASE "io" \in identity.may /\ identity' = [identity EXCEPT !.at[s] = "up"]
    <3>1. identity' = [may |-> identity.may, file |-> identity.file,
                       at |-> [identity.at EXCEPT ![s] = "up"], id |-> identity.id]
      BY <1>0, <2>3 DEF IdentityInv
    <3> QED BY <1>0, <2>1, <2>3, <3>1 DEF IdentityInv, StartPlaces, Starting, Served
  <2> QED BY <1>3, <2>2, <2>3 DEF CreateIdentity
<1>4. CASE FillIdentity(s)
  <2>1. identity.at[s] = "fill"
    BY <1>4 DEF FillIdentity, StartAt
  <2>2. CASE identity' = [identity EXCEPT !.at[s] = "up", !.file = s]
    <3>1. identity' = [may |-> identity.may, file |-> s,
                       at |-> [identity.at EXCEPT ![s] = "up"], id |-> identity.id]
      BY <1>0, <2>2 DEF IdentityInv
    <3> QED BY <1>0, <2>1, <3>1 DEF IdentityInv, StartPlaces, Starting, Served
  <2>3. CASE "io" \in identity.may /\ identity' = [identity EXCEPT !.at[s] = "up"]
    <3>1. identity' = [may |-> identity.may, file |-> identity.file,
                       at |-> [identity.at EXCEPT ![s] = "up"], id |-> identity.id]
      BY <1>0, <2>3 DEF IdentityInv
    <3> QED BY <1>0, <2>1, <2>3, <3>1 DEF IdentityInv, StartPlaces, Starting, Served
  <2> QED BY <1>4, <2>2, <2>3 DEF FillIdentity
<1>5. CASE KillStart(s)
  <2>1. identity' = [may |-> identity.may, file |-> identity.file,
                     at |-> [identity.at EXCEPT ![s] = "gone"], id |-> identity.id]
    BY <1>0, <1>5 DEF KillStart, IdentityInv
  <2>2. identity.at[s] \in {"look", "create", "fill"}
    BY <1>5 DEF KillStart, Starting
  <2> QED BY <1>0, <2>1, <2>2 DEF IdentityInv, StartPlaces, Starting, Served
<1> QED BY <1>1, <1>2, <1>3, <1>4, <1>5

LEMMA NextIdentity == IdentityInv /\ [RequestNext]_<<request, kept>> => IdentityInv'
<1> SUFFICES ASSUME IdentityInv, [RequestNext]_<<request, kept>>
             PROVE IdentityInv'
  OBVIOUS
<1>1. CASE \E s \in Starts : StartRuntime(s) \/ LookForIdentity(s) \/ CreateIdentity(s)
                             \/ FillIdentity(s) \/ KillStart(s)
  BY <1>1, StartStep
<1>2. CASE UNCHANGED identity
  BY <1>2 DEF IdentityInv, Starting, Served
<1>3. CASE RequestNext
  BY <1>1, <1>2, <1>3 DEF RequestNext, besides, request
<1> QED BY <1>2, <1>3 DEF request

\* What the file says, every runtime that came up on the directory has.
LEMMA IdentityOfFile == IdentityInv => IdentitySurvives
  BY DEF IdentityInv, IdentitySurvives, SameIdentity

\* Every runtime that comes up on a directory has the identity in its file, however many starts
\* there are and wherever one of them is killed, if they come one after the other and their file
\* operations work (identity/mod.rs:88).
THEOREM IdentityIsKept == RequestSpec => []IdentitySurvives
<1>1. RequestInit => IdentityInv BY InitIdentity
<1>2. IdentityInv /\ [RequestNext]_<<request, kept>> => IdentityInv' BY NextIdentity
<1>3. IdentityInv => IdentitySurvives BY IdentityOfFile
<1> QED BY <1>1, <1>2, <1>3, PTL DEF RequestSpec
-----------------------------------------------------------------------------
(***************************************************************************)
(* Checkpoints.                                                             *)
(***************************************************************************)
Trees == [head : Nat \ {0}, watched : Nat, others : Nat]

Saves == [at : {"off", "watched", "insert", "saved"}, project : Projects, head : Nat, watched : Nat]

Rows == [id : Nat \ {0}, project : Projects, head : Nat, watched : Nat, then : Trees, nth : Nat]

DeskTypes ==
  /\ desk = [may |-> desk.may, tree |-> desk.tree, saved |-> desk.saved]
  /\ desk.tree \in [Projects -> Trees]
  /\ desk.saved \subseteq Rows
  /\ saving \in [Savers -> Saves]

HasGreatest(S) == \A T \in SUBSET S : T # {} => \E x \in T : \A y \in T : x >= y

Done == {t \in Savers : saving[t].at = "saved"}

\* Rows are numbered in the order of their saves, and there is a highest number to go on from.
RowsInOrder ==
  /\ HasGreatest(Ids)
  /\ \A c \in desk.saved : c.nth < Cardinality(Done)
  /\ \A c, d \in desk.saved : /\ c.id = d.id => c = d
                              /\ c.id < d.id => c.nth < d.nth

\* What was read of a tree is no further than the tree.
RowsBehind ==
  \A c \in desk.saved :
    /\ c.head = NoGit \/ c.head <= c.then.head
    /\ c.watched <= c.then.watched
    /\ c.then.head <= desk.tree[c.project].head
    /\ c.then.watched <= desk.tree[c.project].watched

SavesBehind ==
  \A s \in Savers :
    LET tree == desk.tree[saving[s].project]
    IN /\ saving[s].at \in {"watched", "insert"} => saving[s].head <= tree.head
       /\ saving[s].at = "insert" => saving[s].watched <= tree.watched

DeskInv == desk # <<>> => DeskTypes /\ RowsInOrder /\ RowsBehind /\ SavesBehind

LEMMA GreatestOfMore ==
  ASSUME NEW S \in SUBSET Nat, HasGreatest(S), NEW n \in Nat
  PROVE HasGreatest(S \cup {n})
<1> SUFFICES ASSUME NEW T \in SUBSET (S \cup {n}), T # {}
             PROVE \E x \in T : \A y \in T : x >= y
  BY DEF HasGreatest
<1>1. CASE T \ {n} = {}
  <2>1. n \in T /\ \A y \in T : y = n BY <1>1
  <2>2. n >= n OBVIOUS
  <2> QED BY <2>1, <2>2
<1>2. CASE T \ {n} # {}
  <2>1. PICK x \in T \ {n} : \A y \in T \ {n} : x >= y
    BY <1>2 DEF HasGreatest
  <2>2. x \in Nat /\ x \in T /\ T \subseteq Nat
    OBVIOUS
  <2>3. CASE n \in T /\ n >= x
    <3>1. \A y \in T : n >= y BY <2>1, <2>2, <2>3
    <3> QED BY <3>1, <2>3
  <2>4. CASE ~(n \in T /\ n >= x)
    <3>1. \A y \in T : x >= y BY <2>1, <2>2, <2>4
    <3> QED BY <3>1, <2>2
  <2> QED BY <2>3, <2>4
<1> QED BY <1>1, <1>2

LEMMA GreatestOfLess ==
  ASSUME NEW S, HasGreatest(S), NEW R \in SUBSET S PROVE HasGreatest(R)
BY DEF HasGreatest

\* A new number is above those there are.
LEMMA NewIdIsNew ==
  ASSUME Ids \subseteq Nat, HasGreatest(Ids)
  PROVE NewId \in Nat \ {0} /\ \A i \in Ids : i < NewId
<1>1. HasGreatest({0} \cup Ids)
  <2>1. {0} \cup Ids = Ids \cup {0} OBVIOUS
  <2> QED BY <2>1, GreatestOfMore
<1>2. \E x \in {0} \cup Ids : \A y \in {0} \cup Ids : x >= y
  <2>1. {0} \cup Ids \in SUBSET ({0} \cup Ids) /\ {0} \cup Ids # {} OBVIOUS
  <2> QED BY <1>1, <2>1 DEF HasGreatest
<1>3. ASSUME NEW S, \E x \in S : \A y \in S : x >= y
      PROVE Max(S) \in S /\ \A y \in S : Max(S) >= y
  BY <1>3 DEF Max
<1> DEFINE m == Max({0} \cup Ids)
<1>4. m \in {0} \cup Ids /\ \A y \in {0} \cup Ids : m >= y
  BY <1>2, <1>3
<1>5. NewId = 1 + m
  BY DEF NewId
<1> HIDE DEF m
<1>6. m \in Nat /\ \A i \in Ids : m >= i /\ i \in Nat
  BY <1>4
<1> QED BY <1>5, <1>6

LEMMA InitDesk == RequestInit => DeskInv
<1>1. DeskIdle => DeskInv BY DEF DeskIdle, DeskInv
<1>2. ASSUME DeskInit PROVE DeskInv
  <2>1. PICK may \in CheckpointScenes :
          desk = [may |-> may, tree |-> [p \in Projects |-> Untouched], saved |-> {}]
    BY <1>2 DEF DeskInit
  <2>2. PICK f \in [Savers -> Projects] :
          saving = [s \in Savers |-> [at |-> "off", project |-> f[s], head |-> NoGit, watched |-> 0]]
    <3>1. saving \in [Savers -> {[at |-> "off", project |-> p, head |-> NoGit, watched |-> 0] :
                                 p \in Projects}]
      BY <1>2 DEF DeskInit
    <3> DEFINE f == [s \in Savers |-> saving[s].project]
    <3>2. \A s \in Savers : f[s] \in Projects /\ saving[s] =
            [at |-> "off", project |-> f[s], head |-> NoGit, watched |-> 0]
      BY <3>1
    <3>3. f \in [Savers -> Projects] BY <3>2
    <3> QED BY <3>1, <3>2, <3>3
  <2>3. DeskTypes
    BY <2>1, <2>2 DEF DeskTypes, Trees, Saves, Untouched, NoGit
  <2>4. RowsInOrder BY <2>1 DEF RowsInOrder, Ids, HasGreatest
  <2>5. RowsBehind BY <2>1 DEF RowsBehind
  <2>6. SavesBehind BY <2>2 DEF SavesBehind
  <2> QED BY <2>3, <2>4, <2>5, <2>6 DEF DeskInv
<1> QED BY <1>1, <1>2 DEF RequestInit

\* What a save reads is no further than the tree, and it adds no row.
LEMMA ReadStep ==
  ASSUME DeskInv, NEW s \in Savers, ReadHead(s) \/ ReadWatched(s) PROVE DeskInv'
<1> DEFINE tree == desk.tree[saving[s].project]
<1>1. desk # <<>> /\ desk' = desk /\ DeskTypes /\ RowsInOrder /\ RowsBehind /\ SavesBehind
  BY DEF ReadHead, ReadWatched, Saver, DeskInv
<1>2. saving[s] \in Saves /\ tree \in Trees
  BY <1>1 DEF DeskTypes, Saves
<1>3. \E new \in Saves :
        /\ saving' = [saving EXCEPT ![s] = new]
        /\ new.project = saving[s].project
        /\ saving[s].at # "saved" /\ new.at # "saved"
        /\ new.head <= tree.head
        /\ new.at = "insert" => new.watched <= tree.watched
  <2>1. CASE ReadHead(s)
    <3> DEFINE read(h) == [at |-> "watched", project |-> saving[s].project, head |-> h,
                           watched |-> saving[s].watched]
    <3>1. PICK h \in {tree.head, NoGit} : saving' = [saving EXCEPT ![s] = read(h)]
      <4>1. saving[s] = [at |-> saving[s].at, project |-> saving[s].project, head |-> saving[s].head,
                         watched |-> saving[s].watched]
        BY <1>2 DEF Saves
      <4> QED BY <2>1, <4>1 DEF ReadHead
    <3>2. h \in Nat /\ h <= tree.head BY <1>2 DEF Trees, NoGit
    <3>3. read(h) \in Saves BY <1>2, <3>2 DEF Saves
    <3>4. saving[s].at = "off" BY <2>1 DEF ReadHead, Saver
    <3> QED BY <3>1, <3>2, <3>3, <3>4
  <2>2. CASE ReadWatched(s)
    <3> DEFINE read == [at |-> "insert", project |-> saving[s].project, head |-> saving[s].head,
                        watched |-> tree.watched]
    <3>1. saving' = [saving EXCEPT ![s] = read]
      <4>1. ASSUME NEW r \in Saves, NEW w, NEW q, q = [r EXCEPT !.at = "insert", !.watched = w]
            PROVE q = [at |-> "insert", project |-> r.project, head |-> r.head, watched |-> w]
        BY <4>1 DEF Saves
      <4>2. [saving[s] EXCEPT !.at = "insert", !.watched = tree.watched] = read
        BY <1>2, <4>1
      <4>3. saving' = [saving EXCEPT ![s].at = "insert", ![s].watched = tree.watched]
        BY <2>2 DEF ReadWatched
      <4>4. saving' = [saving EXCEPT ![s] = [saving[s] EXCEPT !.at = "insert", !.watched = tree.watched]]
        BY <1>1, <4>3 DEF DeskTypes
      <4> QED BY <4>2, <4>4
    <3>2. read \in Saves BY <1>2 DEF Saves, Trees
    <3>3. saving[s].at = "watched" BY <2>2 DEF ReadWatched, Saver
    <3>4. read.head <= tree.head BY <1>1, <3>3 DEF SavesBehind
    <3>5. read.watched <= tree.watched BY <1>2 DEF Trees
    <3> QED BY <3>1, <3>2, <3>3, <3>4, <3>5
  <2> QED BY <2>1, <2>2
<1>4. PICK new \in Saves :
        /\ saving' = [saving EXCEPT ![s] = new]
        /\ new.project = saving[s].project
        /\ saving[s].at # "saved" /\ new.at # "saved"
        /\ new.head <= tree.head
        /\ new.at = "insert" => new.watched <= tree.watched
  BY <1>3
<1>5. \A t \in Savers : saving'[t] = IF t = s THEN new ELSE saving[t]
  BY <1>1, <1>4 DEF DeskTypes
<1>6. DeskTypes' BY <1>1, <1>4 DEF DeskTypes
<1>7. Done' = Done BY <1>4, <1>5 DEF Done
<1>8. RowsInOrder' BY <1>1, <1>7 DEF RowsInOrder, Ids
<1>9. RowsBehind' BY <1>1 DEF RowsBehind
<1>10. SavesBehind' BY <1>1, <1>4, <1>5 DEF SavesBehind
<1> QED BY <1>6, <1>8, <1>9, <1>10 DEF DeskInv

\* A save adds a row above and after all others.
LEMMA InsertStep ==
  ASSUME DeskInv, NEW s \in Savers, InsertCheckpoint(s) PROVE DeskInv'
<1> DEFINE tree == desk.tree[saving[s].project]
           row == [id |-> NewId, project |-> saving[s].project, head |-> saving[s].head,
                   watched |-> saving[s].watched, then |-> tree, nth |-> Cardinality(Done)]
           new == [at |-> "saved", project |-> saving[s].project, head |-> saving[s].head,
                   watched |-> saving[s].watched]
<1>1. desk # <<>> /\ DeskTypes /\ RowsInOrder /\ RowsBehind /\ SavesBehind /\ saving[s].at = "insert"
  BY DEF InsertCheckpoint, Saver, DeskInv
<1>2. saving[s] \in Saves /\ tree \in Trees
  BY <1>1 DEF DeskTypes, Saves
<1>3. desk' = [may |-> desk.may, tree |-> desk.tree, saved |-> desk.saved \cup {row}]
  <2>1. desk' = [desk EXCEPT !.saved = desk.saved \cup {row}]
    BY DEF InsertCheckpoint, Done
  <2> QED BY <1>1, <2>1 DEF DeskTypes
<1>4. saving' = [saving EXCEPT ![s] = new]
  <2>1. saving[s] = [at |-> saving[s].at, project |-> saving[s].project, head |-> saving[s].head,
                     watched |-> saving[s].watched]
    BY <1>2 DEF Saves
  <2>2. saving' = [saving EXCEPT ![s].at = "saved"]
    BY DEF InsertCheckpoint
  <2>3. [saving[s] EXCEPT !.at = "saved"] = new
    BY <2>1
  <2> QED BY <2>2, <2>3
<1>5. NewId \in Nat \ {0} /\ \A i \in Ids : i < NewId
  <2>1. Ids \subseteq Nat BY <1>1 DEF Ids, DeskTypes, Rows
  <2> QED BY <1>1, <2>1, NewIdIsNew DEF RowsInOrder
<1>6. \A t \in Savers : saving'[t] = IF t = s THEN new ELSE saving[t]
  BY <1>1, <1>4 DEF DeskTypes
<1>7. Cardinality(Done) \in Nat /\ Cardinality(Done') = Cardinality(Done) + 1
  <2>1. Done' = Done \cup {s} BY <1>6 DEF Done
  <2>2. s \notin Done BY <1>1 DEF Done
  <2>3. IsFiniteSet(Done) BY CheckpointAssumption, FS_Subset DEF Done, CheckpointAssumption
  <2> QED BY <2>1, <2>2, <2>3, FS_AddElement, FS_CardinalityType
<1>8. row \in Rows /\ new \in Saves
  BY <1>2, <1>5, <1>7 DEF Rows, Saves
<1>9. DeskTypes' BY <1>1, <1>3, <1>4, <1>8 DEF DeskTypes
<1>10. RowsInOrder'
  <2>1. Ids' = Ids \cup {NewId}
    <3>1. row.id = NewId /\ desk'.saved = desk.saved \cup {row} BY <1>3
    <3> HIDE DEF row
    <3> QED BY <3>1 DEF Ids
  <2>2. HasGreatest(Ids)'
    <3>1. Ids \subseteq Nat BY <1>1 DEF Ids, DeskTypes, Rows
    <3>2. HasGreatest(Ids \cup {NewId})
      BY <1>1, <1>5, <3>1, GreatestOfMore DEF RowsInOrder
    <3> QED BY <2>1, <3>2 DEF HasGreatest
  <2>3. \A c \in desk.saved : c.id \in Nat /\ c.nth \in Nat /\ c.id < row.id /\ c.nth < row.nth
    BY <1>1, <1>5 DEF RowsInOrder, Ids, DeskTypes, Rows
  <2>4. row.id \in Nat /\ row.nth = Cardinality(Done) BY <1>5
  <2>5. desk'.saved = desk.saved \cup {row} BY <1>3
  <2> HIDE DEF row
  <2>6. \A c \in desk'.saved : c.nth < Cardinality(Done')
    BY <1>1, <1>7, <2>3, <2>4, <2>5 DEF RowsInOrder
  <2>7. \A c, d \in desk'.saved : (c.id = d.id => c = d) /\ (c.id < d.id => c.nth < d.nth)
    BY <1>1, <2>3, <2>4, <2>5 DEF RowsInOrder
  <2> QED BY <2>2, <2>6, <2>7 DEF RowsInOrder
<1>11. RowsBehind'
  <2>1. /\ row.head <= row.then.head /\ row.watched <= row.then.watched
        /\ row.then = desk.tree[row.project]
    BY <1>1 DEF SavesBehind
  <2>2. row.then.head <= row.then.head /\ row.then.watched <= row.then.watched
    BY <1>2 DEF Trees
  <2>3. desk'.saved = desk.saved \cup {row} /\ desk'.tree = desk.tree BY <1>3
  <2> HIDE DEF row
  <2> QED BY <1>1, <2>1, <2>2, <2>3 DEF RowsBehind
<1>12. SavesBehind'
  <2>1. desk'.tree = desk.tree BY <1>3
  <2> QED BY <1>1, <1>6, <2>1 DEF SavesBehind
<1> QED BY <1>9, <1>10, <1>11, <1>12 DEF DeskInv

LEMMA DeleteStep ==
  ASSUME DeskInv, DeleteCheckpoint PROVE DeskInv'
<1>1. desk # <<>> /\ saving' = saving /\ DeskTypes /\ RowsInOrder /\ RowsBehind /\ SavesBehind
  BY DEF DeleteCheckpoint, DeskInv
<1>2. PICK c \in desk.saved :
        desk' = [may |-> desk.may, tree |-> desk.tree, saved |-> desk.saved \ {c}]
  BY <1>1 DEF DeleteCheckpoint, DeskTypes
<1>3. desk'.tree = desk.tree /\ desk'.saved \subseteq desk.saved
      /\ desk' = [may |-> desk'.may, tree |-> desk'.tree, saved |-> desk'.saved]
  BY <1>2
<1>4. DeskTypes' BY <1>1, <1>3 DEF DeskTypes
<1>5. Done' = Done BY <1>1 DEF Done
<1>6. RowsInOrder'
  <2>1. Ids' \in SUBSET Ids BY <1>3 DEF Ids
  <2>2. HasGreatest(Ids)' BY <1>1, <2>1, GreatestOfLess DEF RowsInOrder, HasGreatest
  <2> QED BY <1>1, <1>3, <1>5, <2>2 DEF RowsInOrder
<1>7. RowsBehind' BY <1>1, <1>3 DEF RowsBehind
<1>8. SavesBehind' BY <1>1, <1>3 DEF SavesBehind
<1> QED BY <1>4, <1>6, <1>7, <1>8 DEF DeskInv

\* A tree only goes on.
LEMMA EditStep ==
  ASSUME DeskInv, EditProject PROVE DeskInv'
<1>1. desk # <<>> /\ saving' = saving /\ DeskTypes /\ RowsInOrder /\ RowsBehind /\ SavesBehind
  BY DEF EditProject, DeskInv
<1>2. PICK p \in Projects :
        \E new \in LET t == desk.tree[p]
                   IN {[t EXCEPT !.head = @ + 1], [t EXCEPT !.head = @ + 1, !.watched = @ + 1],
                       [t EXCEPT !.watched = @ + 1], [t EXCEPT !.others = @ + 1]} :
          desk' = [desk EXCEPT !.tree[p] = new]
  BY DEF EditProject
<1>3. PICK new \in Trees : /\ desk' = [desk EXCEPT !.tree[p] = new]
                           /\ desk.tree[p].head <= new.head
                           /\ desk.tree[p].watched <= new.watched
  <2> DEFINE t == desk.tree[p]
             next(h, w, o) == [head |-> h, watched |-> w, others |-> o]
  <2>1. t \in Trees BY <1>1 DEF DeskTypes
  <2>3. \E new \in {next(t.head + 1, t.watched, t.others), next(t.head + 1, t.watched + 1, t.others),
                    next(t.head, t.watched + 1, t.others), next(t.head, t.watched, t.others + 1)} :
          desk' = [desk EXCEPT !.tree[p] = new]
    <3>1. /\ [t EXCEPT !.head = @ + 1] = next(t.head + 1, t.watched, t.others)
          /\ [t EXCEPT !.head = @ + 1, !.watched = @ + 1] = next(t.head + 1, t.watched + 1, t.others)
          /\ [t EXCEPT !.watched = @ + 1] = next(t.head, t.watched + 1, t.others)
          /\ [t EXCEPT !.others = @ + 1] = next(t.head, t.watched, t.others + 1)
      <4>1. ASSUME NEW r \in Trees, NEW q, q = [r EXCEPT !.head = @ + 1]
            PROVE q = next(r.head + 1, r.watched, r.others)
        BY <4>1 DEF Trees
      <4>2. ASSUME NEW r \in Trees, NEW q, q = [r EXCEPT !.head = @ + 1, !.watched = @ + 1]
            PROVE q = next(r.head + 1, r.watched + 1, r.others)
        BY <4>2 DEF Trees
      <4>3. ASSUME NEW r \in Trees, NEW q, q = [r EXCEPT !.watched = @ + 1]
            PROVE q = next(r.head, r.watched + 1, r.others)
        BY <4>3 DEF Trees
      <4>4. ASSUME NEW r \in Trees, NEW q, q = [r EXCEPT !.others = @ + 1]
            PROVE q = next(r.head, r.watched, r.others + 1)
        BY <4>4 DEF Trees
      <4> HIDE DEF next
      <4> QED BY <2>1, <4>1, <4>2, <4>3, <4>4
    <3> QED BY <1>2, <3>1
  <2>4. \A new \in {next(t.head + 1, t.watched, t.others), next(t.head + 1, t.watched + 1, t.others),
                    next(t.head, t.watched + 1, t.others), next(t.head, t.watched, t.others + 1)} :
          new \in Trees /\ t.head <= new.head /\ t.watched <= new.watched
    BY <2>1 DEF Trees
  <2> HIDE DEF next
  <2> QED BY <2>3, <2>4
<1>4. /\ desk' = [may |-> desk'.may, tree |-> desk'.tree, saved |-> desk'.saved]
      /\ desk'.tree = [desk.tree EXCEPT ![p] = new] /\ desk'.saved = desk.saved
  BY <1>1, <1>3 DEF DeskTypes
<1>5. \A q \in Projects : /\ desk.tree[q] \in Trees /\ desk'.tree[q] \in Trees
                          /\ desk.tree[q].head <= desk'.tree[q].head
                          /\ desk.tree[q].watched <= desk'.tree[q].watched
  <2>1. \A q \in Projects : desk.tree[q] \in Trees /\ desk'.tree[q] = IF q = p THEN new ELSE desk.tree[q]
    BY <1>1, <1>4 DEF DeskTypes
  <2>2. \A t \in Trees : t.head <= t.head /\ t.watched <= t.watched BY DEF Trees
  <2> QED BY <1>3, <2>1, <2>2
<1>6. DeskTypes' BY <1>1, <1>4 DEF DeskTypes
<1>7. RowsInOrder' BY <1>1, <1>4 DEF RowsInOrder, Ids, Done
<1>8. RowsBehind'
  <2> SUFFICES ASSUME NEW c \in desk.saved
               PROVE /\ c.head = NoGit \/ c.head <= c.then.head
                     /\ c.watched <= c.then.watched
                     /\ c.then.head <= desk'.tree[c.project].head
                     /\ c.then.watched <= desk'.tree[c.project].watched
    BY <1>4 DEF RowsBehind
  <2>1. c.project \in Projects /\ c.then \in Trees BY <1>1 DEF DeskTypes, Rows
  <2> DEFINE before == desk.tree[c.project]
             after == desk'.tree[c.project]
  <2>2. before \in Trees /\ after \in Trees /\ before.head <= after.head
        /\ before.watched <= after.watched
    BY <1>5, <2>1
  <2>3. /\ c.head = NoGit \/ c.head <= c.then.head
        /\ c.watched <= c.then.watched
        /\ c.then.head <= before.head
        /\ c.then.watched <= before.watched
    BY <1>1 DEF RowsBehind
  <2> HIDE DEF before, after
  <2>4. c.then.head <= after.head /\ c.then.watched <= after.watched
    BY <2>1, <2>2, <2>3 DEF Trees
  <2> QED BY <2>3, <2>4 DEF after
<1>9. SavesBehind'
  <2> SUFFICES ASSUME NEW s \in Savers
               PROVE LET tree == desk'.tree[saving[s].project]
                     IN /\ saving[s].at \in {"watched", "insert"} => saving[s].head <= tree.head
                        /\ saving[s].at = "insert" => saving[s].watched <= tree.watched
    BY <1>1 DEF SavesBehind
  <2>1. saving[s].project \in Projects /\ saving[s].head \in Nat /\ saving[s].watched \in Nat
    BY <1>1 DEF DeskTypes, Saves
  <2> DEFINE before == desk.tree[saving[s].project]
             after == desk'.tree[saving[s].project]
  <2>2. before \in Trees /\ after \in Trees /\ before.head <= after.head
        /\ before.watched <= after.watched
    BY <1>5, <2>1
  <2>3. /\ saving[s].at \in {"watched", "insert"} => saving[s].head <= before.head
        /\ saving[s].at = "insert" => saving[s].watched <= before.watched
    BY <1>1 DEF SavesBehind
  <2> HIDE DEF before, after
  <2>4. /\ saving[s].at \in {"watched", "insert"} => saving[s].head <= after.head
        /\ saving[s].at = "insert" => saving[s].watched <= after.watched
    BY <2>1, <2>2, <2>3 DEF Trees
  <2> QED BY <2>4 DEF after
<1> QED BY <1>6, <1>7, <1>8, <1>9 DEF DeskInv

LEMMA NextDesk == DeskInv /\ [RequestNext]_<<request, kept>> => DeskInv'
<1> SUFFICES ASSUME DeskInv, [RequestNext]_<<request, kept>> PROVE DeskInv'
  OBVIOUS
<1>1. CASE \E s \in Savers : ReadHead(s) \/ ReadWatched(s)
  BY <1>1, ReadStep
<1>2. CASE \E s \in Savers : InsertCheckpoint(s)
  BY <1>2, InsertStep
<1>3. CASE DeleteCheckpoint BY <1>3, DeleteStep
<1>4. CASE EditProject BY <1>4, EditStep
<1>5. CASE UNCHANGED <<desk, saving>>
  BY <1>5 DEF DeskInv, DeskTypes, RowsInOrder, RowsBehind, SavesBehind, Ids, Done
<1>6. CASE RequestNext
  BY <1>1, <1>2, <1>3, <1>4, <1>5, <1>6 DEF RequestNext, besides, kept
<1> QED BY <1>5, <1>6 DEF kept

LEMMA LatestOfDesk == DeskInv => LatestIsCurrent
<1> SUFFICES ASSUME DeskInv, desk # <<>>, NEW c \in desk.saved
             PROVE /\ Latest(c.project).nth >= c.nth
                   /\ (c.head # NoGit /\ ~StaleNow(c)) =>
                        /\ c.then.head = desk.tree[c.project].head
                        /\ c.then.watched = desk.tree[c.project].watched
  BY DEF LatestIsCurrent
<1>1. DeskTypes /\ RowsInOrder /\ RowsBehind BY DEF DeskInv
<1>2. c \in Rows /\ desk.tree[c.project] \in Trees BY <1>1 DEF DeskTypes, Rows
<1>3. Latest(c.project).nth >= c.nth
  <2> DEFINE p == c.project
             mine == {d.id : d \in OfProject(p)}
  <2>1. c \in OfProject(p) BY DEF OfProject
  <2>2. mine \in SUBSET Ids /\ mine # {} BY <2>1 DEF OfProject, Ids
  <2>3. PICK i \in mine : \A j \in mine : i >= j BY <1>1, <2>2 DEF RowsInOrder, HasGreatest
  <2>4. \E d \in OfProject(p) : \A e \in OfProject(p) : d.id >= e.id BY <2>3
  <2>5. Latest(p) \in OfProject(p) /\ Latest(p).id >= c.id BY <2>1, <2>4 DEF Latest
  <2>6. Latest(p) \in desk.saved BY <2>5 DEF OfProject
  <2> DEFINE l == Latest(p)
  <2>7. l \in Rows BY <1>1, <2>6 DEF DeskTypes
  <2>8. l.id \in Nat /\ c.id \in Nat /\ l.nth \in Nat /\ c.nth \in Nat BY <1>2, <2>7 DEF Rows
  <2>9. (c.id = l.id => c = l) /\ (c.id < l.id => c.nth < l.nth) BY <1>1, <2>6 DEF RowsInOrder
  <2> QED BY <2>5, <2>8, <2>9
<1>4. ASSUME c.head # NoGit, ~StaleNow(c)
      PROVE /\ c.then.head = desk.tree[c.project].head
            /\ c.then.watched = desk.tree[c.project].watched
  <2> DEFINE tree == desk.tree[c.project]
  <2>1. c.head <= c.then.head /\ c.then.head <= tree.head
        /\ c.watched <= c.then.watched /\ c.then.watched <= tree.watched
    BY <1>1, <1>4 DEF RowsBehind
  <2>2. c.head = tree.head /\ c.watched = tree.watched
    BY <1>2, <1>4 DEF StaleNow, Stale, NoGit, Trees
  <2>3. /\ c.then.head \in Nat /\ tree.head \in Nat /\ c.then.watched \in Nat /\ tree.watched \in Nat
    BY <1>2 DEF Rows, Trees
  <2> QED BY <2>1, <2>2, <2>3
<1> QED BY <1>3, <1>4

\* The checkpoint shown for a project is the last one saved of those left, and one that is not shown
\* as stale was saved on the commit and the watched files there are now, however many saves overlap
\* with however much work (checkpoint.rs:146, cli/checkpoint.rs:103).
THEOREM CheckpointIsCurrent == RequestSpec => []LatestIsCurrent
<1>1. RequestInit => DeskInv BY InitDesk
<1>2. DeskInv /\ [RequestNext]_<<request, kept>> => DeskInv' BY NextDesk
<1>3. DeskInv => LatestIsCurrent BY LatestOfDesk
<1> QED BY <1>1, <1>2, <1>3, PTL DEF RequestSpec
-----------------------------------------------------------------------------
(***************************************************************************)
(* Answers, and what is kept of them.                                       *)
(***************************************************************************)
AnyChunk == [kind : ChunkKinds, size : Nat, form : SUBSET Forms]

\* What has been read is how the body begins, and what is kept was looked at as it is.
AnswerInv ==
  ex # <<>> =>
    /\ ex = [body |-> ex.body, got |-> ex.got, kept |-> ex.kept, pc |-> ex.pc]
    /\ ex.body.chunks \in Seq(AnyChunk)
    /\ ex.got \in Seq(AnyChunk)
    /\ Len(ex.got) <= Len(ex.body.chunks)
    /\ \A i \in 1..Len(ex.got) : ex.got[i] = ex.body.chunks[i]
    /\ ex.kept = "stored" => /\ ex.pc \in {"answer", "answered"}
                             /\ InspectResponse(ex.body, ex.got)

LEMMA InitAnswer == RequestInit => AnswerInv
<1>1. AnswerIdle => AnswerInv BY DEF AnswerIdle, AnswerInv
<1>2. ASSUME AnswerInit PROVE AnswerInv
  <2>1. PICK b \in Bodies : ex = [body |-> b, got |-> <<>>, kept |-> "no", pc |-> "begin"]
    BY <1>2 DEF AnswerInit
  <2>2. b.chunks \in Seq(AnyChunk) BY ChunkAssumption DEF ChunkAssumption, AnyChunk
  <2> QED BY <2>1, <2>2 DEF AnswerInv
<1> QED BY <1>1, <1>2 DEF RequestInit

\* Steps that read on, or only come to another place.
MovesOn(got, pc) ==
  ex' = [body |-> ex.body, got |-> got, kept |-> ex.kept, pc |-> pc]

LEMMA ReadOn ==
  ASSUME AnswerInv, ex # <<>>, NEW pc, MovesOn(ex.got, pc),
         ex.pc \notin {"answer", "answered"} \/ pc \in {"answer", "answered"}
  PROVE AnswerInv'
BY DEF AnswerInv, MovesOn

LEMMA ReadStepOfAnswer ==
  ASSUME AnswerInv, CheckLength \/ ReadChunk \/ BreakOff \/ EndOfBody PROVE AnswerInv'
<1>1. ex # <<>> /\ ex = [body |-> ex.body, got |-> ex.got, kept |-> ex.kept, pc |-> ex.pc]
  BY DEF CheckLength, ReadChunk, BreakOff, EndOfBody, Reading, At, AnswerInv
<1>2. ex.pc \in {"begin", "read"}
  BY DEF CheckLength, ReadChunk, BreakOff, EndOfBody, Reading, At
<1>3. CASE \E pc : ex' = [ex EXCEPT !.pc = pc]
  <2>1. PICK pc : MovesOn(ex.got, pc) BY <1>1, <1>3 DEF MovesOn
  <2> QED BY <1>1, <1>2, <2>1, ReadOn
<1>4. CASE Reading /\ ex' = [ex EXCEPT !.got = Append(@, ex.body.chunks[Len(ex.got) + 1])]
  <2> DEFINE chunk == ex.body.chunks[Len(ex.got) + 1]
  <2>1. MovesOn(Append(ex.got, chunk), ex.pc) BY <1>1, <1>4 DEF MovesOn
  <2>2. Len(ex.got) < Len(ex.body.chunks) BY <1>4 DEF Reading
  <2>3. chunk \in AnyChunk BY <1>1, <2>2 DEF AnswerInv
  <2>4. /\ Append(ex.got, chunk) \in Seq(AnyChunk)
        /\ Len(Append(ex.got, chunk)) <= Len(ex.body.chunks)
        /\ \A i \in 1..Len(Append(ex.got, chunk)) : Append(ex.got, chunk)[i] = ex.body.chunks[i]
    BY <1>1, <2>2, <2>3 DEF AnswerInv
  <2>5. ex.kept # "stored" BY <1>1, <1>2 DEF AnswerInv
  <2> HIDE DEF chunk
  <2> QED BY <1>1, <2>1, <2>4, <2>5 DEF AnswerInv, MovesOn
<1> QED BY <1>3, <1>4 DEF CheckLength, ReadChunk, BreakOff, EndOfBody

LEMMA KeepStep ==
  ASSUME AnswerInv, Keep PROVE AnswerInv'
<1>1. /\ ex # <<>> /\ ex.pc = "collected"
      /\ ex = [body |-> ex.body, got |-> ex.got, kept |-> ex.kept, pc |-> ex.pc]
  BY DEF Keep, At, AnswerInv
<1> DEFINE looked == ex.body.cached /\ ex.body.status \in 200..299
           safe == InspectResponse(ex.body, ex.got)
           kept1 == CASE looked /\ safe /\ Size(ex.got) <= ex.body.max_entry -> "stored"
                      [] looked /\ ~safe -> "rejected"
                      [] OTHER -> "no"
<1>2. ex' = [ex EXCEPT !.kept = kept1, !.pc = "answer"]
  BY DEF Keep
<1>3. kept1 = "stored" => InspectResponse(ex.body, ex.got)
  <2> HIDE DEF looked
  <2> QED OBVIOUS
<1> HIDE DEF kept1
<1>4. ex' = [body |-> ex.body, got |-> ex.got, kept |-> kept1, pc |-> "answer"]
  BY <1>1, <1>2
<1> QED BY <1>1, <1>3, <1>4 DEF AnswerInv

LEMMA NextAnswer == AnswerInv /\ [RequestNext]_<<request, kept>> => AnswerInv'
<1> SUFFICES ASSUME AnswerInv, [RequestNext]_<<request, kept>> PROVE AnswerInv'
  OBVIOUS
<1>1. CASE CheckLength \/ ReadChunk \/ BreakOff \/ EndOfBody
  BY <1>1, ReadStepOfAnswer
<1>2. CASE Keep BY <1>2, KeepStep
<1>3. CASE Observe
  <2>1. ex # <<>> /\ ex.pc = "answer" /\ MovesOn(ex.got, "answered")
    BY <1>3 DEF Observe, At, AnswerInv, MovesOn
  <2> QED BY <2>1, ReadOn
<1>4. CASE UNCHANGED ex
  BY <1>4 DEF AnswerInv
<1>5. CASE RequestNext
  BY <1>1, <1>2, <1>3, <1>4, <1>5 DEF RequestNext, SaveCheckpoint, request, answerVars
<1> QED BY <1>4, <1>5 DEF request, answerVars

LEMMA KeptIsSafe == AnswerInv => ReplayIsSafe
<1> SUFFICES ASSUME AnswerInv, ex # <<>>, ex.kept = "stored"
             PROVE IF ex.body.sse
                   THEN \A i \in DOMAIN ex.got :
                          ex.got[i].kind \in Tools => ~(Documented \subseteq ex.got[i].form)
                   ELSE "event_text" \notin Kinds(ex.body.chunks) =>
                          Kinds(ex.got) \cap Tools = {} /\ ex.got = ex.body.chunks
  BY DEF ReplayIsSafe
<1>1. InspectResponse(ex.body, ex.got) BY DEF AnswerInv
<1>2. CASE ex.body.sse
  <2> SUFFICES ASSUME NEW i \in DOMAIN ex.got, ex.got[i].kind \in Tools, Documented \subseteq ex.got[i].form
               PROVE FALSE
    BY <1>2
  <2>1. ~ShowsTool(ex.got[i]) BY <1>1, <1>2 DEF InspectResponse, InspectSse, Parses, InspectJson
  <2>2. ex.got[i].kind = "tool_use" \/ ex.got[i].kind = "stop_tool" BY DEF Tools
  <2> QED BY <2>1, <2>2 DEF ShowsTool, Documented
<1>3. CASE ~ex.body.sse
  <2> SUFFICES ASSUME "event_text" \notin Kinds(ex.body.chunks)
               PROVE Kinds(ex.got) \cap Tools = {} /\ ex.got = ex.body.chunks
    BY <1>3
  <2>1. "event_text" \notin Kinds(ex.got) BY DEF AnswerInv, Kinds
  <2>2. ~LooksLikeSse(ex.body, ex.got) BY <1>3, <2>1 DEF LooksLikeSse
  <2> QED BY <1>1, <2>2 DEF InspectResponse, InspectJson, Parses
<1> QED BY <1>2, <1>3

\* Whatever the chunks an answer came in, however they are written and wherever the connection broke
\* off: what the safe cache keeps of a stream has no tool call as the Messages API writes it, and of a
\* JSON answer no tool call at all, and the whole of it, if no text has "event: " (inspect.rs:13).
THEOREM KeptCanBeReplayed == RequestSpec => []ReplayIsSafe
<1>1. RequestInit => AnswerInv BY InitAnswer
<1>2. AnswerInv /\ [RequestNext]_<<request, kept>> => AnswerInv' BY NextAnswer
<1>3. AnswerInv => ReplayIsSafe BY KeptIsSafe
<1> QED BY <1>1, <1>2, <1>3, PTL DEF RequestSpec
-----------------------------------------------------------------------------
(****************************************************************************)
(* The length of an answer.                                                 *)
(****************************************************************************)
\* The size of a body that has grown by a chunk.
LEMMA SizeOfMore ==
  ASSUME NEW got \in Seq(AnyChunk), NEW c \in AnyChunk
  PROVE /\ Size(got) \in Nat
        /\ Size(Append(got, c)) = Size(got) + c.size
<1> DEFINE n == Len(got)
           f == [i \in DOMAIN got |-> got[i].size]
           g == [i \in DOMAIN Append(got, c) |-> Append(got, c)[i].size]
<1>1. n \in Nat /\ DOMAIN got = 1..n /\ \A i \in 1..n : got[i] \in AnyChunk OBVIOUS
<1>2. /\ DOMAIN Append(got, c) = 1..(n + 1) /\ Append(got, c)[n + 1] = c
      /\ \A i \in 1..n : Append(got, c)[i] = got[i]
  OBVIOUS
<1>3. DOMAIN f = 1..n /\ \A i \in 1..n : f[i] = got[i].size BY <1>1
<1>4. DOMAIN g = 1..(n + 1) /\ g[n + 1] = c.size /\ \A i \in 1..n : g[i] = got[i].size
  BY <1>1, <1>2
<1>5. Size(got) = SumFunctionOnSet(f, 1..n) BY <1>3 DEF Size, SumFunction
<1>6. Size(Append(got, c)) = SumFunctionOnSet(g, 1..(n + 1)) BY <1>4 DEF Size, SumFunction
<1> HIDE DEF n, f, g
<1>7. IsFiniteSet(1..n) /\ IsFiniteSet(1..(n + 1)) BY <1>1, FS_Interval
<1>8. \A i \in 1..n : f[i] = g[i] /\ f[i] \in Nat BY <1>1, <1>3, <1>4 DEF AnyChunk
<1>9. \A i \in 1..(n + 1) : g[i] \in Nat
  <2>1. \A i \in 1..(n + 1) : i \in 1..n \/ i = n + 1 BY <1>1
  <2>2. g[n + 1] \in Nat BY <1>4 DEF AnyChunk
  <2> QED BY <1>8, <2>1, <2>2
<1>10. SumFunctionOnSet(f, 1..n) = SumFunctionOnSet(g, 1..n) BY <1>7, <1>8, SumSame
<1>11. SumFunctionOnSet(g, 1..(n + 1)) = g[n + 1] + SumFunctionOnSet(g, 1..n)
  <2>1. n + 1 \in 1..(n + 1) /\ (1..(n + 1)) \ {n + 1} = 1..n BY <1>1
  <2>2. SumFunctionOnSet(g, 1..(n + 1)) = g[n + 1] + SumFunctionOnSet(g, (1..(n + 1)) \ {n + 1})
    BY <1>7, <1>9, <2>1, SumLess
  <2> QED BY <2>1, <2>2
<1>12. SumFunctionOnSet(f, 1..n) \in Nat BY <1>7, <1>8, SumIsNat
<1> QED BY <1>4, <1>5, <1>6, <1>10, <1>11, <1>12 DEF AnyChunk

LEMMA SizeOfNone == Size(<<>>) = 0
<1>1. DOMAIN [i \in DOMAIN <<>> |-> <<>>[i].size] = {} OBVIOUS
<1> QED BY <1>1, SumEmpty DEF Size, SumFunction

LEMMA ChunkAt ==
  ASSUME NEW s \in Seq(AnyChunk), NEW i \in 1..Len(s) PROVE s[i].size \in Nat
<1>1. s[i] \in AnyChunk OBVIOUS
<1> QED BY <1>1 DEF AnyChunk

LEMMA SumUpTo ==
  ASSUME NEW m \in Nat, NEW n \in Nat, n <= m, NEW g, \A i \in 1..m : g[i] \in Nat
  PROVE SumFunctionOnSet(g, 1..n) <= SumFunctionOnSet(g, 1..m)
<1> DEFINE few == 1..n
           all == 1..m
<1>1. IsFiniteSet(few) /\ IsFiniteSet(all) BY FS_Interval
<1>2. few \in SUBSET all /\ \A i \in all : g[i] \in Nat OBVIOUS
<1> HIDE DEF few, all
<1>3. SumFunctionOnSet(g, all) = SumFunctionOnSet(g, few) + SumFunctionOnSet(g, all \ few)
  BY <1>1, <1>2, SumSplit
<1>4. IsFiniteSet(all \ few) BY <1>1, FS_Difference
<1>5. SumFunctionOnSet(g, few) \in Nat /\ SumFunctionOnSet(g, all \ few) \in Nat
  BY <1>1, <1>2, <1>4, SumIsNat
<1>6. SumFunctionOnSet(g, few) <= SumFunctionOnSet(g, all) BY <1>3, <1>5
<1> QED BY <1>6 DEF few, all

\* What has been read of a body is no longer than the body.
LEMMA SizeOfPart ==
  ASSUME NEW got \in Seq(AnyChunk), NEW chunks \in Seq(AnyChunk), Len(got) <= Len(chunks),
         \A i \in 1..Len(got) : got[i] = chunks[i]
  PROVE Size(got) <= Size(chunks)
<1> DEFINE f == [i \in DOMAIN got |-> got[i].size]
           g == [i \in DOMAIN chunks |-> chunks[i].size]
<1>1. /\ Len(got) \in Nat /\ Len(chunks) \in Nat
      /\ DOMAIN got = 1..Len(got) /\ DOMAIN chunks = 1..Len(chunks)
  OBVIOUS
<1>2. \A i \in 1..Len(chunks) : chunks[i].size \in Nat BY ChunkAt
<1>3. DOMAIN f = 1..Len(got) /\ \A i \in 1..Len(got) : f[i] = got[i].size BY <1>1
<1>4. DOMAIN g = 1..Len(chunks) /\ \A i \in 1..Len(chunks) : g[i] = chunks[i].size BY <1>1
<1>5. Size(got) = SumFunctionOnSet(f, 1..Len(got)) BY <1>3 DEF Size, SumFunction
<1>6. Size(chunks) = SumFunctionOnSet(g, 1..Len(chunks)) BY <1>4 DEF Size, SumFunction
<1> HIDE DEF f, g
<1>7. \A i \in 1..Len(chunks) : g[i] \in Nat BY <1>2, <1>4
<1>8. \A i \in 1..Len(got) : f[i] = g[i] /\ f[i] \in Nat BY <1>1, <1>3, <1>4, <1>7
<1>9. IsFiniteSet(1..Len(got)) BY <1>1, FS_Interval
<1>10. SumFunctionOnSet(f, 1..Len(got)) = SumFunctionOnSet(g, 1..Len(got))
  BY <1>8, <1>9, SumSame
<1>11. SumFunctionOnSet(g, 1..Len(got)) <= SumFunctionOnSet(g, 1..Len(chunks))
  BY <1>1, <1>7, SumUpTo
<1> QED BY <1>5, <1>6, <1>10, <1>11

\* What has been read is within the limit, and why a body was refused.
LimitsInv ==
  ex # <<>> =>
    /\ ex.body.max \in Nat
    /\ ex.body.declared \in {NoLength, Size(ex.body.chunks)}
    /\ Size(ex.got) \in Nat /\ Size(ex.got) <= ex.body.max
    /\ ex.pc \in {"413", "502"} => Size(ex.body.chunks) > ex.body.max
    /\ ex.pc = "accepted" => ex.got = ex.body.chunks
    /\ ex.pc = "400" => ex.body.faulty

LEMMA InitLimits == RequestInit => LimitsInv
<1>1. AnswerIdle => LimitsInv BY DEF AnswerIdle, LimitsInv
<1>2. ASSUME AnswerInit PROVE LimitsInv
  <2>1. PICK b \in Bodies : ex = [body |-> b, got |-> <<>>, kept |-> "no", pc |-> "begin"]
    BY <1>2 DEF AnswerInit
  <2>2. b.max \in Nat /\ b.declared \in {NoLength, Size(b.chunks)}
    BY LengthAssumption DEF LengthAssumption
  <2> QED BY <2>1, <2>2, SizeOfNone DEF LimitsInv
<1> QED BY <1>1, <1>2 DEF RequestInit

LEMMA LimitsStep ==
  ASSUME AnswerInv, LimitsInv, CheckLength \/ ReadChunk \/ BreakOff \/ EndOfBody \/ Keep \/ Observe
  PROVE LimitsInv'
<1>1. ex # <<>> /\ ex = [body |-> ex.body, got |-> ex.got, kept |-> ex.kept, pc |-> ex.pc]
  BY DEF CheckLength, ReadChunk, BreakOff, EndOfBody, Reading, Keep, Observe, At, AnswerInv
<1>2. /\ ex.body.max \in Nat
      /\ ex.body.declared \in {NoLength, Size(ex.body.chunks)}
      /\ Size(ex.got) \in Nat /\ Size(ex.got) <= ex.body.max
  BY <1>1 DEF LimitsInv
<1>3. ex.got \in Seq(AnyChunk) /\ ex.body.chunks \in Seq(AnyChunk) BY <1>1 DEF AnswerInv
<1>4. CASE CheckLength
  <2>1. PICK pc : /\ MovesOn(ex.got, pc) /\ pc \in {"413", "read"}
                  /\ pc = "413" => ex.body.declared > ex.body.max
    <3>1. \/ ex' = [ex EXCEPT !.pc = "413"] /\ ex.body.declared > ex.body.max
          \/ ex' = [ex EXCEPT !.pc = "read"]
      BY <1>4 DEF CheckLength
    <3>2. \/ MovesOn(ex.got, "413") /\ ex.body.declared > ex.body.max
          \/ MovesOn(ex.got, "read")
      BY <1>1, <3>1 DEF MovesOn
    <3> QED BY <3>2
  <2>2. pc = "413" => Size(ex.body.chunks) > ex.body.max BY <1>2, <2>1 DEF NoLength
  <2> QED BY <1>2, <2>1, <2>2 DEF MovesOn, LimitsInv
<1>5. CASE ReadChunk
  <2> DEFINE chunk == ex.body.chunks[Len(ex.got) + 1]
             longer == Append(ex.got, chunk)
  <2>1. Len(ex.got) < Len(ex.body.chunks) /\ ex.pc = "read" BY <1>5 DEF ReadChunk, Reading, At
  <2>2. chunk \in AnyChunk BY <1>3, <2>1
  <2>3. Size(longer) = Size(ex.got) + chunk.size BY <1>3, <2>2, SizeOfMore
  <2>4. CASE WithinLimit(chunk)
    <3>1. MovesOn(longer, "read") BY <1>1, <1>5, <2>1, <2>4 DEF ReadChunk, MovesOn
    <3>2. Size(longer) \in Nat /\ Size(longer) <= ex.body.max
      BY <1>2, <2>2, <2>3, <2>4 DEF WithinLimit, AnyChunk
    <3> HIDE DEF longer
    <3> QED BY <1>2, <3>1, <3>2 DEF MovesOn, LimitsInv
  <2>5. CASE ~WithinLimit(chunk)
    <3>1. PICK pc : MovesOn(ex.got, pc) /\ pc \in {"413", "502"}
      BY <1>1, <1>5, <2>5 DEF ReadChunk, MovesOn
    <3>2. Size(longer) <= Size(ex.body.chunks)
      <4>1. /\ longer \in Seq(AnyChunk) /\ Len(longer) <= Len(ex.body.chunks)
            /\ \A i \in 1..Len(longer) : longer[i] = ex.body.chunks[i]
        BY <1>1, <1>3, <2>1, <2>2 DEF AnswerInv
      <4> HIDE DEF longer
      <4> QED BY <1>3, <4>1, SizeOfPart
    <3>3. Size(longer) > ex.body.max BY <1>2, <2>2, <2>3, <2>5 DEF WithinLimit, AnyChunk
    <3>4. Size(ex.body.chunks) \in Nat BY <1>3, <2>2, SizeOfMore
    <3>5. Size(longer) \in Nat BY <1>2, <2>2, <2>3 DEF AnyChunk
    <3> HIDE DEF longer
    <3>6. Size(ex.body.chunks) > ex.body.max BY <1>2, <3>2, <3>3, <3>4, <3>5
    <3> QED BY <1>2, <3>1, <3>6 DEF MovesOn, LimitsInv
  <2> QED BY <2>4, <2>5
<1>6. CASE BreakOff
  <2>1. PICK pc : MovesOn(ex.got, pc) /\ pc \in {"400", "collected"}
    BY <1>1, <1>6 DEF BreakOff, MovesOn
  <2>2. ex.body.faulty BY <1>6 DEF BreakOff
  <2> QED BY <1>2, <2>1, <2>2 DEF MovesOn, LimitsInv
<1>7. CASE EndOfBody
  <2>1. PICK pc : MovesOn(ex.got, pc) /\ pc \in {"accepted", "collected"}
    BY <1>1, <1>7 DEF EndOfBody, MovesOn
  <2>2. Len(ex.got) = Len(ex.body.chunks) BY <1>7 DEF EndOfBody
  <2>3. ex.got = ex.body.chunks BY <1>1, <1>3, <2>2 DEF AnswerInv
  <2> QED BY <1>2, <2>1, <2>3 DEF MovesOn, LimitsInv
<1>8. CASE Keep
  <2>1. PICK kept1 : ex' = [ex EXCEPT !.kept = kept1, !.pc = "answer"] BY <1>8 DEF Keep
  <2>2. ex' = [body |-> ex.body, got |-> ex.got, kept |-> kept1, pc |-> "answer"] BY <1>1, <2>1
  <2> QED BY <1>2, <2>2 DEF LimitsInv
<1>9. CASE Observe
  <2>1. MovesOn(ex.got, "answered") BY <1>1, <1>9 DEF Observe, MovesOn
  <2> QED BY <1>2, <2>1 DEF MovesOn, LimitsInv
<1> QED BY <1>4, <1>5, <1>6, <1>7, <1>8, <1>9

LEMMA NextLimits == AnswerInv /\ LimitsInv /\ [RequestNext]_<<request, kept>> => LimitsInv'
<1> SUFFICES ASSUME AnswerInv, LimitsInv, [RequestNext]_<<request, kept>> PROVE LimitsInv'
  OBVIOUS
<1>1. CASE CheckLength \/ ReadChunk \/ BreakOff \/ EndOfBody \/ Keep \/ Observe
  BY <1>1, LimitsStep
<1>2. CASE UNCHANGED ex BY <1>2 DEF LimitsInv
<1>3. CASE RequestNext
  BY <1>1, <1>2, <1>3 DEF RequestNext, SaveCheckpoint, request, answerVars
<1> QED BY <1>2, <1>3 DEF request, answerVars

LEMMA ExactLimits == AnswerInv /\ LimitsInv => LimitsAreExact
<1> SUFFICES ASSUME AnswerInv, LimitsInv, ex # <<>>
             PROVE LET full == Size(ex.body.chunks)
                   IN /\ ex.pc \in {"413", "502"} => full > ex.body.max
                      /\ ex.pc = "accepted" => full <= ex.body.max /\ ex.got = ex.body.chunks
                      /\ ex.pc \in {"collected", "answer", "answered"} => Size(ex.got) <= ex.body.max
                      /\ full <= ex.body.max /\ ~ex.body.faulty => ex.pc \notin {"413", "502", "400"}
  BY DEF LimitsAreExact
<1>1. Size(ex.body.chunks) \in Nat
  <2>1. ex.body.chunks \in Seq(AnyChunk) BY DEF AnswerInv
  <2>2. [kind |-> "data", size |-> 0, form |-> {}] \in AnyChunk BY DEF AnyChunk, ChunkKinds
  <2> QED BY <2>1, <2>2, SizeOfMore
<1> QED BY <1>1 DEF LimitsInv

\* A body is refused for its length exactly when it is too long, however it is cut into chunks and
\* wherever it breaks off, for any limit and any length (bounded_body.rs:12, routes.rs:87).
THEOREM LimitIsTheLength == RequestSpec => []LimitsAreExact
<1>1. RequestInit => AnswerInv /\ LimitsInv BY InitAnswer, InitLimits
<1>2. AnswerInv /\ LimitsInv /\ [RequestNext]_<<request, kept>> => (AnswerInv /\ LimitsInv)'
  BY NextAnswer, NextLimits
<1>3. AnswerInv /\ LimitsInv => LimitsAreExact BY ExactLimits
<1> QED BY <1>1, <1>2, <1>3, PTL DEF RequestSpec
-----------------------------------------------------------------------------
(***************************************************************************)
(* Migrated profiles, edited and resolved.                                  *)
(***************************************************************************)
Moved == Secret("environment", "API_KEY")

SecretsOf(p) == {MigrateAuth(p.auth_method).secret_ref, Moved}

UpstreamWith(p, secret) ==
  [id |-> DeriveId("upstream", p.name), url |-> p.upstream_url, headers |-> p.headers,
   auth |-> [secret_ref |-> secret, header_name |-> MigrateAuth(p.auth_method).header_name]]

PolicyOf(p) ==
  [id |-> DeriveId("policy", p.name), cache |-> p.cache, reduce |-> p.reduce,
   efficiency |-> p.efficiency, safe_cache |-> p.safe_cache]

UpstreamsOf(ps) == UNION {{UpstreamWith(ps[i], secret) : secret \in SecretsOf(ps[i])} : i \in DOMAIN ps}

PoliciesOf(ps) == {PolicyOf(ps[i]) : i \in DOMAIN ps}

\* The parts of a configuration that a user takes out at most one of each from.
Left(list, all, n, removed) ==
  /\ list \in Seq(all)
  /\ Len(list) <= n
  /\ ~removed => Len(list) = n

AllOf(list, more) == \A k \in DOMAIN list : \E j \in DOMAIN more : list[k] = more[j]

DistinctIds(list) == \A j, k \in 1..Len(list) : list[j].id = list[k].id => j = k

\* Each part of the configuration comes from a profile, a secret stays where it was until it is
\* moved, and what nothing was taken out of is complete.
ConfigInv(file, config, edited) ==
  LET ps == file.profiles
      new == MigrateV1ToV2(file)
  IN /\ config = [default |-> new.default, integrations |-> new.integrations,
                  upstreams |-> config.upstreams, policies |-> config.policies]
     /\ Left(config.upstreams, UpstreamsOf(ps), Len(ps), "upstreams" \in edited)
     /\ Left(config.policies, PoliciesOf(ps), Len(ps), "policies" \in edited)
     /\ DistinctNames(file) => DistinctIds(config.upstreams) /\ DistinctIds(config.policies)
     /\ "upstreams" \notin edited =>
          \A i \in DOMAIN ps : config.upstreams[i].id = DeriveId("upstream", ps[i].name)
     /\ "policies" \notin edited =>
          \A i \in DOMAIN ps : config.policies[i].id = DeriveId("policy", ps[i].name)
     /\ "secret" \notin edited =>
          \A k \in DOMAIN config.upstreams : \E i \in DOMAIN ps :
            config.upstreams[k] = UpstreamWith(ps[i], MigrateAuth(ps[i].auth_method).secret_ref)

LoadingInv ==
  loading # None =>
    /\ loading = [profiles |-> loading.profiles, config |-> loading.config,
                  resolved |-> loading.resolved, edited |-> loading.edited, pc |-> loading.pc]
    /\ loading.profiles \in ProfileFiles
    /\ loading.pc = "migrate" => loading.edited = {}
    /\ loading.pc # "migrate" => ConfigInv(loading.profiles, loading.config, loading.edited)
    /\ loading.pc = "resolved" => loading.resolved = ResolveDefault(loading.config)

LEMMA RemovedFrom ==
  ASSUME NEW X, NEW s \in Seq(X), NEW i \in 1..Len(s)
  PROVE /\ RemoveAt(s, i) \in Seq(X)
        /\ Len(RemoveAt(s, i)) = Len(s) - 1
        /\ \A k \in 1..(Len(s) - 1) : RemoveAt(s, i)[k] = IF k < i THEN s[k] ELSE s[k + 1]
<1> DEFINE a == SubSeq(s, 1, i - 1)
           b == SubSeq(s, i + 1, Len(s))
<1>1. a \in Seq(X) /\ Len(a) = i - 1 /\ \A k \in 1..(i - 1) : a[k] = s[k]
  OBVIOUS
<1>2. b \in Seq(X) /\ Len(b) = Len(s) - i /\ \A k \in 1..(Len(s) - i) : b[k] = s[k + i]
  OBVIOUS
<1>3. RemoveAt(s, i) = a \o b
  BY DEF RemoveAt
<1> HIDE DEF a, b
<1>4. a \o b \in Seq(X) /\ Len(a \o b) = Len(s) - 1
  <2>1. a \o b \in Seq(X) /\ Len(a \o b) = Len(a) + Len(b)
    BY <1>1, <1>2, ConcatProperties
  <2> QED BY <1>1, <1>2, <2>1
<1>5. ASSUME NEW k \in 1..(Len(s) - 1) PROVE (a \o b)[k] = IF k < i THEN s[k] ELSE s[k + 1]
  <2>1. CASE k < i BY <1>1, <1>2, <2>1
  <2>2. CASE ~(k < i)
    <3>1. k - (i - 1) \in 1..(Len(s) - i) /\ (k - (i - 1)) + i = k + 1 BY <2>2
    <3>2. (a \o b)[k] = b[k - (i - 1)] BY <1>1, <1>2, <2>2
    <3>3. b[k - (i - 1)] = s[k + 1] BY <1>2, <3>1
    <3> QED BY <2>2, <3>2, <3>3
  <2> QED BY <2>1, <2>2
<1> QED BY <1>3, <1>4, <1>5

LEMMA RemovedKeeps ==
  ASSUME NEW all, NEW n \in Nat, NEW list, Left(list, all, n, FALSE), NEW i \in 1..n
  PROVE /\ Left(RemoveAt(list, i), all, n, TRUE)
        /\ DistinctIds(list) => DistinctIds(RemoveAt(list, i))
        /\ AllOf(RemoveAt(list, i), list)
<1> DEFINE less == RemoveAt(list, i)
<1>1. list \in Seq(all) /\ Len(list) = n BY DEF Left
<1>2. /\ less \in Seq(all) /\ Len(less) = n - 1
      /\ \A k \in 1..(n - 1) : less[k] = IF k < i THEN list[k] ELSE list[k + 1]
  BY <1>1, RemovedFrom
<1> HIDE DEF less
<1>3. \A k \in 1..(n - 1) : \E j \in 1..n : less[k] = list[j] /\ j = IF k < i THEN k ELSE k + 1
  BY <1>2
<1>4. Left(less, all, n, TRUE) BY <1>2 DEF Left
<1>5. DistinctIds(list) => DistinctIds(less)
  <2> SUFFICES ASSUME DistinctIds(list), NEW j \in 1..(n - 1), NEW k \in 1..(n - 1),
                      less[j].id = less[k].id
               PROVE j = k
    BY <1>2 DEF DistinctIds
  <2>1. PICK x \in 1..n : less[j] = list[x] /\ x = IF j < i THEN j ELSE j + 1 BY <1>3
  <2>2. PICK y \in 1..n : less[k] = list[y] /\ y = IF k < i THEN k ELSE k + 1 BY <1>3
  <2>3. x = y BY <1>1, <2>1, <2>2 DEF DistinctIds
  <2> QED BY <2>1, <2>2, <2>3
<1>6. AllOf(less, list)
  <2>1. DOMAIN less = 1..(n - 1) /\ DOMAIN list = 1..n BY <1>1, <1>2
  <2>2. ASSUME NEW k \in 1..(n - 1) PROVE \E j \in 1..n : less[k] = list[j] BY <1>3
  <2> QED BY <2>1, <2>2, Zenon DEF AllOf
<1> QED BY <1>4, <1>5, <1>6 DEF less

LEMMA AuthShape ==
  ASSUME NEW auth, auth.type \in {"api_key", "bearer", "none"}
  PROVE MigrateAuth(auth) = [secret_ref |-> MigrateAuth(auth).secret_ref,
                             header_name |-> MigrateAuth(auth).header_name]
<1>1. CASE auth.type = "api_key" BY <1>1 DEF MigrateAuth
<1>2. CASE auth.type = "bearer" BY <1>2 DEF MigrateAuth
<1>3. CASE auth.type = "none" BY <1>3 DEF MigrateAuth
<1> QED BY <1>1, <1>2, <1>3

LEMMA MigratedParts ==
  ASSUME NEW file \in ProfileFiles
  PROVE LET ps == file.profiles
            new == MigrateV1ToV2(file)
        IN /\ new = [default |-> new.default, integrations |-> new.integrations,
                     upstreams |-> new.upstreams, policies |-> new.policies]
           /\ new.upstreams =
                [i \in DOMAIN ps |-> UpstreamWith(ps[i], MigrateAuth(ps[i].auth_method).secret_ref)]
           /\ new.policies = [i \in DOMAIN ps |-> PolicyOf(ps[i])]
           /\ new.integrations =
                [i \in DOMAIN ps |->
                   [id |-> DeriveId("integration", ps[i].name), name |-> ps[i].name,
                    upstream |-> DeriveId("upstream", ps[i].name),
                    policy |-> DeriveId("policy", ps[i].name), models |-> ps[i].models]]
<1> DEFINE ps == file.profiles
           new == MigrateV1ToV2(file)
<1>1. \A i \in DOMAIN ps : MigrateAuth(ps[i].auth_method) =
        [secret_ref |-> MigrateAuth(ps[i].auth_method).secret_ref,
         header_name |-> MigrateAuth(ps[i].auth_method).header_name]
  BY ProfileAssumption, AuthShape DEF ProfileAssumption
<1>2. new.upstreams =
        [i \in DOMAIN ps |->
           [id |-> DeriveId("upstream", ps[i].name), url |-> ps[i].upstream_url,
            headers |-> ps[i].headers, auth |-> MigrateAuth(ps[i].auth_method)]]
  BY DEF MigrateV1ToV2
<1>3. new.upstreams =
        [i \in DOMAIN ps |-> UpstreamWith(ps[i], MigrateAuth(ps[i].auth_method).secret_ref)]
  <2>1. \A i \in DOMAIN ps :
          [id |-> DeriveId("upstream", ps[i].name), url |-> ps[i].upstream_url,
           headers |-> ps[i].headers, auth |-> MigrateAuth(ps[i].auth_method)]
          = UpstreamWith(ps[i], MigrateAuth(ps[i].auth_method).secret_ref)
    BY <1>1 DEF UpstreamWith
  <2> QED BY <1>2, <2>1
<1>4. new.policies = [i \in DOMAIN ps |-> PolicyOf(ps[i])]
  BY DEF MigrateV1ToV2, PolicyOf
<1>5. new.integrations =
        [i \in DOMAIN ps |->
           [id |-> DeriveId("integration", ps[i].name), name |-> ps[i].name,
            upstream |-> DeriveId("upstream", ps[i].name),
            policy |-> DeriveId("policy", ps[i].name), models |-> ps[i].models]]
  BY DEF MigrateV1ToV2
<1>6. new = [default |-> new.default, integrations |-> new.integrations,
             upstreams |-> new.upstreams, policies |-> new.policies]
  BY DEF MigrateV1ToV2
<1> QED BY <1>3, <1>4, <1>5, <1>6

\* The identifiers of two names are one only if the names are.
LEMMA SameId ==
  ASSUME NEW prefix, NEW a, NEW b
  PROVE DeriveId(prefix, a) = DeriveId(prefix, b) <=> Normal(a) = Normal(b)
BY DEF DeriveId

LEMMA MigratedIsComplete ==
  ASSUME NEW file \in ProfileFiles
  PROVE ConfigInv(file, MigrateV1ToV2(file), {})
<1> DEFINE ps == file.profiles
           new == MigrateV1ToV2(file)
<1>1. Len(ps) \in Nat /\ DOMAIN ps = 1..Len(ps)
  BY ProfileAssumption DEF ProfileAssumption
<1>2. /\ new.upstreams =
           [i \in DOMAIN ps |-> UpstreamWith(ps[i], MigrateAuth(ps[i].auth_method).secret_ref)]
      /\ new.policies = [i \in DOMAIN ps |-> PolicyOf(ps[i])]
      /\ new = [default |-> new.default, integrations |-> new.integrations,
                upstreams |-> new.upstreams, policies |-> new.policies]
  BY MigratedParts
<1> HIDE DEF new
<1>3. /\ \A i \in DOMAIN ps : /\ new.upstreams[i] \in UpstreamsOf(ps)
                              /\ new.upstreams[i].id = DeriveId("upstream", ps[i].name)
      /\ DOMAIN new.upstreams = 1..Len(ps)
  BY <1>1, <1>2 DEF UpstreamsOf, SecretsOf, UpstreamWith
<1>4. /\ \A i \in DOMAIN ps : /\ new.policies[i] \in PoliciesOf(ps)
                              /\ new.policies[i].id = DeriveId("policy", ps[i].name)
      /\ DOMAIN new.policies = 1..Len(ps)
  BY <1>1, <1>2 DEF PoliciesOf, PolicyOf
<1>5. new.upstreams \in Seq(UpstreamsOf(ps)) /\ Len(new.upstreams) = Len(ps)
  <2>1. new.upstreams \in [1..Len(ps) -> UpstreamsOf(ps)] BY <1>1, <1>2, <1>3
  <2> QED BY <1>1, <2>1, SeqDef
<1>6. new.policies \in Seq(PoliciesOf(ps)) /\ Len(new.policies) = Len(ps)
  <2>1. new.policies \in [1..Len(ps) -> PoliciesOf(ps)] BY <1>1, <1>2, <1>4
  <2> QED BY <1>1, <2>1, SeqDef
<1>7. /\ Left(new.upstreams, UpstreamsOf(ps), Len(ps), "upstreams" \in {})
      /\ Left(new.policies, PoliciesOf(ps), Len(ps), "policies" \in {})
  BY <1>1, <1>5, <1>6 DEF Left
<1>8. DistinctNames(file) => DistinctIds(new.upstreams) /\ DistinctIds(new.policies)
  <2> SUFFICES ASSUME DistinctNames(file), NEW j \in 1..Len(ps), NEW k \in 1..Len(ps),
                      \/ new.upstreams[j].id = new.upstreams[k].id
                      \/ new.policies[j].id = new.policies[k].id
               PROVE j = k
    BY <1>5, <1>6 DEF DistinctIds
  <2>1. Normal(ps[j].name) = Normal(ps[k].name) BY <1>1, <1>3, <1>4, SameId
  <2> QED BY <1>1, <2>1 DEF DistinctNames
<1>9. \A k \in DOMAIN new.upstreams : \E i \in DOMAIN ps :
        new.upstreams[k] = UpstreamWith(ps[i], MigrateAuth(ps[i].auth_method).secret_ref)
  BY <1>2
<1>10. ConfigInv(file, new, {})
  BY <1>2, <1>3, <1>4, <1>7, <1>8, <1>9 DEF ConfigInv, new
<1> QED BY <1>10 DEF new

LEMMA InitLoading == RequestInit => LoadingInv
<1>1. ResolutionIdle => LoadingInv BY DEF ResolutionIdle, LoadingInv
<1>2. ResolutionInit => LoadingInv BY DEF ResolutionInit, LoadingInv
<1> QED BY <1>1, <1>2 DEF RequestInit

LEMMA MigrateStep ==
  ASSUME LoadingInv, Migrate PROVE LoadingInv'
<1>1. /\ loading # None /\ loading.profiles \in ProfileFiles /\ loading.edited = {}
      /\ loading' = [profiles |-> loading.profiles, config |-> MigrateV1ToV2(loading.profiles),
                     resolved |-> loading.resolved, edited |-> loading.edited, pc |-> "edit"]
  BY DEF Migrate, LoadingInv
<1>2. ConfigInv(loading.profiles, MigrateV1ToV2(loading.profiles), {})
  BY <1>1, MigratedIsComplete
<1> QED BY <1>1, <1>2 DEF LoadingInv

LEMMA ResolveStep ==
  ASSUME LoadingInv, Resolve PROVE LoadingInv'
<1>1. /\ loading # None /\ loading.pc = "edit"
      /\ loading' = [profiles |-> loading.profiles, config |-> loading.config,
                     resolved |-> ResolveDefault(loading.config), edited |-> loading.edited,
                     pc |-> "resolved"]
  BY DEF Resolve, LoadingInv
<1> QED BY <1>1 DEF LoadingInv

\* What a removal leaves of the upstreams, or of the policies.
LEMMA UpstreamRemoved ==
  ASSUME NEW file \in ProfileFiles, NEW config, NEW edited, ConfigInv(file, config, edited),
         "upstreams" \notin edited, NEW i \in DOMAIN config.upstreams,
         NEW after, after = [default |-> config.default, integrations |-> config.integrations,
                             upstreams |-> RemoveAt(config.upstreams, i),
                             policies |-> config.policies]
  PROVE ConfigInv(file, after, edited \cup {"upstreams"})
<1> DEFINE ps == file.profiles
           less == RemoveAt(config.upstreams, i)
<1>1. Len(ps) \in Nat BY ProfileAssumption DEF ProfileAssumption
<1>2. Left(config.upstreams, UpstreamsOf(ps), Len(ps), FALSE) /\ i \in 1..Len(ps)
  BY DEF ConfigInv, Left
<1>3. /\ Left(less, UpstreamsOf(ps), Len(ps), TRUE)
      /\ DistinctIds(config.upstreams) => DistinctIds(less)
      /\ AllOf(less, config.upstreams)
  BY <1>1, <1>2, RemovedKeeps
<1> HIDE DEF less
<1>4. /\ after.upstreams = less /\ after.policies = config.policies
      /\ after = [default |-> config.default, integrations |-> config.integrations,
                  upstreams |-> after.upstreams, policies |-> after.policies]
  BY DEF less
<1>5. Left(after.upstreams, UpstreamsOf(ps), Len(ps), "upstreams" \in edited \cup {"upstreams"})
  BY <1>3, <1>4 DEF Left
<1>6. Left(after.policies, PoliciesOf(ps), Len(ps), "policies" \in edited \cup {"upstreams"})
  BY <1>4 DEF ConfigInv, Left
<1>7. "secret" \notin edited \cup {"upstreams"} =>
        \A k \in DOMAIN after.upstreams : \E j \in DOMAIN ps :
          after.upstreams[k] = UpstreamWith(ps[j], MigrateAuth(ps[j].auth_method).secret_ref)
  BY <1>3, <1>4 DEF ConfigInv, AllOf
<1>8. /\ config.default = MigrateV1ToV2(file).default
      /\ config.integrations = MigrateV1ToV2(file).integrations
  BY DEF ConfigInv
<1> QED BY <1>3, <1>4, <1>5, <1>6, <1>7, <1>8 DEF ConfigInv

LEMMA PolicyRemoved ==
  ASSUME NEW file \in ProfileFiles, NEW config, NEW edited, ConfigInv(file, config, edited),
         "policies" \notin edited, NEW i \in DOMAIN config.upstreams,
         NEW after, after = [default |-> config.default, integrations |-> config.integrations,
                             upstreams |-> config.upstreams,
                             policies |-> RemoveAt(config.policies, i)]
  PROVE ConfigInv(file, after, edited \cup {"policies"})
<1> DEFINE ps == file.profiles
           less == RemoveAt(config.policies, i)
<1>1. Len(ps) \in Nat BY ProfileAssumption DEF ProfileAssumption
<1>2. Left(config.policies, PoliciesOf(ps), Len(ps), FALSE) /\ i \in 1..Len(ps)
  BY <1>1 DEF ConfigInv, Left
<1>3. /\ Left(less, PoliciesOf(ps), Len(ps), TRUE)
      /\ DistinctIds(config.policies) => DistinctIds(less)
  BY <1>1, <1>2, RemovedKeeps
<1> HIDE DEF less
<1>4. /\ after.policies = less /\ after.upstreams = config.upstreams
      /\ after = [default |-> config.default, integrations |-> config.integrations,
                  upstreams |-> after.upstreams, policies |-> after.policies]
  BY DEF less
<1>5. Left(after.policies, PoliciesOf(ps), Len(ps), "policies" \in edited \cup {"policies"})
  BY <1>3, <1>4 DEF Left
<1>6. Left(after.upstreams, UpstreamsOf(ps), Len(ps), "upstreams" \in edited \cup {"policies"})
  BY <1>4 DEF ConfigInv, Left
<1>8. /\ config.default = MigrateV1ToV2(file).default
      /\ config.integrations = MigrateV1ToV2(file).integrations
  BY DEF ConfigInv
<1> QED BY <1>3, <1>4, <1>5, <1>6, <1>8 DEF ConfigInv

LEMMA SecretMoved ==
  ASSUME NEW file \in ProfileFiles, NEW config, NEW edited, ConfigInv(file, config, edited),
         NEW i \in DOMAIN config.upstreams,
         NEW after, after = [config EXCEPT !.upstreams[i].auth.secret_ref = Moved]
  PROVE ConfigInv(file, after, edited \cup {"secret"})
<1> DEFINE ps == file.profiles
           all == UpstreamsOf(ps)
           old == config.upstreams
<1>1. old \in Seq(all) /\ i \in 1..Len(old)
  BY DEF ConfigInv, Left
<1>2. PICK j \in DOMAIN ps : \E secret : old[i] = UpstreamWith(ps[j], secret)
  <2>1. old[i] \in all BY <1>1
  <2> QED BY <2>1 DEF UpstreamsOf
<1> DEFINE u == UpstreamWith(ps[j], Moved)
<1>3. u \in all
  BY DEF UpstreamsOf, SecretsOf
<1>4. [old[i] EXCEPT !.auth.secret_ref = Moved] = u
  <2>1. PICK secret : old[i] = UpstreamWith(ps[j], secret) BY <1>2
  <2> QED BY <2>1 DEF UpstreamWith
<1>5. after.upstreams = [old EXCEPT ![i] = u]
  <2>1. config = [default |-> config.default, integrations |-> config.integrations,
                  upstreams |-> config.upstreams, policies |-> config.policies]
    BY DEF ConfigInv
  <2>2. after.upstreams = [old EXCEPT ![i] = [old[i] EXCEPT !.auth.secret_ref = Moved]]
    BY <2>1
  <2> QED BY <1>4, <2>2
<1>6. /\ after.policies = config.policies
      /\ after = [default |-> config.default, integrations |-> config.integrations,
                  upstreams |-> after.upstreams, policies |-> after.policies]
  <2>1. config = [default |-> config.default, integrations |-> config.integrations,
                  upstreams |-> config.upstreams, policies |-> config.policies]
    BY DEF ConfigInv
  <2> QED BY <2>1
<1>7. u.id = old[i].id
  BY <1>2 DEF UpstreamWith
<1> HIDE DEF u
<1>8. /\ after.upstreams \in Seq(all) /\ Len(after.upstreams) = Len(old)
      /\ \A k \in 1..Len(old) : after.upstreams[k] = IF k = i THEN u ELSE old[k]
  <2> HIDE DEF old, all
  <2> DEFINE ups == [old EXCEPT ![i] = u]
  <2>1. /\ ups \in Seq(all) /\ Len(ups) = Len(old)
        /\ \A k \in 1..Len(old) : ups[k] = IF k = i THEN u ELSE old[k]
    BY <1>1, <1>3, ExceptSeq
  <2> HIDE DEF ups
  <2> QED BY <1>5, <2>1 DEF ups
<1>9. \A k \in 1..Len(old) : after.upstreams[k].id = old[k].id
  BY <1>7, <1>8
<1>10. Left(after.upstreams, all, Len(ps), "upstreams" \in edited \cup {"secret"})
  BY <1>8 DEF ConfigInv, Left
<1>11. Left(after.policies, PoliciesOf(ps), Len(ps), "policies" \in edited \cup {"secret"})
  BY <1>6 DEF ConfigInv, Left
<1>12. DistinctIds(old) => DistinctIds(after.upstreams)
  BY <1>8, <1>9 DEF DistinctIds
<1>13. "upstreams" \notin edited \cup {"secret"} =>
         \A k \in DOMAIN ps : after.upstreams[k].id = DeriveId("upstream", ps[k].name)
  <2>1. "upstreams" \notin edited => Len(old) = Len(ps) BY DEF ConfigInv, Left
  <2>2. DOMAIN ps = 1..Len(ps) BY ProfileAssumption DEF ProfileAssumption
  <2> QED BY <1>9, <2>1, <2>2 DEF ConfigInv
<1>14. /\ config.default = MigrateV1ToV2(file).default
       /\ config.integrations = MigrateV1ToV2(file).integrations
  BY DEF ConfigInv
<1> QED BY <1>6, <1>10, <1>11, <1>12, <1>13, <1>14 DEF ConfigInv

LEMMA EditStepOfConfig ==
  ASSUME LoadingInv, Edit PROVE LoadingInv'
<1> DEFINE config == loading.config
           edited == loading.edited
<1>1. /\ loading # None /\ loading.pc = "edit" /\ loading.profiles \in ProfileFiles
      /\ loading = [profiles |-> loading.profiles, config |-> config,
                    resolved |-> loading.resolved, edited |-> edited, pc |-> loading.pc]
      /\ ConfigInv(loading.profiles, config, edited)
  BY DEF Edit, LoadingInv
<1>2. config = [default |-> config.default, integrations |-> config.integrations,
                upstreams |-> config.upstreams, policies |-> config.policies]
  BY <1>1 DEF ConfigInv
<1>3. PICK what \in {"upstreams", "policies", "secret"} \ edited, i \in DOMAIN config.upstreams :
        loading' = [loading EXCEPT !.edited = @ \cup {what}, !.config = Edited(@, what, i)]
  BY DEF Edit
<1> DEFINE after == Edited(config, what, i)
<1>4. loading' = [profiles |-> loading.profiles, config |-> after, resolved |-> loading.resolved,
                  edited |-> edited \cup {what}, pc |-> "edit"]
  BY <1>1, <1>3
<1>5. ConfigInv(loading.profiles, after, edited \cup {what})
  <2>1. CASE what = "upstreams"
    <3>1. after = [default |-> config.default, integrations |-> config.integrations,
                   upstreams |-> RemoveAt(config.upstreams, i), policies |-> config.policies]
      BY <1>2, <2>1 DEF Edited
    <3> QED BY <1>1, <1>3, <2>1, <3>1, UpstreamRemoved
  <2>2. CASE what = "policies"
    <3>1. after = [default |-> config.default, integrations |-> config.integrations,
                   upstreams |-> config.upstreams, policies |-> RemoveAt(config.policies, i)]
      BY <1>2, <2>2 DEF Edited
    <3> QED BY <1>1, <1>3, <2>2, <3>1, PolicyRemoved
  <2>3. CASE what = "secret"
    BY <1>1, <1>3, <2>3, SecretMoved DEF Edited, Moved
  <2> QED BY <2>1, <2>2, <2>3
<1> HIDE DEF after
<1> QED BY <1>1, <1>4, <1>5 DEF LoadingInv

LEMMA NextLoading == LoadingInv /\ [RequestNext]_<<request, kept>> => LoadingInv'
<1> SUFFICES ASSUME LoadingInv, [RequestNext]_<<request, kept>> PROVE LoadingInv'
  OBVIOUS
<1>1. CASE Migrate BY <1>1, MigrateStep
<1>2. CASE Edit BY <1>2, EditStepOfConfig
<1>3. CASE Resolve BY <1>3, ResolveStep
<1>4. CASE UNCHANGED loading BY <1>4 DEF LoadingInv
<1>5. CASE RequestNext
  BY <1>1, <1>2, <1>3, <1>4, <1>5 DEF RequestNext, besides, request
<1> QED BY <1>4, <1>5 DEF request

LEMMA FindsOne ==
  ASSUME NEW all, NEW list \in Seq(all), DistinctIds(list), NEW id
  PROVE \/ Find(list, id) = <<>> /\ \A k \in 1..Len(list) : list[k].id # id
        \/ \E k \in 1..Len(list) : list[k].id = id /\ Find(list, id) = <<list[k]>>
<1> DEFINE hits == {k \in DOMAIN list : list[k].id = id}
<1>1. DOMAIN list = 1..Len(list) OBVIOUS
<1>2. CASE hits = {} BY <1>1, <1>2 DEF Find
<1>3. CASE hits # {}
  <2>1. PICK k \in 1..Len(list) : list[k].id = id BY <1>1, <1>3
  <2>2. hits = {k} BY <1>1, <2>1 DEF DistinctIds
  <2>3. Min({k}) = k BY DEF Min
  <2>4. Find(list, id) = <<list[k]>> BY <2>2, <2>3 DEF Find
  <2> QED BY <2>1, <2>4
<1> QED BY <1>2, <1>3

LEMMA HeadOfOne ==
  ASSUME NEW x, NEW s, s = <<x>> PROVE s # <<>> /\ Head(s) = x
OBVIOUS

LEMMA Spelled ==
  ASSUME NEW n \in Spellings
  PROVE /\ Normal(n) = [base |-> n.base, upper |-> FALSE, padded |-> FALSE]
        /\ Lowercase(n) = [base |-> n.base, upper |-> FALSE, padded |-> n.padded]
<1>1. ASSUME NEW m \in Spellings
      PROVE Lowercase(m) = [base |-> m.base, upper |-> FALSE, padded |-> m.padded]
  <2>1. ASSUME NEW q, q = [m EXCEPT !.upper = FALSE]
        PROVE q = [base |-> m.base, upper |-> FALSE, padded |-> m.padded]
    BY <2>1 DEF Spellings
  <2> QED BY <2>1 DEF Lowercase
<1>2. Trim(n) = [base |-> n.base, upper |-> n.upper, padded |-> FALSE]
  <2>1. ASSUME NEW q, q = [n EXCEPT !.padded = FALSE]
        PROVE q = [base |-> n.base, upper |-> n.upper, padded |-> FALSE]
    BY <2>1 DEF Spellings
  <2> QED BY <2>1 DEF Trim
<1>3. Trim(n) \in Spellings
  BY <1>2 DEF Spellings
<1>4. Normal(n) = [base |-> Trim(n).base, upper |-> FALSE, padded |-> Trim(n).padded]
  BY <1>1, <1>3 DEF Normal
<1> QED BY <1>1, <1>2, <1>4

\* The default of a migrated configuration is the integration of the default profile.
LEMMA DefaultFound ==
  ASSUME NEW file \in ProfileFiles, DistinctNames(file), NEW i \in DefaultProfiles(file),
         ~file.profiles[i].name.padded
  PROVE LET new == MigrateV1ToV2(file)
        IN Find(new.integrations, new.default) = <<new.integrations[i]>>
<1> DEFINE ps == file.profiles
           new == MigrateV1ToV2(file)
           named == {j \in DOMAIN ps : file.default # None
                                       /\ Lowercase(ps[j].name) = Normal(file.default)}
<1>1. /\ Len(ps) \in Nat /\ DOMAIN ps = 1..Len(ps)
      /\ \A j \in DOMAIN ps : ps[j].name \in Spellings
  BY ProfileAssumption DEF ProfileAssumption
<1>2. /\ i \in DOMAIN ps /\ file.default # None /\ file.default \in Spellings
      /\ Normal(ps[i].name) = Normal(file.default)
  BY ProfileAssumption DEF ProfileAssumption, DefaultProfiles
<1>3. \A j \in DOMAIN ps : Normal(ps[j].name) = Normal(ps[i].name) => j = i
  BY <1>2 DEF DistinctNames
<1>4. named = {i}
  <2>1. ps[i].name.padded = FALSE BY <1>1, <1>2 DEF Spellings
  <2>2. Lowercase(ps[i].name) = Normal(file.default)
    <3>1. Lowercase(ps[i].name) = [base |-> ps[i].name.base, upper |-> FALSE, padded |-> FALSE]
      BY <1>1, <1>2, <2>1, Spelled
    <3>2. Normal(ps[i].name) = [base |-> ps[i].name.base, upper |-> FALSE, padded |-> FALSE]
      BY <1>1, <1>2, Spelled
    <3> QED BY <1>2, <3>1, <3>2
  <2>3. ASSUME NEW j \in DOMAIN ps, Lowercase(ps[j].name) = Normal(file.default) PROVE j = i
    <3>1. Lowercase(ps[j].name).base = Normal(file.default).base BY <2>3
    <3>2. ps[j].name.base = file.default.base BY <1>1, <1>2, <3>1, Spelled
    <3>3. Normal(ps[j].name) = Normal(file.default) BY <1>1, <1>2, <3>2, Spelled
    <3> QED BY <1>2, <1>3, <3>3
  <2> QED BY <1>2, <2>2, <2>3
<1>5. new.integrations =
        [j \in DOMAIN ps |->
           [id |-> DeriveId("integration", ps[j].name), name |-> ps[j].name,
            upstream |-> DeriveId("upstream", ps[j].name),
            policy |-> DeriveId("policy", ps[j].name), models |-> ps[j].models]]
  BY MigratedParts
<1>6. new.default = new.integrations[i].id
  <2>1. Min({i}) = i BY <1>1, <1>2 DEF Min
  <2>2. new.default = IF named = {} THEN None ELSE new.integrations[Min(named)].id
    BY DEF MigrateV1ToV2
  <2> HIDE DEF named, new
  <2> QED BY <1>4, <2>1, <2>2
<1> HIDE DEF new
<1> DEFINE list == new.integrations
           all == {list[j] : j \in DOMAIN ps}
<1>7. list \in Seq(all) /\ Len(list) = Len(ps)
  <2>1. list \in [1..Len(ps) -> all] BY <1>1, <1>5
  <2> QED BY <1>1, <2>1, SeqDef
<1>8. \A j \in DOMAIN ps : list[j].id = DeriveId("integration", ps[j].name)
  BY <1>5
<1>9. DistinctIds(list)
  BY <1>1, <1>7, <1>8, SameId DEF DistinctIds, DistinctNames
<1> HIDE DEF list, all
<1>10. \E k \in 1..Len(list) : list[k].id = list[i].id /\ Find(list, list[i].id) = <<list[k]>>
  <2>1. i \in 1..Len(list) BY <1>1, <1>2, <1>7
  <2> QED BY <1>7, <1>9, <2>1, FindsOne
<1>11. Find(list, list[i].id) = <<list[i]>>
  BY <1>1, <1>2, <1>7, <1>9, <1>10 DEF DistinctIds
<1> QED BY <1>6, <1>11 DEF list, new

\* What the upstream found gives, and the policy found.
LEMMA Resolved ==
  ASSUME LoadingInv, loading # None, loading.pc = "resolved", DistinctNames(loading.profiles),
         NEW i \in DefaultProfiles(loading.profiles), ~loading.profiles.profiles[i].name.padded
  PROVE LET p == loading.profiles.profiles[i]
            edited == loading.edited
        IN \E r :
             /\ loading.resolved = <<r>>
             /\ r.models = p.models
             /\ \/ \E secret \in SecretsOf(p) :
                     /\ "secret" \notin edited => secret = MigrateAuth(p.auth_method).secret_ref
                     /\ r.upstream_url = p.upstream_url
                     /\ r.upstream_headers = p.headers
                     /\ r.auth.header_name = MigrateAuth(p.auth_method).header_name
                     /\ r.auth.value = ResolveSecret(secret)
                \/ /\ "upstreams" \in edited
                   /\ r.upstream_url = ""
                   /\ r.auth.value = ResolveSecret(Secret("none", None))
             /\ \/ /\ r.cache = p.cache
                   /\ r.reduce = p.reduce
                   /\ r.efficiency = p.efficiency
                   /\ r.safe_cache = p.safe_cache
                \/ /\ "policies" \in edited
                   /\ r.cache = None
                   /\ r.reduce = None
                   /\ r.efficiency = None
                   /\ r.safe_cache = None
<1> DEFINE file == loading.profiles
           ps == file.profiles
           p == ps[i]
           config == loading.config
           edited == loading.edited
           new == MigrateV1ToV2(file)
           it == new.integrations[i]
<1>1. /\ file \in ProfileFiles /\ ConfigInv(file, config, edited)
      /\ loading.resolved = ResolveDefault(config)
  BY DEF LoadingInv
<1>2. i \in DOMAIN ps BY DEF DefaultProfiles
<1>3. config.default = new.default /\ config.integrations = new.integrations
  BY <1>1 DEF ConfigInv
<1>4. Find(config.integrations, config.default) = <<it>>
  BY <1>1, <1>3, DefaultFound
<1>5. it = [id |-> DeriveId("integration", p.name), name |-> p.name,
            upstream |-> DeriveId("upstream", p.name),
            policy |-> DeriveId("policy", p.name), models |-> p.models]
  <2>1. new.integrations =
          [j \in DOMAIN ps |->
             [id |-> DeriveId("integration", ps[j].name), name |-> ps[j].name,
              upstream |-> DeriveId("upstream", ps[j].name),
              policy |-> DeriveId("policy", ps[j].name), models |-> ps[j].models]]
    BY <1>1, MigratedParts
  <2> HIDE DEF new
  <2> QED BY <1>2, <2>1
<1>6. loading.resolved = <<ResolveIntegration(config, it)>>
  BY <1>1, <1>4 DEF ResolveDefault
<1> DEFINE upstream == Find(config.upstreams, DeriveId("upstream", p.name))
           policy == Find(config.policies, DeriveId("policy", p.name))
<1>7. \/ "upstreams" \in edited /\ upstream = <<>>
      \/ \E secret \in SecretsOf(p) :
           /\ upstream = <<UpstreamWith(p, secret)>>
           /\ "secret" \notin edited => secret = MigrateAuth(p.auth_method).secret_ref
  <2> DEFINE list == config.upstreams
             id == DeriveId("upstream", p.name)
  <2>1. list \in Seq(UpstreamsOf(ps)) /\ DistinctIds(list)
    BY <1>1 DEF ConfigInv, Left
  <2>2. \/ Find(list, id) = <<>> /\ \A k \in 1..Len(list) : list[k].id # id
        \/ \E k \in 1..Len(list) : list[k].id = id /\ Find(list, id) = <<list[k]>>
    <3> HIDE DEF list, id
    <3> QED BY <2>1, FindsOne
  <2>3. CASE Find(list, id) = <<>> /\ \A k \in 1..Len(list) : list[k].id # id
    <3>1. "upstreams" \notin edited => i \in 1..Len(list) /\ list[i].id = id
      <4>1. DOMAIN ps = 1..Len(ps) BY <1>1, ProfileAssumption DEF ProfileAssumption
      <4> QED BY <1>1, <1>2, <4>1 DEF ConfigInv, Left
    <3> QED BY <2>3, <3>1
  <2>4. ASSUME NEW k \in 1..Len(list), list[k].id = id, Find(list, id) = <<list[k]>>
        PROVE \E secret \in SecretsOf(p) :
                /\ upstream = <<UpstreamWith(p, secret)>>
                /\ "secret" \notin edited => secret = MigrateAuth(p.auth_method).secret_ref
    <3>1. ASSUME NEW j \in DOMAIN ps, NEW secret, list[k] = UpstreamWith(ps[j], secret) PROVE j = i
      <4>1. DeriveId("upstream", ps[j].name) = DeriveId("upstream", p.name)
        BY <2>4, <3>1 DEF UpstreamWith
      <4> QED BY <1>2, <4>1, SameId DEF DistinctNames
    <3>2. PICK j \in DOMAIN ps : \E secret \in SecretsOf(ps[j]) : list[k] = UpstreamWith(ps[j], secret)
      <4>1. list[k] \in UpstreamsOf(ps) BY <2>1
      <4> QED BY <4>1 DEF UpstreamsOf
    <3>3. PICK secret \in SecretsOf(p) : list[k] = UpstreamWith(p, secret)
      BY <3>1, <3>2
    <3>4. CASE "secret" \in edited BY <2>4, <3>3, <3>4
    <3>5. CASE "secret" \notin edited
      <4>1. PICK m \in DOMAIN ps :
              list[k] = UpstreamWith(ps[m], MigrateAuth(ps[m].auth_method).secret_ref)
        BY <1>1, <2>1, <3>5 DEF ConfigInv
      <4>2. list[k] = UpstreamWith(p, MigrateAuth(p.auth_method).secret_ref)
        BY <3>1, <4>1
      <4> QED BY <2>4, <4>2 DEF SecretsOf
    <3> QED BY <3>4, <3>5
  <2> QED BY <2>2, <2>3, <2>4
<1>8. \/ "policies" \in edited /\ policy = <<>>
      \/ policy = <<PolicyOf(p)>>
  <2> DEFINE list == config.policies
             id == DeriveId("policy", p.name)
  <2>1. list \in Seq(PoliciesOf(ps)) /\ DistinctIds(list)
    BY <1>1 DEF ConfigInv, Left
  <2>2. \/ Find(list, id) = <<>> /\ \A k \in 1..Len(list) : list[k].id # id
        \/ \E k \in 1..Len(list) : list[k].id = id /\ Find(list, id) = <<list[k]>>
    <3> HIDE DEF list, id
    <3> QED BY <2>1, FindsOne
  <2>3. CASE Find(list, id) = <<>> /\ \A k \in 1..Len(list) : list[k].id # id
    <3>1. "policies" \notin edited => i \in 1..Len(list) /\ list[i].id = id
      <4>1. DOMAIN ps = 1..Len(ps) BY <1>1, ProfileAssumption DEF ProfileAssumption
      <4> QED BY <1>1, <1>2, <4>1 DEF ConfigInv, Left
    <3> QED BY <2>3, <3>1
  <2>4. ASSUME NEW k \in 1..Len(list), list[k].id = id, Find(list, id) = <<list[k]>>
        PROVE policy = <<PolicyOf(p)>>
    <3>1. PICK j \in DOMAIN ps : list[k] = PolicyOf(ps[j])
      <4>1. list[k] \in PoliciesOf(ps) BY <2>1
      <4> QED BY <4>1 DEF PoliciesOf
    <3>2. DeriveId("policy", ps[j].name) = DeriveId("policy", p.name)
      BY <2>4, <3>1 DEF PolicyOf
    <3>3. j = i BY <1>2, <3>2, SameId DEF DistinctNames
    <3> QED BY <2>4, <3>1, <3>3
  <2> QED BY <2>2, <2>3, <2>4
<1> DEFINE r == ResolveIntegration(config, it)
<1>9. r.models = p.models
  BY <1>5 DEF ResolveIntegration
<1>10. \/ \E secret \in SecretsOf(p) :
            /\ "secret" \notin edited => secret = MigrateAuth(p.auth_method).secret_ref
            /\ r.upstream_url = p.upstream_url
            /\ r.upstream_headers = p.headers
            /\ r.auth.header_name = MigrateAuth(p.auth_method).header_name
            /\ r.auth.value = ResolveSecret(secret)
       \/ /\ "upstreams" \in edited
          /\ r.upstream_url = ""
          /\ r.auth.value = ResolveSecret(Secret("none", None))
  <2> DEFINE none == [url |-> "", headers |-> {},
                      auth |-> [secret_ref |-> Secret("none", None), header_name |-> ""]]
             parts == IF upstream = <<>> THEN none ELSE Head(upstream)
  <2>0. /\ r.upstream_url = parts.url
        /\ r.upstream_headers = parts.headers
        /\ r.auth.header_name = parts.auth.header_name
        /\ r.auth.value = ResolveSecret(parts.auth.secret_ref)
    <3>1. it.upstream = DeriveId("upstream", p.name) BY <1>5
    <3> HIDE DEF it
    <3> QED BY <3>1 DEF ResolveIntegration
  <2>1. ASSUME NEW secret, upstream = <<UpstreamWith(p, secret)>>
        PROVE /\ r.upstream_url = p.upstream_url
              /\ r.upstream_headers = p.headers
              /\ r.auth.header_name = MigrateAuth(p.auth_method).header_name
              /\ r.auth.value = ResolveSecret(secret)
    <3>1. parts = UpstreamWith(p, secret)
      <4>1. upstream # <<>> /\ Head(upstream) = UpstreamWith(p, secret) BY <2>1, HeadOfOne
      <4> HIDE DEF upstream
      <4> QED BY <4>1
    <3> HIDE DEF parts, r
    <3> QED BY <2>0, <3>1 DEF UpstreamWith
  <2>2. ASSUME upstream = <<>>
        PROVE /\ r.upstream_url = ""
              /\ r.auth.value = ResolveSecret(Secret("none", None))
    <3>1. parts = none BY <2>2
    <3> HIDE DEF parts, r
    <3> QED BY <2>0, <3>1
  <2> HIDE DEF r, upstream
  <2> QED BY <1>7, <2>1, <2>2
<1>11. \/ /\ r.cache = p.cache
          /\ r.reduce = p.reduce
          /\ r.efficiency = p.efficiency
          /\ r.safe_cache = p.safe_cache
       \/ /\ "policies" \in edited
          /\ r.cache = None
          /\ r.reduce = None
          /\ r.efficiency = None
          /\ r.safe_cache = None
  <2>1. CASE policy = <<PolicyOf(p)>>
    BY <1>5, <2>1 DEF ResolveIntegration, PolicyOf
  <2>2. CASE "policies" \in edited /\ policy = <<>>
    BY <1>5, <2>2 DEF ResolveIntegration
  <2> QED BY <1>8, <2>1, <2>2
<1> HIDE DEF r
<1>12. loading.resolved = <<r>> BY <1>6 DEF r
<1> QED BY <1>9, <1>10, <1>11, <1>12

LEMMA ResolvedIsAsked == LoadingInv => MigrationResolves
<1> SUFFICES ASSUME LoadingInv, loading # None, loading.pc = "resolved",
                    DistinctNames(loading.profiles),
                    \A i \in DefaultProfiles(loading.profiles) :
                      ~loading.profiles.profiles[i].name.padded,
                    NEW i \in DefaultProfiles(loading.profiles)
             PROVE LET asked == Asked(loading.profiles.profiles[i])
                       given == Given(Head(loading.resolved))
                       lost == IF "policies" \in loading.edited
                               THEN {"cache", "reduce", "efficiency", "safe_cache"} ELSE {}
                       bare == IF "upstreams" \in loading.edited
                               THEN {"upstream_url", "upstream_headers", "credential", "header_name"} ELSE {}
                       moved == IF "secret" \in loading.edited THEN {"credential"} ELSE {}
                   IN /\ loading.resolved # <<>>
                      /\ \A f \in DOMAIN asked \ (lost \cup bare \cup moved) : given[f] = asked[f]
                      /\ \A f \in lost : given[f] \in {asked[f], None}
                      /\ bare # {} => given.upstream_url \in {asked.upstream_url, ""}
                      /\ moved # {} => given.credential \in {asked.credential, None} \cup Range(Environment)
  BY DEF MigrationResolves, ResolvesAsAsked
<1> DEFINE p == loading.profiles.profiles[i]
           auth == p.auth_method
           edited == loading.edited
           asked == Asked(p)
           given == Given(Head(loading.resolved))
           lost == IF "policies" \in edited THEN {"cache", "reduce", "efficiency", "safe_cache"} ELSE {}
           bare == IF "upstreams" \in edited
                   THEN {"upstream_url", "upstream_headers", "credential", "header_name"} ELSE {}
           moved == IF "secret" \in edited THEN {"credential"} ELSE {}
<1>1. PICK r :
        /\ loading.resolved = <<r>>
        /\ r.models = p.models
        /\ \/ \E secret \in SecretsOf(p) :
                /\ "secret" \notin edited => secret = MigrateAuth(auth).secret_ref
                /\ r.upstream_url = p.upstream_url
                /\ r.upstream_headers = p.headers
                /\ r.auth.header_name = MigrateAuth(auth).header_name
                /\ r.auth.value = ResolveSecret(secret)
           \/ /\ "upstreams" \in edited
              /\ r.upstream_url = ""
              /\ r.auth.value = ResolveSecret(Secret("none", None))
        /\ \/ /\ r.cache = p.cache
              /\ r.reduce = p.reduce
              /\ r.efficiency = p.efficiency
              /\ r.safe_cache = p.safe_cache
           \/ /\ "policies" \in edited
              /\ r.cache = None
              /\ r.reduce = None
              /\ r.efficiency = None
              /\ r.safe_cache = None
  BY Resolved
<1>2. auth.type \in {"api_key", "bearer", "none"}
  BY ProfileAssumption DEF ProfileAssumption, LoadingInv, DefaultProfiles
<1>3. /\ MigrateAuth(auth).header_name = asked.header_name
      /\ ResolveSecret(MigrateAuth(auth).secret_ref) = asked.credential
  BY <1>2 DEF MigrateAuth, Asked, ResolveSecret, Secret
<1>4. ResolveSecret(Secret("none", None)) = None
  BY DEF ResolveSecret, Secret
<1>5. ResolveSecret(Moved) \in {None} \cup Range(Environment)
  BY DEF ResolveSecret, Secret, Moved, Range
<1>6. /\ given.upstream_url = r.upstream_url /\ given.upstream_headers = r.upstream_headers
      /\ given.credential = r.auth.value /\ given.header_name = r.auth.header_name
      /\ given.cache = r.cache /\ given.reduce = r.reduce /\ given.efficiency = r.efficiency
      /\ given.safe_cache = r.safe_cache /\ given.models = r.models
  <2>1. loading.resolved = <<r>> BY <1>1
  <2>2. Head(loading.resolved) = r BY <2>1, HeadOfOne
  <2> QED BY <2>2 DEF Given
<1>7. /\ asked.upstream_url = p.upstream_url /\ asked.upstream_headers = p.headers
      /\ asked.cache = p.cache /\ asked.reduce = p.reduce /\ asked.efficiency = p.efficiency
      /\ asked.safe_cache = p.safe_cache /\ asked.models = p.models
  BY DEF Asked
<1>8. DOMAIN asked = {"upstream_url", "upstream_headers", "credential", "header_name", "cache",
                      "reduce", "efficiency", "safe_cache", "models"}
  BY DEF Asked
<1> HIDE DEF given, asked
<1>9. /\ given.models = asked.models
      /\ "upstreams" \notin edited => /\ given.upstream_url = asked.upstream_url
                                      /\ given.upstream_headers = asked.upstream_headers
                                      /\ given.header_name = asked.header_name
      /\ "upstreams" \in edited => given.upstream_url \in {asked.upstream_url, ""}
      /\ "policies" \notin edited => /\ given.cache = asked.cache /\ given.reduce = asked.reduce
                                     /\ given.efficiency = asked.efficiency
                                     /\ given.safe_cache = asked.safe_cache
      /\ /\ given.cache \in {asked.cache, None} /\ given.reduce \in {asked.reduce, None}
         /\ given.efficiency \in {asked.efficiency, None}
         /\ given.safe_cache \in {asked.safe_cache, None}
  BY <1>1, <1>3, <1>6, <1>7
<1>10. /\ "upstreams" \notin edited /\ "secret" \notin edited => given.credential = asked.credential
       /\ given.credential \in {asked.credential, None} \cup Range(Environment)
  <2>1. CASE \E secret \in SecretsOf(p) :
               /\ "secret" \notin edited => secret = MigrateAuth(auth).secret_ref
               /\ r.auth.value = ResolveSecret(secret)
    BY <1>3, <1>5, <1>6, <2>1 DEF SecretsOf
  <2>2. CASE "upstreams" \in edited /\ r.auth.value = ResolveSecret(Secret("none", None))
    BY <1>4, <1>6, <2>2
  <2>3. \/ \E secret \in SecretsOf(p) :
             /\ "secret" \notin edited => secret = MigrateAuth(auth).secret_ref
             /\ r.auth.value = ResolveSecret(secret)
        \/ "upstreams" \in edited /\ r.auth.value = ResolveSecret(Secret("none", None))
    <3> HIDE DEF p, auth, edited
    <3> QED BY <1>1
  <2> QED BY <2>1, <2>2, <2>3
<1>11. loading.resolved # <<>>
  <2>1. loading.resolved = <<r>> BY <1>1
  <2> QED BY <2>1, HeadOfOne
<1>12. ASSUME NEW f \in DOMAIN asked \ (lost \cup bare \cup moved) PROVE given[f] = asked[f]
  BY <1>8, <1>9, <1>10, <1>12
<1>13. \A f \in lost : given[f] \in {asked[f], None}
  BY <1>9
<1> QED BY <1>9, <1>10, <1>11, <1>12, <1>13 DEF given, asked

\* After the migration of any profiles whose names differ, and whatever the user has taken out or
\* moved since, the gateway runs under the default profile: with its upstream, credential and rules,
\* or with none, never with those of another profile (migration.rs:147).
THEOREM DefaultProfileIsResolved == RequestSpec => []MigrationResolves
<1>1. RequestInit => LoadingInv BY InitLoading
<1>2. LoadingInv /\ [RequestNext]_<<request, kept>> => LoadingInv' BY NextLoading
<1>3. LoadingInv => MigrationResolves BY ResolvedIsAsked
<1> QED BY <1>1, <1>2, <1>3, PTL DEF RequestSpec
-----------------------------------------------------------------------------
(****************************************************************************)
(* Filters of lines.                                                        *)
(****************************************************************************)
\* A definition whose limits are numbers, and whose replacements are lines.
WellFormed(f) ==
  /\ f.replace \in Seq(Rules)
  /\ f.head_lines \in Limits /\ f.tail_lines \in Limits
  /\ f.max_lines \in Limits /\ f.truncate_lines_at \in Limits

\* How far Rewritten has come after each rule.
Rewriting(it, rules, line) ==
  it = [n \in 0..Len(rules) |->
          IF n = 0 THEN line
          ELSE IF Seen(it[n - 1]) = rules[n].from THEN rules[n].to ELSE it[n - 1]]

LEMMA RewrittenIsLine ==
  ASSUME NEW rules \in Seq(Rules), NEW line \in Lines
  PROVE Rewritten(rules, line) \in Lines
<1> DEFINE h == [n \in 1..Len(rules) |->
                   [v \in Lines |-> IF Seen(v) = rules[n].from THEN rules[n].to ELSE v]]
           jt == CHOOSE g : Rewriting(g, rules, line)
<1>1. Len(rules) \in Nat /\ \A n \in 1..Len(rules) : rules[n].to \in Lines
  <2>1. \A n \in 1..Len(rules) : rules[n] \in Rules OBVIOUS
  <2> QED BY <2>1 DEF Rules
<1>2. h \in [1..Len(rules) -> [Lines -> Lines]] BY <1>1
<1>3. \A n \in 1..Len(rules) : \A v \in Lines :
        h[n][v] = IF Seen(v) = rules[n].from THEN rules[n].to ELSE v
  OBVIOUS
<1> HIDE DEF h
<1>4. PICK it : Runs(it, Len(rules), Lines, line, h) BY <1>1, <1>2, Recursion
<1>5. /\ it \in [0..Len(rules) -> Lines] /\ Steps(it, Len(rules), line, h)
      /\ \A g : StepsIn(g, Len(rules), Lines, line, h) => \A n \in 0..Len(rules) : g[n] = it[n]
  BY <1>4 DEF Runs
<1>6. Rewriting(it, rules, line)
  <2>1. it = [n \in 0..Len(rules) |-> it[n]] BY <1>5
  <2>2. ASSUME NEW n \in 0..Len(rules)
        PROVE it[n] = IF n = 0 THEN line
                      ELSE IF Seen(it[n - 1]) = rules[n].from THEN rules[n].to ELSE it[n - 1]
    <3>1. CASE n = 0 BY <1>5, <3>1 DEF Steps
    <3>2. CASE n # 0
      <4>1. n \in 1..Len(rules) /\ n - 1 \in 0..Len(rules) BY <1>1, <3>2
      <4>2. it[n - 1] \in Lines BY <1>5, <4>1
      <4>3. it[n] = h[n][it[n - 1]] BY <1>5, <4>1 DEF Steps
      <4>4. h[n][it[n - 1]] = IF Seen(it[n - 1]) = rules[n].from THEN rules[n].to ELSE it[n - 1]
        BY <1>3, <4>1, <4>2
      <4> QED BY <3>2, <4>3, <4>4
    <3> QED BY <3>1, <3>2
  <2> QED BY <2>1, <2>2 DEF Rewriting
<1>7. Rewriting(jt, rules, line) BY <1>6, Zenon
<1>8. Rewritten(rules, line) = jt[Len(rules)] BY DEF Rewritten, Rewriting
<1> HIDE DEF jt
<1>9. StepsIn(jt, Len(rules), Lines, line, h)
  <2>1. jt[0] = line BY <1>1, <1>7 DEF Rewriting
  <2>2. ASSUME NEW n \in 1..Len(rules), jt[n - 1] \in Lines PROVE jt[n] = h[n][jt[n - 1]]
    <3>1. n \in 0..Len(rules) /\ n # 0 BY <1>1
    <3>2. jt[n] = IF Seen(jt[n - 1]) = rules[n].from THEN rules[n].to ELSE jt[n - 1]
      BY <1>7, <3>1 DEF Rewriting
    <3> QED BY <1>3, <2>2, <3>2
  <2> QED BY <2>1, <2>2 DEF StepsIn
<1>10. jt[Len(rules)] = it[Len(rules)] /\ it[Len(rules)] \in Lines BY <1>1, <1>5, <1>9
<1> QED BY <1>8, <1>10

AnyLines == [word : STRING, len : Nat, ansi : Nat, cut : BOOLEAN]

LEMMA StrippedLine ==
  ASSUME NEW l \in AnyLines, NEW n
  PROVE [l EXCEPT !.len = n, !.ansi = 0] = [word |-> l.word, len |-> n, ansi |-> 0, cut |-> l.cut]
<1>1. ASSUME NEW q, q = [l EXCEPT !.len = n, !.ansi = 0]
      PROVE q = [word |-> l.word, len |-> n, ansi |-> 0, cut |-> l.cut]
  BY <1>1 DEF AnyLines
<1> QED BY <1>1, Zenon

LEMMA ShortLine ==
  ASSUME NEW l \in AnyLines, NEW n
  PROVE [l EXCEPT !.len = n, !.cut = TRUE] = [word |-> l.word, len |-> n, ansi |-> l.ansi, cut |-> TRUE]
<1>1. ASSUME NEW q, q = [l EXCEPT !.len = n, !.cut = TRUE]
      PROVE q = [word |-> l.word, len |-> n, ansi |-> l.ansi, cut |-> TRUE]
  BY <1>1 DEF AnyLines
<1> QED BY <1>1, Zenon

\* The line filter leaves a text.
LEMMA SelectedIsText ==
  ASSUME NEW f, WellFormed(f), NEW text \in Seq(Lines)
  PROVE /\ Replace(f, StripAnsi(f, text)) \in Seq(Lines)
        /\ Selected(f, text) \in Seq(Lines)
<1> DEFINE Bare(l) == [l EXCEPT !.len = @ - l.ansi, !.ansi = 0]
           stripped == StripAnsi(f, text)
           replaced == Replace(f, stripped)
<1>0. Len(text) \in Nat /\ DOMAIN text = 1..Len(text) /\ \A i \in 1..Len(text) : text[i] \in Lines
  OBVIOUS
<1>1. stripped \in Seq(Lines)
  <2>1. ASSUME NEW i \in 1..Len(text)
        PROVE Bare(text[i]) \in Lines
    <3> DEFINE l == text[i]
               n == l.len - l.ansi
    <3>1. l \in AnyLines /\ l.ansi <= l.len BY <1>0 DEF Lines, AnyLines
    <3>2. [l EXCEPT !.len = n, !.ansi = 0] = [word |-> l.word, len |-> n, ansi |-> 0, cut |-> l.cut]
      BY <3>1, StrippedLine, Zenon
    <3>3. n \in Nat BY <3>1 DEF AnyLines
    <3>4. [word |-> l.word, len |-> n, ansi |-> 0, cut |-> l.cut] \in Lines
      BY <3>1, <3>3 DEF Lines, AnyLines
    <3> QED BY <3>2, <3>4, Zenon
  <2>2. CASE f.strip_ansi
    <3>1. stripped = [i \in 1..Len(text) |-> Bare(text[i])]
      BY <1>0, <2>2 DEF StripAnsi
    <3> HIDE DEF Bare
    <3> QED BY <1>0, <2>1, <3>1
  <2>3. CASE ~f.strip_ansi BY <2>3 DEF StripAnsi
  <2> QED BY <2>2, <2>3
<1> HIDE DEF stripped
<1>2. replaced \in Seq(Lines)
  <2>1. Len(stripped) \in Nat /\ DOMAIN stripped = 1..Len(stripped) BY <1>1
  <2>2. \A i \in 1..Len(stripped) : Rewritten(f.replace, stripped[i]) \in Lines
    BY <1>1, RewrittenIsLine DEF WellFormed
  <2>3. replaced = [i \in 1..Len(stripped) |-> Rewritten(f.replace, stripped[i])]
    BY <2>1 DEF Replace
  <2> QED BY <2>1, <2>2, <2>3
<1>3. FilterLines(f, replaced) \in Seq(Lines)
  <2> HIDE DEF replaced
  <2> QED BY <1>2, ThoseOf DEF FilterLines
<1> QED BY <1>2, <1>3 DEF Selected, stripped

\* A line that is no longer than the limit stays as it is.
LEMMA TruncatedWithin ==
  ASSUME NEW f, WellFormed(f), NEW text \in Seq(Lines)
  PROVE LET before == TruncateLines(f, text)
        IN /\ before \in Seq(AnyLines)
           /\ Blank(before) = Blank(text)
           /\ ~(\E i \in DOMAIN before : before[i].cut) => before = text
<1> DEFINE n == f.truncate_lines_at
           Short(l) == [l EXCEPT !.len = IF n < 3 THEN 3 ELSE n, !.cut = TRUE]
           before == TruncateLines(f, text)
<1>0. Len(text) \in Nat /\ DOMAIN text = 1..Len(text) /\ \A i \in 1..Len(text) : text[i] \in Lines
  OBVIOUS
<1>1. CASE n = Absent
  <2>1. before = text BY <1>1 DEF TruncateLines
  <2>2. text \in Seq(AnyLines)
    <3>1. \A i \in 1..Len(text) : text[i] \in AnyLines BY <1>0 DEF Lines, AnyLines
    <3> QED BY <3>1
  <2> QED BY <2>1, <2>2
<1>2. CASE n # Absent
  <2>1. n \in Nat BY <1>2 DEF WellFormed, Limits
  <2>2. before = [i \in 1..Len(text) |-> IF text[i].len <= n THEN text[i] ELSE Short(text[i])]
    BY <1>0, <1>2 DEF TruncateLines
  <2>3. ASSUME NEW i \in 1..Len(text), ~(text[i].len <= n)
        PROVE Short(text[i]) \in AnyLines /\ Short(text[i]).cut /\ Short(text[i]).word = text[i].word
    <3> DEFINE l == text[i]
               k == IF n < 3 THEN 3 ELSE n
    <3>1. l \in AnyLines BY <1>0 DEF Lines, AnyLines
    <3>2. [l EXCEPT !.len = k, !.cut = TRUE] = [word |-> l.word, len |-> k, ansi |-> l.ansi, cut |-> TRUE]
      BY <3>1, ShortLine, Zenon
    <3>3. k \in Nat BY <2>1
    <3>4. [word |-> l.word, len |-> k, ansi |-> l.ansi, cut |-> TRUE] \in AnyLines
      BY <3>1, <3>3 DEF AnyLines
    <3>5. [l EXCEPT !.len = k, !.cut = TRUE] \in AnyLines BY <3>2, <3>4, Zenon
    <3>6. Short(text[i]) = [word |-> l.word, len |-> k, ansi |-> l.ansi, cut |-> TRUE]
      BY <3>2, Zenon
    <3> DEFINE r == [word |-> l.word, len |-> k, ansi |-> l.ansi, cut |-> TRUE]
    <3>7. r \in AnyLines /\ r.cut /\ r.word = text[i].word BY <3>4
    <3>8. Short(text[i]) = r BY <3>6
    <3> HIDE DEF Short, r
    <3> QED BY <3>7, <3>8
  <2> HIDE DEF Short, before
  <2>4. before \in Seq(AnyLines)
    <3>1. \A i \in 1..Len(text) : text[i] \in AnyLines BY <1>0 DEF Lines, AnyLines
    <3>2. \A i \in 1..Len(text) :
            (IF text[i].len <= n THEN text[i] ELSE Short(text[i])) \in AnyLines
      BY <2>3, <3>1
    <3>3. Len(text) \in Nat OBVIOUS
    <3> QED BY <2>2, <3>2, <3>3
  <2>5. DOMAIN before = 1..Len(text) /\ \A i \in 1..Len(text) : before[i].word = text[i].word
    BY <2>2, <2>3
  <2>6. Blank(before) = Blank(text) BY <1>0, <2>5 DEF Blank
  <2>7. ASSUME ~(\E i \in DOMAIN before : before[i].cut) PROVE before = text
    <3>1. \A i \in 1..Len(text) : text[i].len <= n BY <2>2, <2>3, <2>7
    <3>2. before = [i \in 1..Len(text) |-> text[i]] BY <2>2, <3>1
    <3> QED BY <1>0, <3>2
  <2> QED BY <2>4, <2>6, <2>7 DEF before
<1> QED BY <1>1, <1>2

LEMMA FrontOfMore ==
  ASSUME NEW S, NEW s \in Seq(S), NEW x \in S
  PROVE Front(Append(s, x)) = s /\ Last(Append(s, x)) = x
<1>1. Len(s) \in Nat /\ Len(Append(s, x)) = Len(s) + 1 OBVIOUS
<1>2. Front(Append(s, x)) = SubSeq(Append(s, x), 1, Len(s)) BY <1>1 DEF Front
<1>3. SubSeq(Append(s, x), 1, Len(s)) = s BY <1>1
<1>4. Last(Append(s, x)) = x BY <1>1 DEF Last
<1> QED BY <1>2, <1>3, <1>4

LEMMA Halves ==
  ASSUME NEW S, NEW s \in Seq(S), NEW k \in 0..Len(s)
  PROVE /\ SubSeq(s, 1, k) \in Seq(S)
        /\ SubSeq(s, 1, k) \o SubSeq(s, k + 1, Len(s)) = s
        /\ Len(SubSeq(s, k + 1, Len(s))) = Len(s) - k
<1>1. Len(s) \in Nat /\ k \in Nat /\ k <= Len(s) OBVIOUS
<1> DEFINE a == SubSeq(s, 1, k)
           b == SubSeq(s, k + 1, Len(s))
<1>2. a \in Seq(S) /\ Len(a) = k /\ \A i \in 1..k : a[i] = s[i] BY <1>1
<1>3. b \in Seq(S) /\ Len(b) = Len(s) - k /\ \A i \in 1..(Len(s) - k) : b[i] = s[k + i] BY <1>1
<1> HIDE DEF a, b
<1>4. a \o b \in Seq(S) /\ Len(a \o b) = Len(s) BY <1>1, <1>2, <1>3
<1>5. ASSUME NEW i \in 1..Len(s) PROVE (a \o b)[i] = s[i]
  <2>1. CASE i <= k BY <1>1, <1>2, <1>3, <2>1
  <2>2. CASE ~(i <= k)
    <3>1. i - k \in 1..(Len(s) - k) BY <1>1, <2>2
    <3>2. (a \o b)[i] = b[i - k] BY <1>1, <1>2, <1>3, <2>2
    <3>3. b[i - k] = s[k + (i - k)] BY <1>3, <3>1
    <3> QED BY <1>1, <3>2, <3>3
  <2> QED BY <2>1, <2>2
<1>6. a \o b = s
  <2> DEFINE c == a \o b
  <2>1. c \in Seq(S) /\ Len(c) = Len(s) /\ \A i \in 1..Len(s) : c[i] = s[i] BY <1>4, <1>5
  <2> HIDE DEF c
  <2>2. c = s BY <2>1
  <2> QED BY <2>2 DEF c
<1> QED BY <1>2, <1>3, <1>6 DEF a, b

Notes == {Omitted(n) : n \in Nat} \cup {Truncated(n) : n \in Nat}

LEMMA NoteAfter ==
  ASSUME NEW S, NEW s \in Seq(S), NEW t \in Seq(S), NEW x \in Notes
  PROVE ~Blank(Append(s, x)) /\ ~Blank(s \o <<x>> \o t) /\ ~Blank(<<x>> \o t)
<1>1. x.word # "blank" BY DEF Notes, Omitted, Truncated
<1>2. Len(s) \in Nat /\ Len(t) \in Nat OBVIOUS
<1>3. Len(s) + 1 \in DOMAIN Append(s, x) /\ Append(s, x)[Len(s) + 1] = x BY <1>2
<1>4. Len(s) + 1 \in DOMAIN (s \o <<x>> \o t) /\ (s \o <<x>> \o t)[Len(s) + 1] = x BY <1>2
<1>5. 1 \in DOMAIN (<<x>> \o t) /\ (<<x>> \o t)[1] = x BY <1>2
<1> QED BY <1>1, <1>3, <1>4, <1>5 DEF Blank

\* The first n lines of a text, and a line that counts the others.
EndsEarly(lines, text, n) ==
  /\ n \in Nat /\ n < Len(text)
  /\ \E note \in Notes : lines = Append(SubSeq(text, 1, n), note) /\ note.count = Len(text) - n

\* What HeadTail does.
LEMMA HeadOrTail ==
  ASSUME NEW f, WellFormed(f), NEW text \in Seq(AnyLines)
  PROVE LET ht == HeadTail(f, text)
        IN \/ ht.lines = text /\ ht.head_cut = Absent /\ ~ht.gap
           \/ ht.head_cut = Absent /\ ht.gap /\ f.tail_lines # Absent /\ ~Blank(ht.lines)
           \/ EndsEarly(ht.lines, text, ht.head_cut) /\ ~ht.gap /\ f.tail_lines = Absent
<1> DEFINE total == Len(text)
           head == f.head_lines
           tail == f.tail_lines
           ht == HeadTail(f, text)
<1>1. total \in Nat /\ Absent \notin Nat BY DEF Absent
<1>2. (head # Absent => head \in Nat) /\ (tail # Absent => tail \in Nat) BY DEF WellFormed, Limits
<1>3. CASE head # Absent /\ tail # Absent /\ total > head + tail
  <2>1. ht = [lines |-> SubSeq(text, 1, head) \o <<Omitted(total - head - tail)>>
                          \o SubSeq(text, total - tail + 1, total),
              head_cut |-> Absent, gap |-> TRUE]
    BY <1>3 DEF HeadTail
  <2>2. Omitted(total - head - tail) \in Notes BY <1>1, <1>2, <1>3 DEF Notes
  <2>3. SubSeq(text, 1, head) \in Seq(AnyLines) /\ SubSeq(text, total - tail + 1, total) \in Seq(AnyLines)
    BY <1>1, <1>2, <1>3
  <2>4. ~Blank(SubSeq(text, 1, head) \o <<Omitted(total - head - tail)>>
               \o SubSeq(text, total - tail + 1, total))
    BY <2>2, <2>3, NoteAfter
  <2> QED BY <1>3, <2>1, <2>4
<1>4. CASE head # Absent /\ tail = Absent /\ total > head
  <2>1. ht = [lines |-> Append(SubSeq(text, 1, head), Omitted(total - head)), head_cut |-> head, gap |-> FALSE]
    BY <1>4 DEF HeadTail
  <2>2. Omitted(total - head) \in Notes /\ Omitted(total - head).count = total - head
    <3>1. total - head \in Nat BY <1>1, <1>2, <1>4
    <3>2. Omitted(total - head) \in Notes BY <3>1 DEF Notes
    <3>3. Omitted(total - head).count = total - head BY DEF Omitted
    <3> QED BY <3>2, <3>3
  <2>3. EndsEarly(ht.lines, text, head) BY <1>2, <1>4, <2>1, <2>2 DEF EndsEarly
  <2> QED BY <1>4, <2>1, <2>3
<1>5. CASE head = Absent /\ tail # Absent /\ total > tail
  <2>1. ht = [lines |-> <<Omitted(total - tail)>> \o SubSeq(text, total - tail + 1, total),
              head_cut |-> Absent, gap |-> TRUE]
    BY <1>5 DEF HeadTail
  <2>2. Omitted(total - tail) \in Notes BY <1>1, <1>2, <1>5 DEF Notes
  <2>3. SubSeq(text, total - tail + 1, total) \in Seq(AnyLines) BY <1>1, <1>2, <1>5
  <2>4. ~Blank(<<Omitted(total - tail)>> \o SubSeq(text, total - tail + 1, total))
    BY <2>2, <2>3, NoteAfter
  <2> QED BY <1>5, <2>1, <2>4
<1>6. CASE ~(\/ head # Absent /\ tail # Absent /\ total > head + tail
             \/ head # Absent /\ tail = Absent /\ total > head
             \/ head = Absent /\ tail # Absent /\ total > tail)
  <2>1. ht = [lines |-> text, head_cut |-> Absent, gap |-> FALSE] BY <1>6 DEF HeadTail
  <2> QED BY <2>1
<1> QED BY <1>3, <1>4, <1>5, <1>6

LEMMA AtMost ==
  ASSUME NEW f, WellFormed(f), NEW text
  PROVE LET mx == MaxLines(f, text)
        IN \/ mx.lines = text /\ mx.max_cut = Absent
           \/ /\ mx.max_cut \in Nat /\ mx.max_cut = f.max_lines
              /\ Len(text) > mx.max_cut
              /\ mx.lines = Append(SubSeq(text, 1, mx.max_cut), Truncated(Len(text) - mx.max_cut))
BY DEF MaxLines, WellFormed, Limits

Shown == AnyLines \cup Notes

LEMMA HeadOrTailShows ==
  ASSUME NEW f, WellFormed(f), NEW text \in Seq(AnyLines)
  PROVE HeadTail(f, text).lines \in Seq(Shown)
<1> DEFINE total == Len(text)
           head == f.head_lines
           tail == f.tail_lines
           ht == HeadTail(f, text)
<1>1. total \in Nat /\ Absent \notin Nat BY DEF Absent
<1>2. (head # Absent => head \in Nat) /\ (tail # Absent => tail \in Nat) BY DEF WellFormed, Limits
<1>3. text \in Seq(Shown)
  <2>1. AnyLines \subseteq Shown BY DEF Shown
  <2> QED BY <2>1
<1>4. \A n \in Nat : Omitted(n) \in Shown
  <2>1. \A n \in Nat : Omitted(n) \in Notes BY DEF Notes
  <2> QED BY <2>1 DEF Shown
<1>5. CASE head # Absent /\ tail # Absent /\ total > head + tail
  <2>1. ht.lines = SubSeq(text, 1, head) \o <<Omitted(total - head - tail)>>
                          \o SubSeq(text, total - tail + 1, total)
    BY <1>5 DEF HeadTail
  <2>2. Omitted(total - head - tail) \in Shown BY <1>1, <1>2, <1>4, <1>5
  <2>3. SubSeq(text, 1, head) \in Seq(Shown) /\ SubSeq(text, total - tail + 1, total) \in Seq(Shown)
    BY <1>1, <1>2, <1>3, <1>5
  <2> QED BY <2>1, <2>2, <2>3
<1>6. CASE head # Absent /\ tail = Absent /\ total > head
  <2>1. ht.lines = Append(SubSeq(text, 1, head), Omitted(total - head)) BY <1>6 DEF HeadTail
  <2>2. Omitted(total - head) \in Shown BY <1>1, <1>2, <1>4, <1>6
  <2>3. SubSeq(text, 1, head) \in Seq(Shown) BY <1>1, <1>2, <1>3, <1>6
  <2> QED BY <2>1, <2>2, <2>3
<1>7. CASE head = Absent /\ tail # Absent /\ total > tail
  <2>1. ht.lines = <<Omitted(total - tail)>> \o SubSeq(text, total - tail + 1, total)
    BY <1>7 DEF HeadTail
  <2>2. Omitted(total - tail) \in Shown BY <1>1, <1>2, <1>4, <1>7
  <2>3. SubSeq(text, total - tail + 1, total) \in Seq(Shown) BY <1>1, <1>2, <1>3, <1>7
  <2> QED BY <2>1, <2>2, <2>3
<1>8. CASE ~(\/ head # Absent /\ tail # Absent /\ total > head + tail
             \/ head # Absent /\ tail = Absent /\ total > head
             \/ head = Absent /\ tail # Absent /\ total > tail)
  <2>1. ht.lines = text BY <1>8 DEF HeadTail
  <2> QED BY <1>3, <2>1
<1> QED BY <1>5, <1>6, <1>7, <1>8

\* What is shown of a text that was not cut before, with the loss that is told.
LEMMA LossOfCuts ==
  ASSUME NEW f, WellFormed(f), NEW text \in Seq(AnyLines),
         NEW ht, ht = HeadTail(f, text), NEW mx, mx = MaxLines(f, ht.lines),
         NEW loss, loss = Lossiness(f, text, ht, mx)
  PROVE /\ Blank(mx.lines) => mx.lines = text
        /\ loss.kind = "none" => mx.lines = text
        /\ loss.kind \in {"none", "tail"} => ~(\E i \in DOMAIN text : text[i].cut)
        /\ loss.kind = "tail" => \E n : EndsEarly(mx.lines, text, n) /\ loss = TailLoss(text, n + 1)
<1> DEFINE intra == \E i \in DOMAIN text : text[i].cut
<1>1. \/ ht.lines = text /\ ht.head_cut = Absent /\ ~ht.gap
      \/ ht.head_cut = Absent /\ ht.gap /\ f.tail_lines # Absent /\ ~Blank(ht.lines)
      \/ EndsEarly(ht.lines, text, ht.head_cut) /\ ~ht.gap /\ f.tail_lines = Absent
  BY HeadOrTail
<1>2. \/ mx.lines = ht.lines /\ mx.max_cut = Absent
      \/ /\ mx.max_cut \in Nat /\ mx.max_cut = f.max_lines /\ Len(ht.lines) > mx.max_cut
         /\ mx.lines = Append(SubSeq(ht.lines, 1, mx.max_cut), Truncated(Len(ht.lines) - mx.max_cut))
  BY AtMost
<1>3. ht.lines \in Seq(Shown) BY HeadOrTailShows
<1>4. Absent \notin Nat BY DEF Absent
<1>5. ASSUME EndsEarly(ht.lines, text, ht.head_cut) PROVE ~Blank(ht.lines) /\ ht.head_cut # Absent
  <2>1. PICK note \in Notes : ht.lines = Append(SubSeq(text, 1, ht.head_cut), note)
    BY <1>5 DEF EndsEarly
  <2>2. SubSeq(text, 1, ht.head_cut) \in Seq(AnyLines) BY <1>5 DEF EndsEarly
  <2>3. ht.head_cut \in Nat BY <1>5 DEF EndsEarly
  <2> QED BY <1>4, <2>1, <2>2, <2>3, NoteAfter
<1>6. ASSUME mx.max_cut \in Nat, Len(ht.lines) > mx.max_cut,
             mx.lines = Append(SubSeq(ht.lines, 1, mx.max_cut), Truncated(Len(ht.lines) - mx.max_cut))
      PROVE /\ ~Blank(mx.lines) /\ mx.max_cut # Absent
            /\ ht.lines = text => EndsEarly(mx.lines, text, mx.max_cut)
  <2> DEFINE n == mx.max_cut
             note == Truncated(Len(ht.lines) - mx.max_cut)
  <2>1. Len(ht.lines) - n \in Nat BY <1>3, <1>6
  <2>2. note \in Notes BY <2>1 DEF Notes
  <2>3. note.count = Len(ht.lines) - n BY DEF Truncated
  <2>4. SubSeq(ht.lines, 1, n) \in Seq(Shown) BY <1>3, <1>6
  <2> HIDE DEF note
  <2>5. ~Blank(mx.lines) BY <1>6, <2>2, <2>4, NoteAfter DEF note
  <2>6. ASSUME ht.lines = text PROVE EndsEarly(mx.lines, text, n)
    <3>1. mx.lines = Append(SubSeq(text, 1, n), note) /\ n < Len(text) BY <1>6, <2>6 DEF note
    <3> QED BY <1>6, <2>2, <2>3, <2>6, <3>1 DEF EndsEarly
  <2> QED BY <1>4, <1>6, <2>5, <2>6
<1>7. Blank(mx.lines) => mx.lines = text BY <1>1, <1>2, <1>5, <1>6
<1>8. loss.kind = "none" => ~intra /\ ~ht.gap /\ ht.head_cut = Absent /\ mx.max_cut = Absent
  BY <1>1, <1>4, <1>5 DEF Lossiness, NoLoss, WholeLoss, TailLoss
<1>9. loss.kind = "tail" =>
        /\ ~intra /\ f.tail_lines = Absent
        /\ \/ ht.head_cut # Absent /\ mx.max_cut = Absent /\ loss = TailLoss(text, ht.head_cut + 1)
           \/ ht.head_cut = Absent /\ mx.max_cut # Absent /\ loss = TailLoss(text, mx.max_cut + 1)
  BY DEF Lossiness, NoLoss, WholeLoss, TailLoss
<1>10. loss.kind = "none" => mx.lines = text BY <1>1, <1>2, <1>4, <1>5, <1>8
<1>11. ASSUME loss.kind = "tail"
       PROVE \E n : EndsEarly(mx.lines, text, n) /\ loss = TailLoss(text, n + 1)
  <2>1. CASE ht.head_cut # Absent /\ mx.max_cut = Absent /\ loss = TailLoss(text, ht.head_cut + 1)
    <3>1. EndsEarly(mx.lines, text, ht.head_cut) BY <1>1, <1>2, <1>4, <2>1
    <3> QED BY <2>1, <3>1
  <2>2. CASE ht.head_cut = Absent /\ mx.max_cut # Absent /\ loss = TailLoss(text, mx.max_cut + 1)
    <3>1. ht.lines = text BY <1>1, <1>5, <1>9, <1>11, <2>2
    <3>2. EndsEarly(mx.lines, text, mx.max_cut) BY <1>2, <1>6, <2>2, <3>1
    <3> QED BY <2>2, <3>2
  <2> QED BY <1>9, <1>11, <2>1, <2>2
<1> QED BY <1>7, <1>8, <1>9, <1>10, <1>11

\* The loss that is told of a text.
LossFits(f, text, out) ==
  LET selected == Selected(f, text)
      shown == out.text
      loss == out.loss
  IN /\ loss.kind = "tail" =>
          LET dropped == SubSeq(loss.tee_payload, loss.tail_offset, Len(loss.tee_payload))
          IN /\ dropped # <<>>
             /\ Front(shown) \o dropped = selected
             /\ Last(shown).count = Len(dropped)
     /\ loss.kind = "none" => shown = selected \/ (shown = f.on_empty /\ Blank(selected))

LEMMA LossOf ==
  ASSUME NEW f, WellFormed(f), NEW text \in Seq(Lines)
  PROVE LossFits(f, text, ApplyFilter(f, text))
<1> DEFINE replaced == Replace(f, StripAnsi(f, text))
           selected == Selected(f, text)
           message == MatchOutput(f, replaced)
           before == TruncateLines(f, selected)
           ht == HeadTail(f, before)
           mx == MaxLines(f, ht.lines)
           loss == Lossiness(f, before, ht, mx)
           out == ApplyFilter(f, text)
<1>1. out = IF message # <<>> THEN [text |-> message, loss |-> WholeLoss]
            ELSE IF Blank(mx.lines) /\ f.on_empty # <<>> THEN [text |-> f.on_empty, loss |-> NoLoss]
            ELSE [text |-> mx.lines, loss |-> loss]
  BY DEF ApplyFilter, Selected
<1>2. selected \in Seq(Lines) BY SelectedIsText
<1> HIDE DEF selected, message, out
<1>3. /\ before \in Seq(AnyLines) /\ Blank(before) = Blank(selected)
      /\ ~(\E i \in DOMAIN before : before[i].cut) => before = selected
  BY <1>2, TruncatedWithin
<1> HIDE DEF before
<1>4. /\ Blank(mx.lines) => mx.lines = before
      /\ loss.kind = "none" => mx.lines = before
      /\ loss.kind \in {"none", "tail"} => ~(\E i \in DOMAIN before : before[i].cut)
      /\ loss.kind = "tail" => \E n : EndsEarly(mx.lines, before, n) /\ loss = TailLoss(before, n + 1)
  BY <1>3, LossOfCuts
<1> HIDE DEF loss, mx
<1>5. CASE message # <<>>
  <2>1. out.loss.kind = "whole" BY <1>1, <1>5 DEF WholeLoss
  <2> QED BY <2>1 DEF LossFits, out
<1>6. CASE message = <<>> /\ Blank(mx.lines) /\ f.on_empty # <<>>
  <2>1. out.loss.kind = "none" /\ out.text = f.on_empty BY <1>1, <1>6 DEF NoLoss
  <2>2. Blank(selected) BY <1>3, <1>4, <1>6
  <2> QED BY <2>1, <2>2 DEF LossFits, out, selected
<1>7. CASE message = <<>> /\ ~(Blank(mx.lines) /\ f.on_empty # <<>>)
  <2>1. out.loss = loss /\ out.text = mx.lines BY <1>1, <1>7
  <2>2. loss.kind = "none" => out.text = selected BY <1>3, <1>4, <2>1
  <2>3. ASSUME loss.kind = "tail"
        PROVE LET dropped == SubSeq(loss.tee_payload, loss.tail_offset, Len(loss.tee_payload))
              IN /\ dropped # <<>>
                 /\ Front(out.text) \o dropped = selected
                 /\ Last(out.text).count = Len(dropped)
    <3>1. PICK n : EndsEarly(mx.lines, before, n) /\ loss = TailLoss(before, n + 1)
      BY <1>4, <2>3
    <3>2. before = selected BY <1>3, <1>4, <2>3
    <3>3. PICK note \in Notes : /\ mx.lines = Append(SubSeq(before, 1, n), note)
                                /\ note.count = Len(before) - n
      BY <3>1 DEF EndsEarly
    <3>4. n \in Nat /\ n < Len(before) /\ n \in 0..Len(before) BY <1>3, <3>1 DEF EndsEarly
    <3>5. /\ SubSeq(before, 1, n) \in Seq(AnyLines)
          /\ SubSeq(before, 1, n) \o SubSeq(before, n + 1, Len(before)) = before
          /\ Len(SubSeq(before, n + 1, Len(before))) = Len(before) - n
      BY <1>3, <3>4, Halves
    <3> DEFINE head == SubSeq(before, 1, n)
               tail == SubSeq(before, n + 1, Len(before))
    <3>6. head \in Seq(Shown) /\ note \in Shown
      <4>1. AnyLines \subseteq Shown /\ Notes \subseteq Shown BY DEF Shown
      <4> QED BY <3>5, <4>1
    <3>7. Front(mx.lines) = head /\ Last(mx.lines) = note BY <3>3, <3>6, FrontOfMore
    <3>8. SubSeq(loss.tee_payload, loss.tail_offset, Len(loss.tee_payload)) = tail
      BY <3>1 DEF TailLoss
    <3>9. Len(tail) > 0 BY <1>3, <3>4, <3>5
    <3> HIDE DEF head, tail
    <3>10. tail # <<>> BY <3>9
    <3>11. head \o tail = selected /\ Len(tail) = Len(before) - n BY <3>2, <3>5 DEF head, tail
    <3> QED BY <2>1, <3>3, <3>7, <3>8, <3>10, <3>11
  <2> QED BY <2>1, <2>2, <2>3 DEF LossFits, out, selected
<1> QED BY <1>5, <1>6, <1>7

\* The filter has not run, or has answered for its case.
FilterInv ==
  trial # <<>> =>
    /\ trial = [def |-> trial.def, text |-> trial.text, out |-> trial.out]
    /\ WellFormed(trial.def) /\ trial.text \in Seq(Lines)
    /\ trial.out # <<>> => trial.out = <<ApplyFilter(trial.def, trial.text)>>

LEMMA InitFilter == RequestInit => FilterInv
<1>1. FilterIdle => FilterInv BY DEF FilterIdle, FilterInv
<1>2. ASSUME FilterInit PROVE FilterInv
  <2>1. PICK c \in FilterCases : trial = [def |-> c.def, text |-> c.text, out |-> <<>>]
    BY <1>2 DEF FilterInit
  <2>2. WellFormed(c.def) /\ c.text \in Seq(Lines)
    BY FilterAssumption DEF FilterAssumption, WellFormed
  <2> QED BY <2>1, <2>2 DEF FilterInv
<1> QED BY <1>1, <1>2 DEF RequestInit

LEMMA NextFilter == FilterInv /\ [RequestNext]_<<request, kept>> => FilterInv'
<1> SUFFICES ASSUME FilterInv, [RequestNext]_<<request, kept>> PROVE FilterInv'
  OBVIOUS
<1>1. CASE RunFilter
  <2>1. trial' = [def |-> trial.def, text |-> trial.text,
                  out |-> <<ApplyFilter(trial.def, trial.text)>>]
    BY <1>1 DEF RunFilter, FilterInv
  <2> QED BY <1>1, <2>1 DEF RunFilter, FilterInv
<1>2. CASE UNCHANGED trial BY <1>2 DEF FilterInv
<1>3. CASE RequestNext
  BY <1>1, <1>2, <1>3 DEF RequestNext, SaveCheckpoint, besides, request, pathVars, answerVars
<1> QED BY <1>2, <1>3 DEF request

LEMMA ToldLoss == FilterInv => LossIsTold
<1> SUFFICES ASSUME FilterInv, trial # <<>>, trial.out # <<>>
             PROVE LossFits(trial.def, trial.text, trial.out[1])
  BY DEF LossIsTold, LossFits
<1>1. trial.out[1] = ApplyFilter(trial.def, trial.text) BY DEF FilterInv
<1>2. WellFormed(trial.def) /\ trial.text \in Seq(Lines) BY DEF FilterInv
<1> QED BY <1>1, <1>2, LossOf

\* The loss a filter tells of is the loss there is, and what it leaves out can be read at the offset
\* it names, for any limits, any rules and any text (toml_filter.rs:366).
THEOREM LossIsAsTold == RequestSpec => []LossIsTold
<1> QED BY InitFilter, NextFilter, ToldLoss, PTL DEF RequestSpec
-----------------------------------------------------------------------------
(****************************************************************************)
(* Bodies of requests, and what is done to them on their way.               *)
(****************************************************************************)
IsList(s) == Len(s) \in Nat /\ s = [i \in 1..Len(s) |-> s[i]]

IsBlock(b) ==
  b = [type |-> b.type, id |-> b.id, name |-> b.name, command |-> b.command, parts |-> b.parts,
       cache_control |-> b.cache_control, marker |-> b.marker]

IsMessage(g) ==
  /\ g = [role |-> g.role, form |-> g.form, blocks |-> g.blocks]
  /\ IsList(g.blocks)
  /\ \A k \in 1..Len(g.blocks) : IsBlock(g.blocks[k])

\* A body of the shape of a request's.
IsBody(x) ==
  /\ x = [json |-> x.json, model |-> x.model, stream |-> x.stream, system |-> x.system,
          messages |-> x.messages]
  /\ x.json \in BOOLEAN
  /\ x.system = [form |-> x.system.form, blocks |-> x.system.blocks]
  /\ IsList(x.system.blocks)
  /\ \A k \in 1..Len(x.system.blocks) : IsBlock(x.system.blocks[k])
  /\ IsList(x.messages)
  /\ \A m \in 1..Len(x.messages) : IsMessage(x.messages[m])

LEMMA ListOf ==
  ASSUME NEW S, NEW s \in Seq(S)
  PROVE IsList(s) /\ \A i \in 1..Len(s) : s[i] \in S
BY DEF IsList

LEMMA ListFrom ==
  ASSUME NEW n \in Nat, NEW s, s = [i \in 1..n |-> s[i]]
  PROVE IsList(s) /\ Len(s) = n /\ DOMAIN s = 1..n
BY DEF IsList

LEMMA ListDomain == ASSUME NEW s, IsList(s) PROVE DOMAIN s = 1..Len(s) /\ Len(s) \in Nat
BY DEF IsList

LEMMA BlockOfClient == ASSUME NEW b \in Blocks PROVE IsBlock(b) /\ b.marker = <<>>
BY DEF Blocks, IsBlock

LEMMA BodyOfClient == ASSUME NEW x \in RequestBodies PROVE IsBody(x)
<1>1. /\ x = [json |-> x.json, model |-> x.model, stream |-> x.stream, system |-> x.system,
              messages |-> x.messages]
      /\ x.json \in BOOLEAN /\ x.messages \in Seq(Messages)
      /\ x.system \in [form : {"string", "blocks", "none"}, blocks : Seq(Blocks)]
  BY DEF RequestBodies
<1>2. x.system = [form |-> x.system.form, blocks |-> x.system.blocks] /\ x.system.blocks \in Seq(Blocks)
  BY <1>1
<1>3. IsList(x.messages) /\ \A m \in 1..Len(x.messages) : x.messages[m] \in Messages
  BY <1>1, ListOf
<1>4. ASSUME NEW g \in Messages PROVE IsMessage(g)
  <2>1. g = [role |-> g.role, form |-> g.form, blocks |-> g.blocks] /\ g.blocks \in Seq(Blocks)
    BY DEF Messages
  <2>2. IsList(g.blocks) /\ \A k \in 1..Len(g.blocks) : g.blocks[k] \in Blocks BY <2>1, ListOf
  <2> QED BY <2>1, <2>2, BlockOfClient DEF IsMessage
<1>5. IsList(x.system.blocks) /\ \A k \in 1..Len(x.system.blocks) : IsBlock(x.system.blocks[k])
  BY <1>2, ListOf, BlockOfClient
<1> QED BY <1>1, <1>2, <1>3, <1>4, <1>5 DEF IsBody

LEMMA ListAppend ==
  ASSUME NEW s, IsList(s), NEW x
  PROVE /\ IsList(Append(s, x)) /\ Len(Append(s, x)) = Len(s) + 1
        /\ \A i \in 1..Len(s) : Append(s, x)[i] = s[i]
        /\ Append(s, x)[Len(s) + 1] = x
<1> DEFINE S == {s[i] : i \in 1..Len(s)} \cup {x}
<1>1. Len(s) \in Nat /\ s = [i \in 1..Len(s) |-> s[i]] BY DEF IsList
<1>2. \A i \in 1..Len(s) : s[i] \in S OBVIOUS
<1>3. x \in S OBVIOUS
<1> HIDE DEF S
<1>4. s \in Seq(S) BY <1>1, <1>2
<1>5. Append(s, x) \in Seq(S) BY <1>3, <1>4
<1>6. IsList(Append(s, x)) BY <1>5, ListOf
<1> QED BY <1>3, <1>4, <1>6

-----------------------------------------------------------------------------
LEMMA MarkSet ==
  ASSUME NEW b, IsBlock(b), NEW x
  PROVE [b EXCEPT !.cache_control = x] =
          [type |-> b.type, id |-> b.id, name |-> b.name, command |-> b.command, parts |-> b.parts,
           cache_control |-> x, marker |-> b.marker]
<1>1. ASSUME NEW q, q = [b EXCEPT !.cache_control = x]
      PROVE q = [type |-> b.type, id |-> b.id, name |-> b.name, command |-> b.command, parts |-> b.parts,
                 cache_control |-> x, marker |-> b.marker]
  BY <1>1 DEF IsBlock
<1> QED BY <1>1, Zenon

LEMMA TextSet ==
  ASSUME NEW b, IsBlock(b), NEW x, NEW y
  PROVE [b EXCEPT !.parts = x, !.marker = y] =
          [type |-> b.type, id |-> b.id, name |-> b.name, command |-> b.command, parts |-> x,
           cache_control |-> b.cache_control, marker |-> y]
<1>1. ASSUME NEW q, q = [b EXCEPT !.parts = x, !.marker = y]
      PROVE q = [type |-> b.type, id |-> b.id, name |-> b.name, command |-> b.command, parts |-> x,
                 cache_control |-> b.cache_control, marker |-> y]
  BY <1>1 DEF IsBlock
<1> QED BY <1>1, Zenon

LEMMA StrippedBlock ==
  ASSUME NEW b, IsBlock(b)
  PROVE StripCacheControl(b) =
          [type |-> b.type, id |-> b.id, name |-> b.name, command |-> b.command, parts |-> b.parts,
           cache_control |-> FALSE, marker |-> b.marker]
BY MarkSet, Zenon DEF StripCacheControl

TextOf(b) == IF b.marker = <<>> THEN <<ExtractText(b)>> ELSE <<b.marker[1].hash>>

LEMMA ExpandedShape ==
  ASSUME NEW b, IsBlock(b)
  PROVE Expanded(b) =
          [type |-> b.type, id |-> b.id, name |-> b.name, command |-> b.command, parts |-> TextOf(b),
           cache_control |-> FALSE, marker |-> <<>>]
<1> DEFINE s == StripCacheControl(b)
<1>1. s = [type |-> b.type, id |-> b.id, name |-> b.name, command |-> b.command, parts |-> b.parts,
           cache_control |-> FALSE, marker |-> b.marker]
  BY StrippedBlock
<1>2. Expanded(b) = [s EXCEPT !.parts = TextOf(b), !.marker = <<>>]
  BY Zenon DEF Expanded, TextOf
<1> HIDE DEF s
<1>3. IsBlock(s) BY <1>1 DEF IsBlock
<1>4. [s EXCEPT !.parts = TextOf(b), !.marker = <<>>]
        = [type |-> s.type, id |-> s.id, name |-> s.name, command |-> s.command, parts |-> TextOf(b),
           cache_control |-> s.cache_control, marker |-> <<>>]
  BY <1>3, TextSet, Zenon
<1>5. /\ s.type = b.type /\ s.id = b.id /\ s.name = b.name /\ s.command = b.command
      /\ s.cache_control = FALSE
  BY <1>1
<1> QED BY <1>2, <1>4, <1>5

\* Taking the mark off a block changes nothing of what is read of it.
LEMMA ExpandedOfStripped ==
  ASSUME NEW b, IsBlock(b)
  PROVE IsBlock(StripCacheControl(b)) /\ Expanded(StripCacheControl(b)) = Expanded(b)
<1> DEFINE s == StripCacheControl(b)
<1>1. s = [type |-> b.type, id |-> b.id, name |-> b.name, command |-> b.command, parts |-> b.parts,
           cache_control |-> FALSE, marker |-> b.marker]
  BY StrippedBlock
<1> HIDE DEF s
<1>2. IsBlock(s) BY <1>1 DEF IsBlock
<1>3. /\ s.type = b.type /\ s.id = b.id /\ s.name = b.name /\ s.command = b.command
      /\ s.parts = b.parts /\ s.marker = b.marker
  BY <1>1
<1>4. TextOf(s) = TextOf(b) BY <1>3 DEF TextOf, ExtractText
<1>5. Expanded(s) = Expanded(b) BY <1>2, <1>3, <1>4, ExpandedShape
<1> QED BY <1>2, <1>5 DEF s

LEMMA StrippedTwice ==
  ASSUME NEW b, IsBlock(b)
  PROVE StripCacheControl(Expanded(b)) = Expanded(b)
<1> DEFINE s == Expanded(b)
<1>1. s = [type |-> b.type, id |-> b.id, name |-> b.name, command |-> b.command, parts |-> TextOf(b),
           cache_control |-> FALSE, marker |-> <<>>]
  BY ExpandedShape
<1> HIDE DEF s
<1>2. IsBlock(s) BY <1>1 DEF IsBlock
<1>3. s.cache_control = FALSE BY <1>1
<1>4. StripCacheControl(s) =
          [type |-> s.type, id |-> s.id, name |-> s.name, command |-> s.command, parts |-> s.parts,
           cache_control |-> FALSE, marker |-> s.marker]
  BY <1>2, StrippedBlock
<1>5. StripCacheControl(s) = s BY <1>2, <1>3, <1>4, Zenon DEF IsBlock
<1> QED BY <1>5 DEF s

-----------------------------------------------------------------------------
LEMMA MessagesSet ==
  ASSUME NEW x, IsBody(x), NEW ms
  PROVE [x EXCEPT !.messages = ms] =
          [json |-> x.json, model |-> x.model, stream |-> x.stream, system |-> x.system, messages |-> ms]
<1>1. ASSUME NEW q, q = [x EXCEPT !.messages = ms]
      PROVE q = [json |-> x.json, model |-> x.model, stream |-> x.stream, system |-> x.system,
                 messages |-> ms]
  <2>1. x = [json |-> x.json, model |-> x.model, stream |-> x.stream, system |-> x.system,
             messages |-> x.messages]
    BY DEF IsBody
  <2> QED BY <1>1, <2>1
<1> QED BY <1>1, Zenon

LEMMA BlocksSet ==
  ASSUME NEW g, IsMessage(g), NEW bs
  PROVE [g EXCEPT !.blocks = bs] = [role |-> g.role, form |-> g.form, blocks |-> bs]
<1>1. ASSUME NEW q, q = [g EXCEPT !.blocks = bs]
      PROVE q = [role |-> g.role, form |-> g.form, blocks |-> bs]
  <2>1. g = [role |-> g.role, form |-> g.form, blocks |-> g.blocks] BY DEF IsMessage
  <2> QED BY <1>1, <2>1
<1> QED BY <1>1, Zenon

\* The messages of x with the blocks new.
Renewed(x, new) ==
  [m \in 1..Len(x.messages) |->
     [role |-> x.messages[m].role, form |-> x.messages[m].form, blocks |-> new[m]]]

LEMMA WithOthers ==
  ASSUME NEW x, IsBody(x), NEW new
  PROVE WithBlocks(x, new) =
          [json |-> x.json, model |-> x.model, stream |-> x.stream, system |-> x.system,
           messages |-> Renewed(x, new)]
<1> DEFINE Old(m) == [x.messages[m] EXCEPT !.blocks = new[m]]
           New(m) == [role |-> x.messages[m].role, form |-> x.messages[m].form, blocks |-> new[m]]
           D == 1..Len(x.messages)
<1>1. DOMAIN x.messages = D /\ \A m \in D : IsMessage(x.messages[m]) BY ListDomain DEF IsBody
<1>2. \A m \in D : Old(m) = New(m) BY <1>1, BlocksSet, Zenon
<1>3. WithBlocks(x, new) = [x EXCEPT !.messages = [m \in DOMAIN x.messages |-> Old(m)]]
  BY Zenon DEF WithBlocks
<1>4. [m \in DOMAIN x.messages |-> Old(m)] = [m \in D |-> New(m)]
  <2> HIDE DEF Old, New, D
  <2> QED BY <1>1, <1>2
<1>5. [m \in D |-> New(m)] = Renewed(x, new) BY DEF Renewed
<1> HIDE DEF Old, New, D
<1>6. WithBlocks(x, new) = [x EXCEPT !.messages = Renewed(x, new)] BY <1>3, <1>4, <1>5, Zenon
<1> QED BY <1>6, MessagesSet, Zenon

LEMMA RenewedAt ==
  ASSUME NEW x, IsBody(x), NEW new
  PROVE LET y == WithBlocks(x, new)
        IN /\ y.json = x.json /\ y.model = x.model /\ y.stream = x.stream /\ y.system = x.system
           /\ Len(y.messages) = Len(x.messages) /\ DOMAIN y.messages = 1..Len(x.messages)
           /\ \A m \in 1..Len(x.messages) :
                /\ y.messages[m].role = x.messages[m].role /\ y.messages[m].form = x.messages[m].form
                /\ y.messages[m].blocks = new[m]
           /\ (\A m \in 1..Len(x.messages) :
                 IsList(new[m]) /\ \A k \in 1..Len(new[m]) : IsBlock(new[m][k])) => IsBody(y)
<1> DEFINE y == WithBlocks(x, new)
<1>1. y = [json |-> x.json, model |-> x.model, stream |-> x.stream, system |-> x.system,
           messages |-> Renewed(x, new)]
  BY WithOthers
<1> HIDE DEF y
<1>2. /\ y.json = x.json /\ y.model = x.model /\ y.stream = x.stream /\ y.system = x.system
      /\ y.messages = Renewed(x, new)
  BY <1>1
<1>3. Len(x.messages) \in Nat BY DEF IsBody, IsList
<1>4. IsList(y.messages) /\ Len(y.messages) = Len(x.messages) /\ DOMAIN y.messages = 1..Len(x.messages)
  BY <1>2, <1>3 DEF Renewed, IsList
<1>5. \A m \in 1..Len(x.messages) :
        y.messages[m] = [role |-> x.messages[m].role, form |-> x.messages[m].form, blocks |-> new[m]]
  BY <1>2 DEF Renewed
<1>6. \A m \in 1..Len(x.messages) :
        /\ y.messages[m].role = x.messages[m].role /\ y.messages[m].form = x.messages[m].form
        /\ y.messages[m].blocks = new[m]
  <2> SUFFICES ASSUME NEW m \in 1..Len(x.messages)
               PROVE /\ y.messages[m].role = x.messages[m].role /\ y.messages[m].form = x.messages[m].form
                     /\ y.messages[m].blocks = new[m]
    OBVIOUS
  <2> DEFINE g == y.messages[m]
             old == x.messages[m]
  <2>1. g = [role |-> old.role, form |-> old.form, blocks |-> new[m]] BY <1>5
  <2> HIDE DEF g, old
  <2>2. g.role = old.role /\ g.form = old.form /\ g.blocks = new[m] BY <2>1
  <2> QED BY <2>2 DEF g, old
<1>7. ASSUME \A m \in 1..Len(x.messages) :
               IsList(new[m]) /\ \A k \in 1..Len(new[m]) : IsBlock(new[m][k])
      PROVE IsBody(y)
  <2>1. \A m \in 1..Len(y.messages) : IsMessage(y.messages[m]) BY <1>4, <1>5, <1>6, <1>7 DEF IsMessage
  <2>2. y = [json |-> y.json, model |-> y.model, stream |-> y.stream, system |-> y.system,
             messages |-> y.messages]
    BY <1>1, <1>2
  <2> QED BY <1>2, <1>4, <2>1, <2>2 DEF IsBody
<1> QED BY <1>2, <1>4, <1>6, <1>7 DEF y

LEMMA StreamSet ==
  ASSUME NEW x, IsBody(x), NEW bs
  PROVE [x EXCEPT !.stream = FALSE, !.system.blocks = bs] =
          [json |-> x.json, model |-> x.model, stream |-> FALSE,
           system |-> [form |-> x.system.form, blocks |-> bs], messages |-> x.messages]
<1>1. ASSUME NEW q, q = [x EXCEPT !.stream = FALSE, !.system.blocks = bs]
      PROVE q = [json |-> x.json, model |-> x.model, stream |-> FALSE,
                 system |-> [form |-> x.system.form, blocks |-> bs], messages |-> x.messages]
  <2>1. x = [json |-> x.json, model |-> x.model, stream |-> x.stream, system |-> x.system,
             messages |-> x.messages]
        /\ x.system = [form |-> x.system.form, blocks |-> x.system.blocks]
    BY DEF IsBody
  <2> QED BY <1>1, <2>1
<1> QED BY <1>1, Zenon

\* The blocks of x, each with F.
Strips(x) ==
  [m \in DOMAIN x.messages |->
     [b \in DOMAIN x.messages[m].blocks |-> StripCacheControl(x.messages[m].blocks[b])]]

SystemStrips(x) == [k \in 1..Len(x.system.blocks) |-> StripCacheControl(x.system.blocks[k])]

LEMMA StripsAt ==
  ASSUME NEW x, IsBody(x)
  PROVE /\ \A m \in 1..Len(x.messages) :
             /\ IsList(Strips(x)[m]) /\ Len(Strips(x)[m]) = Len(x.messages[m].blocks)
             /\ \A k \in 1..Len(x.messages[m].blocks) :
                  /\ Strips(x)[m][k] = StripCacheControl(x.messages[m].blocks[k])
                  /\ IsBlock(Strips(x)[m][k])
        /\ IsBody(WithBlocks(x, Strips(x)))
<1>1. DOMAIN x.messages = 1..Len(x.messages) /\ \A m \in 1..Len(x.messages) : IsMessage(x.messages[m])
  BY ListDomain DEF IsBody
<1>2. ASSUME NEW m \in 1..Len(x.messages)
      PROVE /\ IsList(Strips(x)[m]) /\ Len(Strips(x)[m]) = Len(x.messages[m].blocks)
            /\ \A k \in 1..Len(x.messages[m].blocks) :
                 /\ Strips(x)[m][k] = StripCacheControl(x.messages[m].blocks[k])
                 /\ IsBlock(Strips(x)[m][k])
  <2> DEFINE bs == x.messages[m].blocks
             new == Strips(x)[m]
  <2>1. DOMAIN bs = 1..Len(bs) /\ Len(bs) \in Nat /\ \A k \in 1..Len(bs) : IsBlock(bs[k])
    BY <1>1, ListDomain DEF IsMessage
  <2>2. new = [k \in DOMAIN bs |-> StripCacheControl(bs[k])] BY <1>1 DEF Strips
  <2> HIDE DEF bs, new
  <2>3. IsList(new) /\ Len(new) = Len(bs) /\ \A k \in 1..Len(bs) : new[k] = StripCacheControl(bs[k])
    BY <2>1, <2>2 DEF IsList
  <2>4. \A k \in 1..Len(bs) : IsBlock(new[k]) BY <2>1, <2>3, ExpandedOfStripped
  <2> QED BY <2>3, <2>4 DEF bs, new
<1>3. IsBody(WithBlocks(x, Strips(x))) BY <1>2, RenewedAt
<1> QED BY <1>2, <1>3

LEMMA UnmarkedShape ==
  ASSUME NEW x, IsBody(x)
  PROVE Unmarked(x) = [json |-> x.json, model |-> x.model, stream |-> FALSE,
                       system |-> [form |-> x.system.form, blocks |-> SystemStrips(x)],
                       messages |-> WithBlocks(x, Strips(x)).messages]
<1> DEFINE y == WithBlocks(x, Strips(x))
           bs == [b \in DOMAIN y.system.blocks |-> StripCacheControl(y.system.blocks[b])]
<1>1. /\ y.json = x.json /\ y.model = x.model /\ y.system = x.system
  BY RenewedAt
<1>2. Unmarked(x) = [y EXCEPT !.stream = FALSE, !.system.blocks = bs]
  BY DEF Unmarked, MapContent, Strips
<1>3. DOMAIN x.system.blocks = 1..Len(x.system.blocks) BY ListDomain DEF IsBody
<1>4. bs = SystemStrips(x) BY <1>1, <1>3 DEF SystemStrips
<1>5. IsBody(y) BY StripsAt
<1> HIDE DEF y, bs
<1>6. Unmarked(x) = [json |-> y.json, model |-> y.model, stream |-> FALSE,
           system |-> [form |-> y.system.form, blocks |-> bs], messages |-> y.messages]
  BY <1>2, <1>5, StreamSet
<1> QED BY <1>1, <1>4, <1>6 DEF y

Expands(x) ==
  [m \in DOMAIN x.messages |-> [b \in DOMAIN x.messages[m].blocks |-> Expanded(x.messages[m].blocks[b])]]

LEMMA ExpandedIsBlock == ASSUME NEW b, IsBlock(b) PROVE IsBlock(Expanded(b))
<1> DEFINE s == Expanded(b)
<1>1. s = [type |-> b.type, id |-> b.id, name |-> b.name, command |-> b.command, parts |-> TextOf(b),
           cache_control |-> FALSE, marker |-> <<>>]
  BY ExpandedShape
<1> HIDE DEF s
<1>2. IsBlock(s) BY <1>1 DEF IsBlock
<1> QED BY <1>2 DEF s

LEMMA ExpandsAt ==
  ASSUME NEW x, IsBody(x)
  PROVE /\ \A m \in 1..Len(x.messages) :
             /\ IsList(Expands(x)[m]) /\ Len(Expands(x)[m]) = Len(x.messages[m].blocks)
             /\ \A k \in 1..Len(x.messages[m].blocks) :
                  /\ Expands(x)[m][k] = Expanded(x.messages[m].blocks[k])
                  /\ StripCacheControl(Expands(x)[m][k]) = Expanded(x.messages[m].blocks[k])
                  /\ IsBlock(Expands(x)[m][k])
        /\ IsBody(WithBlocks(x, Expands(x)))
<1>1. DOMAIN x.messages = 1..Len(x.messages) /\ \A m \in 1..Len(x.messages) : IsMessage(x.messages[m])
  BY ListDomain DEF IsBody
<1>2. ASSUME NEW m \in 1..Len(x.messages)
      PROVE /\ IsList(Expands(x)[m]) /\ Len(Expands(x)[m]) = Len(x.messages[m].blocks)
            /\ \A k \in 1..Len(x.messages[m].blocks) :
                 /\ Expands(x)[m][k] = Expanded(x.messages[m].blocks[k])
                 /\ StripCacheControl(Expands(x)[m][k]) = Expanded(x.messages[m].blocks[k])
                 /\ IsBlock(Expands(x)[m][k])
  <2> DEFINE bs == x.messages[m].blocks
             new == Expands(x)[m]
  <2>1. DOMAIN bs = 1..Len(bs) /\ Len(bs) \in Nat /\ \A k \in 1..Len(bs) : IsBlock(bs[k])
    BY <1>1, ListDomain DEF IsMessage
  <2>2. new = [k \in DOMAIN bs |-> Expanded(bs[k])] BY <1>1 DEF Expands
  <2> HIDE DEF bs, new
  <2>3. IsList(new) /\ Len(new) = Len(bs) /\ \A k \in 1..Len(bs) : new[k] = Expanded(bs[k])
    BY <2>1, <2>2 DEF IsList
  <2>4. \A k \in 1..Len(bs) : IsBlock(new[k]) BY <2>1, <2>3, ExpandedIsBlock
  <2>5. \A k \in 1..Len(bs) : StripCacheControl(new[k]) = Expanded(bs[k]) BY <2>1, <2>3, StrippedTwice
  <2> QED BY <2>3, <2>4, <2>5 DEF bs, new
<1>3. IsBody(WithBlocks(x, Expands(x))) BY <1>2, RenewedAt
<1> QED BY <1>2, <1>3

\* What is read of a body.
LEMMA ReadOfBody ==
  ASSUME NEW x, IsBody(x), NEW e, e = ExpandedBody(x)
  PROVE /\ e = [json |-> x.json, model |-> x.model, stream |-> FALSE,
                system |-> [form |-> x.system.form, blocks |-> SystemStrips(x)],
                messages |-> e.messages]
        /\ IsList(e.messages) /\ Len(e.messages) = Len(x.messages)
        /\ \A m \in 1..Len(x.messages) :
             /\ e.messages[m] = [role |-> x.messages[m].role, form |-> x.messages[m].form,
                                 blocks |-> e.messages[m].blocks]
             /\ IsList(e.messages[m].blocks)
             /\ Len(e.messages[m].blocks) = Len(x.messages[m].blocks)
             /\ \A k \in 1..Len(x.messages[m].blocks) :
                  e.messages[m].blocks[k] = Expanded(x.messages[m].blocks[k])
<1> DEFINE y == WithBlocks(x, Expands(x))
           z == WithBlocks(y, Strips(y))
<1>1. e = Unmarked(y) BY DEF ExpandedBody, MapContent, Expands
<1>2. IsBody(y) BY ExpandsAt
<1>3. /\ y.json = x.json /\ y.model = x.model /\ y.system = x.system
      /\ Len(y.messages) = Len(x.messages)
      /\ \A m \in 1..Len(x.messages) :
           /\ y.messages[m].role = x.messages[m].role /\ y.messages[m].form = x.messages[m].form
           /\ y.messages[m].blocks = Expands(x)[m]
  BY RenewedAt
<1> HIDE DEF y
<1>4. e = [json |-> y.json, model |-> y.model, stream |-> FALSE,
           system |-> [form |-> y.system.form, blocks |-> SystemStrips(y)], messages |-> z.messages]
  BY <1>1, <1>2, UnmarkedShape
<1>5. SystemStrips(y) = SystemStrips(x) BY <1>3 DEF SystemStrips
<1>6. z.messages = Renewed(y, Strips(y))
  <2>1. z = [json |-> y.json, model |-> y.model, stream |-> y.stream, system |-> y.system,
             messages |-> Renewed(y, Strips(y))]
    BY <1>2, WithOthers
  <2> HIDE DEF z
  <2> QED BY <2>1
<1> HIDE DEF z
<1>7. e = [json |-> x.json, model |-> x.model, stream |-> FALSE,
           system |-> [form |-> x.system.form, blocks |-> SystemStrips(x)],
           messages |-> e.messages] /\ e.messages = Renewed(y, Strips(y))
  BY <1>3, <1>4, <1>5, <1>6
<1>8. Len(x.messages) \in Nat BY DEF IsBody, IsList
<1>9. IsList(e.messages) /\ Len(e.messages) = Len(x.messages) BY <1>3, <1>7, <1>8 DEF Renewed, IsList
<1>10. ASSUME NEW m \in 1..Len(x.messages)
       PROVE /\ e.messages[m] = [role |-> x.messages[m].role, form |-> x.messages[m].form,
                                 blocks |-> e.messages[m].blocks]
             /\ IsList(e.messages[m].blocks)
             /\ Len(e.messages[m].blocks) = Len(x.messages[m].blocks)
             /\ \A k \in 1..Len(x.messages[m].blocks) :
                  e.messages[m].blocks[k] = Expanded(x.messages[m].blocks[k])
  <2>1. e.messages[m] = [role |-> y.messages[m].role, form |-> y.messages[m].form, blocks |-> Strips(y)[m]]
    BY <1>3, <1>7 DEF Renewed
  <2> DEFINE g == e.messages[m]
             old == x.messages[m]
             bs == Strips(y)[m]
             ex1 == Expands(x)[m]
  <2>2. g = [role |-> old.role, form |-> old.form, blocks |-> bs] BY <1>3, <2>1
  <2>3. /\ IsList(bs) /\ Len(bs) = Len(y.messages[m].blocks)
        /\ \A k \in 1..Len(y.messages[m].blocks) : bs[k] = StripCacheControl(y.messages[m].blocks[k])
    BY <1>2, <1>3, StripsAt
  <2>4. y.messages[m].blocks = ex1 BY <1>3
  <2>5. /\ Len(ex1) = Len(old.blocks)
        /\ \A k \in 1..Len(old.blocks) : StripCacheControl(ex1[k]) = Expanded(old.blocks[k])
    BY ExpandsAt
  <2> HIDE DEF g, old, bs, ex1
  <2>6. g.blocks = bs BY <2>2
  <2>7. IsList(bs) /\ Len(bs) = Len(old.blocks) /\ \A k \in 1..Len(old.blocks) : bs[k] = Expanded(old.blocks[k])
    BY <2>3, <2>4, <2>5
  <2> QED BY <2>2, <2>6, <2>7 DEF g, old
<1> QED BY <1>7, <1>9, <1>10

\* Two bodies that are read the same.
AlikeMessages(g, h) ==
  /\ g.role = h.role /\ g.form = h.form /\ Len(g.blocks) = Len(h.blocks)
  /\ \A k \in 1..Len(g.blocks) : Expanded(g.blocks[k]) = Expanded(h.blocks[k])

MessagesAlike(x, y) ==
  /\ Len(x.messages) = Len(y.messages)
  /\ \A m \in 1..Len(x.messages) : AlikeMessages(x.messages[m], y.messages[m])

Alike(x, y) ==
  /\ x.json = y.json /\ x.model = y.model /\ x.system.form = y.system.form
  /\ Len(x.system.blocks) = Len(y.system.blocks)
  /\ \A k \in 1..Len(x.system.blocks) :
       StripCacheControl(x.system.blocks[k]) = StripCacheControl(y.system.blocks[k])
  /\ MessagesAlike(x, y)

LEMMA SameList ==
  ASSUME NEW s, NEW t, IsList(s), IsList(t), Len(s) = Len(t), \A i \in 1..Len(s) : s[i] = t[i]
  PROVE s = t
BY DEF IsList

LEMMA SameMessages ==
  ASSUME NEW x, NEW y, IsBody(x), IsBody(y), MessagesAlike(x, y)
  PROVE ExpandedBody(x).messages = ExpandedBody(y).messages
<1> DEFINE e == ExpandedBody(x)
           f == ExpandedBody(y)
<1>1. /\ IsList(e.messages) /\ Len(e.messages) = Len(x.messages)
      /\ \A m \in 1..Len(x.messages) :
           /\ e.messages[m] = [role |-> x.messages[m].role, form |-> x.messages[m].form,
                               blocks |-> e.messages[m].blocks]
           /\ IsList(e.messages[m].blocks)
           /\ Len(e.messages[m].blocks) = Len(x.messages[m].blocks)
           /\ \A k \in 1..Len(x.messages[m].blocks) :
                e.messages[m].blocks[k] = Expanded(x.messages[m].blocks[k])
  BY ReadOfBody
<1>2. /\ IsList(f.messages) /\ Len(f.messages) = Len(y.messages)
      /\ \A m \in 1..Len(y.messages) :
           /\ f.messages[m] = [role |-> y.messages[m].role, form |-> y.messages[m].form,
                               blocks |-> f.messages[m].blocks]
           /\ IsList(f.messages[m].blocks)
           /\ Len(f.messages[m].blocks) = Len(y.messages[m].blocks)
           /\ \A k \in 1..Len(y.messages[m].blocks) :
                f.messages[m].blocks[k] = Expanded(y.messages[m].blocks[k])
  BY ReadOfBody
<1> HIDE DEF e, f
<1>3. ASSUME NEW m \in 1..Len(x.messages) PROVE e.messages[m] = f.messages[m]
  <2>1. AlikeMessages(x.messages[m], y.messages[m]) /\ m \in 1..Len(y.messages) BY DEF MessagesAlike
  <2> DEFINE a == e.messages[m].blocks
             b == f.messages[m].blocks
  <2>2. a = b
    <3>1. IsList(a) /\ IsList(b) /\ Len(a) = Len(b) BY <1>1, <1>2, <2>1 DEF AlikeMessages
    <3>2. ASSUME NEW k \in 1..Len(a) PROVE a[k] = b[k]
      <4>1. k \in 1..Len(x.messages[m].blocks) /\ k \in 1..Len(y.messages[m].blocks)
        BY <1>1, <2>1 DEF AlikeMessages
      <4>2. a[k] = Expanded(x.messages[m].blocks[k]) BY <1>1, <4>1
      <4>3. b[k] = Expanded(y.messages[m].blocks[k]) BY <1>2, <2>1, <4>1
      <4>4. Expanded(x.messages[m].blocks[k]) = Expanded(y.messages[m].blocks[k])
        BY <2>1, <4>1 DEF AlikeMessages
      <4> QED BY <4>2, <4>3, <4>4
    <3> HIDE DEF a, b
    <3> QED BY <3>1, <3>2, SameList
  <2>3. e.messages[m] = [role |-> x.messages[m].role, form |-> x.messages[m].form, blocks |-> a] BY <1>1
  <2>4. f.messages[m] = [role |-> y.messages[m].role, form |-> y.messages[m].form, blocks |-> b]
    BY <1>2, <2>1
  <2> QED BY <2>1, <2>2, <2>3, <2>4 DEF AlikeMessages
<1>4. Len(x.messages) = Len(y.messages) BY DEF MessagesAlike
<1> QED BY <1>1, <1>2, <1>3, <1>4, SameList DEF e, f

LEMMA AlikeIsSame ==
  ASSUME NEW x, NEW y, IsBody(x), IsBody(y), Alike(x, y)
  PROVE ExpandedBody(x) = ExpandedBody(y)
<1> DEFINE e == ExpandedBody(x)
           f == ExpandedBody(y)
<1>1. e.messages = f.messages BY SameMessages DEF Alike
<1>2. e = [json |-> x.json, model |-> x.model, stream |-> FALSE,
           system |-> [form |-> x.system.form, blocks |-> SystemStrips(x)], messages |-> e.messages]
  BY ReadOfBody
<1>3. f = [json |-> y.json, model |-> y.model, stream |-> FALSE,
           system |-> [form |-> y.system.form, blocks |-> SystemStrips(y)], messages |-> f.messages]
  BY ReadOfBody
<1> HIDE DEF e, f
<1>4. SystemStrips(x) = SystemStrips(y) BY DEF SystemStrips, Alike
<1>5. e = f BY <1>1, <1>2, <1>3, <1>4 DEF Alike
<1> QED BY <1>5 DEF e, f

LEMMA SystemSet ==
  ASSUME NEW x, IsBody(x), NEW sys
  PROVE [x EXCEPT !.system = sys] =
          [json |-> x.json, model |-> x.model, stream |-> x.stream, system |-> sys, messages |-> x.messages]
<1>1. ASSUME NEW q, q = [x EXCEPT !.system = sys]
      PROVE q = [json |-> x.json, model |-> x.model, stream |-> x.stream, system |-> sys,
                 messages |-> x.messages]
  <2>1. x = [json |-> x.json, model |-> x.model, stream |-> x.stream, system |-> x.system,
             messages |-> x.messages]
    BY DEF IsBody
  <2> QED BY <1>1, <2>1
<1> QED BY <1>1, Zenon

\* An instruction for the model, or None.
LEMMA InstructionIsBlock ==
  ASSUME NEW resolved, Instruction(resolved) # None
  PROVE IsBlock(Instruction(resolved)) /\ Instruction(resolved).marker = <<>>
<1>1. Instruction(resolved) = TextBlock(Line(resolved.efficiency, 8)) BY DEF Instruction
<1>2. ASSUME NEW line PROVE IsBlock(TextBlock(line)) /\ TextBlock(line).marker = <<>>
  BY DEF TextBlock, Block, IsBlock
<1> QED BY <1>1, <1>2

LEMMA Instructed ==
  ASSUME NEW x, IsBody(x), NEW ins, ins # None => IsBlock(ins)
  PROVE LET y == InjectEfficiency(x, ins)
        IN /\ IsBody(y) /\ y.json = x.json /\ y.model = x.model /\ y.messages = x.messages
           /\ y = x \/ /\ ins # None /\ x.json /\ x.system.form # "none"
                       /\ y.system.form = "blocks"
                       /\ y.system.blocks = Append(x.system.blocks, ins)
<1> DEFINE y == InjectEfficiency(x, ins)
           sys == [form |-> "blocks", blocks |-> Append(x.system.blocks, ins)]
<1>1. CASE ins = None \/ ~x.json \/ x.system.form = "none"
  <2>1. y = x BY <1>1 DEF InjectEfficiency
  <2> QED BY <2>1
<1>2. CASE ~(ins = None \/ ~x.json \/ x.system.form = "none")
  <2>1. y = [x EXCEPT !.system = sys] BY <1>2 DEF InjectEfficiency
  <2>2. sys.form = "blocks" /\ sys.blocks = Append(x.system.blocks, ins) OBVIOUS
  <2>3. sys = [form |-> sys.form, blocks |-> sys.blocks] OBVIOUS
  <2>4. IsList(sys.blocks) /\ \A k \in 1..Len(sys.blocks) : IsBlock(sys.blocks[k])
    <3> DEFINE s == x.system.blocks
    <3>1. IsList(s) /\ Len(s) \in Nat /\ \A k \in 1..Len(s) : IsBlock(s[k]) BY DEF IsBody, IsList
    <3>2. sys.blocks = Append(s, ins) OBVIOUS
    <3> HIDE DEF s, sys
    <3>3. /\ IsList(Append(s, ins)) /\ Len(Append(s, ins)) = Len(s) + 1
          /\ \A i \in 1..Len(s) : Append(s, ins)[i] = s[i]
          /\ Append(s, ins)[Len(s) + 1] = ins
      BY <3>1, ListAppend
    <3>4. \A k \in 1..(Len(s) + 1) : k \in 1..Len(s) \/ k = Len(s) + 1 BY <3>1
    <3> QED BY <1>2, <3>1, <3>2, <3>3, <3>4
  <2> HIDE DEF y, sys
  <2>5. y = [json |-> x.json, model |-> x.model, stream |-> x.stream, system |-> sys, messages |-> x.messages]
    BY <2>1, SystemSet, Zenon
  <2>6. /\ y.json = x.json /\ y.model = x.model /\ y.messages = x.messages /\ y.system = sys
        /\ y.stream = x.stream
    BY <2>5
  <2>7. y = [json |-> y.json, model |-> y.model, stream |-> y.stream, system |-> y.system, messages |-> y.messages]
    BY <2>5, <2>6
  <2>8. IsBody(y) BY <2>3, <2>4, <2>6, <2>7 DEF IsBody
  <2> QED BY <1>2, <2>2, <2>6, <2>8 DEF y
<1> QED BY <1>1, <1>2

\* The same instruction leaves bodies alike that were so.
LEMMA InstructedSame ==
  ASSUME NEW x, NEW y, IsBody(x), IsBody(y), Alike(x, y), NEW ins, ins # None => IsBlock(ins)
  PROVE Alike(InjectEfficiency(x, ins), InjectEfficiency(y, ins))
<1> DEFINE v == InjectEfficiency(x, ins)
           w == InjectEfficiency(y, ins)
<1>1. CASE ins = None \/ ~x.json \/ x.system.form = "none"
  BY <1>1 DEF InjectEfficiency, Alike
<1>2. CASE ~(ins = None \/ ~x.json \/ x.system.form = "none")
  <2>1. ~(ins = None \/ ~y.json \/ y.system.form = "none") BY <1>2 DEF Alike
  <2>3. /\ v.json = x.json /\ v.model = x.model /\ v.messages = x.messages
        /\ w.json = y.json /\ w.model = y.model /\ w.messages = y.messages
    BY Instructed
  <2>4. /\ v.system = [form |-> "blocks", blocks |-> Append(x.system.blocks, ins)]
        /\ w.system = [form |-> "blocks", blocks |-> Append(y.system.blocks, ins)]
    <3>1. ASSUME NEW z, IsBody(z), ~(ins = None \/ ~z.json \/ z.system.form = "none")
          PROVE InjectEfficiency(z, ins).system = [form |-> "blocks", blocks |-> Append(z.system.blocks, ins)]
      <4> DEFINE sys == [form |-> "blocks", blocks |-> Append(z.system.blocks, ins)]
      <4>1. InjectEfficiency(z, ins) = [z EXCEPT !.system = sys] BY <3>1 DEF InjectEfficiency
      <4> HIDE DEF sys
      <4>2. InjectEfficiency(z, ins) = [json |-> z.json, model |-> z.model, stream |-> z.stream,
                                        system |-> sys, messages |-> z.messages]
        BY <3>1, <4>1, SystemSet, Zenon
      <4>3. InjectEfficiency(z, ins).system = sys BY <4>2
      <4> QED BY <4>3 DEF sys
    <3> QED BY <1>2, <2>1, <3>1
  <2> DEFINE a == x.system.blocks
             b == y.system.blocks
  <2>5. /\ Len(a) \in Nat /\ Len(Append(a, ins)) = Len(a) + 1 /\ Len(Append(b, ins)) = Len(b) + 1
        /\ \A k \in 1..Len(a) : Append(a, ins)[k] = a[k]
        /\ \A k \in 1..Len(b) : Append(b, ins)[k] = b[k]
        /\ Append(a, ins)[Len(a) + 1] = ins /\ Append(b, ins)[Len(b) + 1] = ins
    BY ListAppend DEF IsBody, IsList
  <2>6. Len(a) = Len(b) /\ \A k \in 1..Len(a) : StripCacheControl(a[k]) = StripCacheControl(b[k])
    BY DEF Alike
  <2> HIDE DEF a, b, v, w
  <2>7. ASSUME NEW k \in 1..Len(Append(a, ins))
        PROVE StripCacheControl(Append(a, ins)[k]) = StripCacheControl(Append(b, ins)[k])
    <3>1. CASE k \in 1..Len(a)
      <4>1. Append(a, ins)[k] = a[k] /\ Append(b, ins)[k] = b[k] BY <2>5, <2>6, <3>1
      <4> QED BY <2>6, <3>1, <4>1
    <3>2. CASE k \notin 1..Len(a)
      <4>1. k = Len(a) + 1 BY <2>5, <3>2
      <4>2. Append(a, ins)[k] = ins /\ Append(b, ins)[k] = ins BY <2>5, <2>6, <4>1
      <4> QED BY <4>2
    <3> QED BY <3>1, <3>2
  <2>8. Len(Append(a, ins)) = Len(Append(b, ins)) BY <2>5, <2>6
  <2>9. v.system.form = w.system.form /\ v.system.blocks = Append(a, ins) /\ w.system.blocks = Append(b, ins)
    BY <2>4 DEF a, b
  <2> QED BY <2>3, <2>7, <2>8, <2>9 DEF Alike, MessagesAlike, v, w
<1> QED BY <1>1, <1>2

-----------------------------------------------------------------------------
LEMMA MarkedBlock ==
  ASSUME NEW b, IsBlock(b), NEW marks
  PROVE LET c == MarkedIf(marks, b)
        IN /\ IsBlock(c) /\ StripCacheControl(c) = StripCacheControl(b)
           /\ Expanded(c) = Expanded(b) /\ c.marker = b.marker
<1> DEFINE c == MarkedIf(marks, b)
<1>1. CASE c = b BY <1>1
<1>2. CASE c # b
  <2>1. c = [b EXCEPT !.cache_control = TRUE] BY <1>2 DEF MarkedIf
  <2> HIDE DEF c
  <2>2. c = [type |-> b.type, id |-> b.id, name |-> b.name, command |-> b.command, parts |-> b.parts,
             cache_control |-> TRUE, marker |-> b.marker]
    BY <2>1, MarkSet, Zenon
  <2>3. /\ c.type = b.type /\ c.id = b.id /\ c.name = b.name /\ c.command = b.command
        /\ c.parts = b.parts /\ c.marker = b.marker
    BY <2>2
  <2>4. IsBlock(c) BY <2>2 DEF IsBlock
  <2>5. StripCacheControl(c) = StripCacheControl(b) BY <2>3, <2>4, StrippedBlock
  <2>6. Expanded(c) = Expanded(b) BY <2>4, <2>5, ExpandedOfStripped
  <2> QED BY <2>3, <2>4, <2>5, <2>6 DEF c
<1> QED BY <1>1, <1>2

\* How far FlattenSeq has come after each sequence.
FlatBy(it, ss) ==
  it = [i \in 1..Len(ss) |-> IF i = 1 THEN ss[i] ELSE it[i - 1] \o ss[i]]

LEMMA FlattenGoes ==
  ASSUME NEW S, NEW ss \in Seq(Seq(S)), ss # <<>>
  PROVE \E it : FlatBy(it, ss) /\ it \in [1..Len(ss) -> Seq(S)] /\ FlattenSeq(ss) = it[Len(ss)]
<1> DEFINE V == Seq(S)
           n == Len(ss)
           h == [i \in 1..(n - 1) |-> [v \in V |-> v \o ss[i + 1]]]
           jt == CHOOSE g : FlatBy(g, ss)
<1>1. n \in Nat /\ n > 0 /\ n - 1 \in Nat /\ \A i \in 1..n : ss[i] \in V OBVIOUS
<1>2. \A v, w \in V : v \o w \in V OBVIOUS
<1> HIDE DEF n, V
<1>3. \A i \in 1..(n - 1) : i + 1 \in 1..n BY <1>1
<1>4. h \in [1..(n - 1) -> [V -> V]] BY <1>1, <1>2, <1>3
<1>5. \A i \in 1..(n - 1) : \A v \in V : h[i][v] = v \o ss[i + 1] OBVIOUS
<1> HIDE DEF h
<1>6. 1 \in 1..n BY <1>1
<1>7. ss[1] \in V BY <1>1, <1>6
<1>8. PICK kt : Runs(kt, n - 1, V, ss[1], h) BY <1>1, <1>4, <1>7, Recursion
<1>9. kt \in [0..(n - 1) -> V] /\ Steps(kt, n - 1, ss[1], h) BY <1>8 DEF Runs
<1> DEFINE it == [i \in 1..n |-> kt[i - 1]]
<1>10. it \in [1..n -> V]
  <2>1. \A i \in 1..n : i - 1 \in 0..(n - 1) BY <1>1
  <2> QED BY <1>9, <2>1
<1>11. ASSUME NEW i \in 1..n PROVE it[i] = IF i = 1 THEN ss[i] ELSE it[i - 1] \o ss[i]
  <2>1. CASE i = 1 BY <1>9, <2>1 DEF Steps
  <2>2. CASE i # 1
    <3>1. i - 1 \in 1..(n - 1) /\ i - 1 \in 1..n /\ (i - 1) + 1 = i /\ (i - 1) - 1 \in 0..(n - 1)
      BY <1>1, <2>2
    <3>2. it[i] = kt[i - 1] /\ it[i - 1] = kt[(i - 1) - 1] BY <3>1
    <3>3. kt[i - 1] = h[i - 1][kt[(i - 1) - 1]] BY <1>9, <3>1 DEF Steps
    <3>4. kt[(i - 1) - 1] \in V BY <1>9, <3>1
    <3>5. kt[i - 1] = kt[(i - 1) - 1] \o ss[i] BY <1>5, <3>1, <3>3, <3>4
    <3> QED BY <2>2, <3>2, <3>5
  <2> QED BY <2>1, <2>2
<1>12. FlatBy(it, ss)
  <2>1. it = [i \in 1..n |-> it[i]] OBVIOUS
  <2> HIDE DEF it
  <2> QED BY <1>11, <2>1 DEF FlatBy, n
<1>13. FlatBy(jt, ss) BY <1>12, Zenon
<1>14. FlattenSeq(ss) = jt[n]
  <2>1. ~(Len(ss) = 0) BY <1>1 DEF n
  <2> QED BY <2>1 DEF FlattenSeq, FlatBy, n
<1> HIDE DEF jt, it
<1>15. ASSUME NEW i \in 1..n, i # 1 PROVE jt[i] = jt[i - 1] \o ss[i]
  <2>1. i \in 1..Len(ss) BY DEF n
  <2>2. jt = [k \in 1..Len(ss) |-> IF k = 1 THEN ss[k] ELSE jt[k - 1] \o ss[k]] BY <1>13 DEF FlatBy
  <2>3. jt[i] = IF i = 1 THEN ss[i] ELSE jt[i - 1] \o ss[i] BY <2>1, <2>2
  <2> QED BY <1>15, <2>3
<1>16. jt[1] = ss[1] BY <1>6, <1>13 DEF FlatBy, n
<1> DEFINE G == {i \in Nat : i + 1 <= n => jt[i + 1] \in V}
<1>17. 0 \in G BY <1>7, <1>16
<1>18. ASSUME NEW i \in G PROVE i + 1 \in G
  <2>1. i \in Nat OBVIOUS
  <2>2. ASSUME (i + 1) + 1 <= n PROVE jt[(i + 1) + 1] \in V
    <3>1. (i + 1) + 1 \in 1..n /\ (i + 1) + 1 # 1 /\ ((i + 1) + 1) - 1 = i + 1 /\ i + 1 <= n
      BY <1>1, <2>1, <2>2
    <3>2. jt[i + 1] \in V BY <3>1
    <3>3. jt[(i + 1) + 1] = jt[i + 1] \o ss[(i + 1) + 1] BY <1>15, <3>1
    <3> QED BY <1>1, <1>2, <3>1, <3>2, <3>3
  <2> QED BY <2>1, <2>2
<1>19. G = Nat
  <2> HIDE DEF G
  <2>1. G \in SUBSET Nat BY DEF G
  <2> QED BY <1>17, <1>18, <2>1, AllNumbers
<1>20. jt \in [1..n -> V]
  <2>1. jt = [i \in 1..n |-> jt[i]]
    <3>1. DOMAIN jt = 1..n BY <1>13 DEF FlatBy, n
    <3> QED BY <1>13, <3>1 DEF FlatBy, n
  <2>2. ASSUME NEW i \in 1..n PROVE jt[i] \in V
    <3>1. i - 1 \in Nat /\ (i - 1) + 1 = i /\ (i - 1) + 1 <= n BY <1>1
    <3>2. i - 1 \in G
      <4> HIDE DEF G
      <4> QED BY <1>19, <3>1
    <3> QED BY <3>1, <3>2
  <2> QED BY <2>1, <2>2
<1> QED BY <1>13, <1>14, <1>20 DEF n, V

LEMMA FlattenOf ==
  ASSUME NEW S, NEW ss \in Seq(Seq(S))
  PROVE /\ FlattenSeq(ss) \in Seq(S)
        /\ \A i \in 1..Len(ss) : \A k \in 1..Len(ss[i]) : ss[i][k] \in Range(FlattenSeq(ss))
        /\ \A x \in Range(FlattenSeq(ss)) : \E i \in 1..Len(ss) : \E k \in 1..Len(ss[i]) : x = ss[i][k]
<1>1. CASE ss = <<>>
  <2>1. FlattenSeq(ss) = <<>> BY <1>1 DEF FlattenSeq
  <2>2. <<>> \in Seq(S) /\ Len(ss) = 0 BY <1>1
  <2>3. Range(<<>>) = {} BY DEF Range
  <2> QED BY <2>1, <2>2, <2>3
<1>2. CASE ss # <<>>
  <2> DEFINE n == Len(ss)
  <2>1. PICK it : FlatBy(it, ss) /\ it \in [1..n -> Seq(S)] /\ FlattenSeq(ss) = it[n]
    BY <1>2, FlattenGoes
  <2>2. n \in Nat /\ n > 0 /\ \A i \in 1..n : ss[i] \in Seq(S) BY <1>2
  <2> DEFINE Holds(j) == /\ \A i \in 1..j : \A k \in 1..Len(ss[i]) : ss[i][k] \in Range(it[j])
                         /\ \A x \in Range(it[j]) : \E i \in 1..j : \E k \in 1..Len(ss[i]) : x = ss[i][k]
             G == {j \in Nat : j \in 1..n => Holds(j)}
  <2>3. 0 \in G OBVIOUS
  <2>4. ASSUME NEW j \in G PROVE j + 1 \in G
    <3>0. j \in Nat OBVIOUS
    <3> SUFFICES ASSUME j + 1 \in 1..n PROVE Holds(j + 1)
      <4> HIDE DEF Holds
      <4>1. j + 1 \in Nat BY <3>0
      <4> QED BY <4>1, Zenon
    <3>1. CASE j = 0
      <4>1. it[1] = ss[1] BY <2>1, <2>2 DEF FlatBy
      <4>2. Range(ss[1]) = {ss[1][k] : k \in 1..Len(ss[1])}
        <5>1. ss[1] \in Seq(S) BY <2>2
        <5>2. DOMAIN ss[1] = 1..Len(ss[1]) BY <5>1
        <5> QED BY <5>2, Zenon DEF Range
      <4>3. \A i \in 1..(j + 1) : i = 1 BY <3>1
      <4>4. 1 \in 1..(j + 1) /\ j + 1 = 1 BY <3>1
      <4>5. \A i \in 1..(j + 1) : \A k \in 1..Len(ss[i]) : ss[i][k] \in Range(it[j + 1])
        BY <4>1, <4>2, <4>3, <4>4
      <4>6. ASSUME NEW x \in Range(it[j + 1])
            PROVE \E i \in 1..(j + 1) : \E k \in 1..Len(ss[i]) : x = ss[i][k]
        BY <4>1, <4>2, <4>4
      <4> QED BY <4>5, <4>6
    <3>2. CASE j # 0
      <4>1. j \in 1..n /\ j + 1 # 1 /\ (j + 1) - 1 = j BY <2>2, <3>0, <3>2
      <4>2. it[j + 1] = it[j] \o ss[j + 1] BY <2>1, <4>1 DEF FlatBy
      <4>3. it[j] \in Seq(S) /\ ss[j + 1] \in Seq(S) BY <2>1, <2>2, <4>1
      <4>4. Range(it[j + 1]) = Range(it[j]) \cup {ss[j + 1][k] : k \in 1..Len(ss[j + 1])}
        <5> DEFINE a == it[j]
                   b == ss[j + 1]
        <5>1. a \in Seq(S) /\ b \in Seq(S) BY <4>3
        <5> HIDE DEF a, b
        <5>2. /\ Len(a) \in Nat /\ Len(b) \in Nat /\ Len(a \o b) = Len(a) + Len(b)
              /\ DOMAIN (a \o b) = 1..(Len(a) + Len(b))
              /\ \A i \in 1..Len(a) : (a \o b)[i] = a[i]
              /\ DOMAIN a = 1..Len(a)
          BY <5>1
        <5>3. \A k \in 1..Len(b) : (a \o b)[Len(a) + k] = b[k] BY <5>1
        <5>4. ASSUME NEW i \in 1..(Len(a) + Len(b))
              PROVE (a \o b)[i] \in Range(a) \cup {b[k] : k \in 1..Len(b)}
          <6>1. CASE i \in 1..Len(a) BY <5>2, <6>1 DEF Range
          <6>2. CASE i \notin 1..Len(a)
            <7>1. i - Len(a) \in 1..Len(b) /\ Len(a) + (i - Len(a)) = i BY <5>2, <6>2
            <7> QED BY <5>3, <7>1
          <6> QED BY <6>1, <6>2
        <5>5. \A i \in 1..Len(a) : i \in 1..(Len(a) + Len(b)) BY <5>2
        <5>6. \A k \in 1..Len(b) : Len(a) + k \in 1..(Len(a) + Len(b)) BY <5>2
        <5>7. ASSUME NEW x \in Range(a) \cup {b[k] : k \in 1..Len(b)} PROVE x \in Range(a \o b)
          <6>1. CASE x \in Range(a)
            <7>1. PICK i \in 1..Len(a) : x = a[i] BY <5>2, <6>1 DEF Range
            <7> QED BY <5>2, <5>5, <7>1 DEF Range
          <6>2. CASE x \in {b[k] : k \in 1..Len(b)}
            <7>1. PICK k \in 1..Len(b) : x = b[k] BY <6>2
            <7> QED BY <5>2, <5>3, <5>6, <7>1 DEF Range
          <6> QED BY <5>7, <6>1, <6>2
        <5>8. ASSUME NEW x \in Range(a \o b) PROVE x \in Range(a) \cup {b[k] : k \in 1..Len(b)}
          <6>1. PICK i \in 1..(Len(a) + Len(b)) : x = (a \o b)[i] BY <5>2 DEF Range
          <6> QED BY <5>4, <6>1
        <5>9. Range(a \o b) = Range(a) \cup {b[k] : k \in 1..Len(b)} BY <5>7, <5>8
        <5> QED BY <4>2, <5>9 DEF a, b
      <4>5. Holds(j) BY <4>1
      <4>6. \A i \in 1..(j + 1) : i \in 1..j \/ i = j + 1 BY <3>0
      <4>7. \A i \in 1..j : i \in 1..(j + 1) BY <3>0
      <4>8. \A i \in 1..(j + 1) : \A k \in 1..Len(ss[i]) : ss[i][k] \in Range(it[j + 1])
        BY <4>4, <4>5, <4>6
      <4>9. ASSUME NEW x \in Range(it[j + 1])
            PROVE \E i \in 1..(j + 1) : \E k \in 1..Len(ss[i]) : x = ss[i][k]
        BY <4>4, <4>5, <4>7
      <4> QED BY <4>8, <4>9
    <3> QED BY <3>1, <3>2
  <2>5. G = Nat
    <3> HIDE DEF G
    <3>1. G \in SUBSET Nat BY DEF G
    <3> QED BY <2>3, <2>4, <3>1, AllNumbers
  <2>6. Holds(n)
    <3>1. n \in 1..n BY <2>2
    <3>2. n \in G
      <4> HIDE DEF G
      <4> QED BY <2>2, <2>5
    <3> HIDE DEF Holds
    <3> QED BY <3>1, <3>2
  <2>7. it[n] \in Seq(S) BY <2>1, <2>2
  <2> QED BY <2>1, <2>6, <2>7
<1> QED BY <1>1, <1>2

LEMMA RangeOfThose ==
  ASSUME NEW S, NEW s \in Seq(S), NEW set
  PROVE Range(Those(s, set)) = Range(s) \cap set
<1> DEFINE G == {t \in Seq(S) : Range(Those(t, set)) = Range(t) \cap set}
<1>0. ASSUME NEW t \in Seq(S), NEW x \in S PROVE Range(Append(t, x)) = Range(t) \cup {x}
  <2>1. /\ Len(t) \in Nat /\ DOMAIN t = 1..Len(t) /\ DOMAIN Append(t, x) = 1..(Len(t) + 1)
        /\ \A i \in 1..Len(t) : Append(t, x)[i] = t[i]
        /\ Append(t, x)[Len(t) + 1] = x
    OBVIOUS
  <2>2. \A i \in 1..(Len(t) + 1) : i \in 1..Len(t) \/ i = Len(t) + 1 BY <2>1
  <2>3. Len(t) + 1 \in 1..(Len(t) + 1) /\ \A i \in 1..Len(t) : i \in 1..(Len(t) + 1) BY <2>1
  <2> QED BY <2>1, <2>2, <2>3 DEF Range
<1>1. <<>> \in G
  <2>1. <<>> \in Seq(S) /\ Range(<<>>) = {} BY DEF Range
  <2>2. Those(<<>>, set) = <<>> BY <2>1, ThoseOf
  <2> QED BY <2>1, <2>2
<1>2. ASSUME NEW t \in G, NEW x \in S PROVE Append(t, x) \in G
  <2>1. t \in Seq(S) /\ Append(t, x) \in Seq(S) /\ Range(Those(t, set)) = Range(t) \cap set OBVIOUS
  <2>2. /\ Those(t, set) \in Seq(S)
        /\ Those(Append(t, x), set) = IF x \in set THEN Append(Those(t, set), x) ELSE Those(t, set)
    <3>1. Those(t, set) \in Seq(S) BY <2>1, ThoseOf
    <3>2. \A y \in S : Those(Append(t, y), set) = IF y \in set THEN Append(Those(t, set), y) ELSE Those(t, set)
      <4> HIDE DEF G
      <4> QED BY <2>1, ThoseOf
    <3> QED BY <3>1, <3>2
  <2>3. Range(Append(t, x)) = Range(t) \cup {x} BY <1>0, <2>1
  <2>4. CASE x \in set
    <3>1. Range(Those(Append(t, x), set)) = Range(Those(t, set)) \cup {x} BY <1>0, <2>2, <2>4
    <3>2. Range(Those(Append(t, x), set)) = Range(Append(t, x)) \cap set BY <2>1, <2>3, <2>4, <3>1
    <3> QED BY <2>1, <3>2
  <2>5. CASE x \notin set
    <3>1. Those(Append(t, x), set) = Those(t, set) BY <2>2, <2>5
    <3>2. Range(Those(Append(t, x), set)) = Range(Append(t, x)) \cap set BY <2>1, <2>3, <2>5, <3>1
    <3> QED BY <2>1, <3>2
  <2> QED BY <2>4, <2>5
<1>3. G = Seq(S)
  <2> HIDE DEF G
  <2>1. G \in SUBSET Seq(S) BY DEF G
  <2> QED BY <1>1, <1>2, <2>1, AllSequences
<1> QED BY <1>3

AllBlocks(x) == UNION {{x.messages[m].blocks[k] : k \in 1..Len(x.messages[m].blocks)} : m \in 1..Len(x.messages)}

OfBody(y, x) == \E m \in 1..Len(x.messages) : \E k \in 1..Len(x.messages[m].blocks) : y = x.messages[m].blocks[k]

LEMMA OneOfBlocks == ASSUME NEW x, NEW y PROVE y \in AllBlocks(x) <=> OfBody(y, x)
<1> DEFINE B(m) == {x.messages[m].blocks[k] : k \in 1..Len(x.messages[m].blocks)}
<1>1. \A m : y \in B(m) <=> \E k \in 1..Len(x.messages[m].blocks) : y = x.messages[m].blocks[k]
  OBVIOUS
<1>2. AllBlocks(x) = UNION {B(m) : m \in 1..Len(x.messages)} BY DEF AllBlocks
<1> HIDE DEF B
<1>3. y \in AllBlocks(x) <=> \E m \in 1..Len(x.messages) : y \in B(m) BY <1>2
<1> QED BY <1>1, <1>3, Zenon DEF OfBody

LEMMA ContentOf ==
  ASSUME NEW x, IsBody(x)
  PROVE Content(x) \in Seq(AllBlocks(x)) /\ Range(Content(x)) = AllBlocks(x)
<1> DEFINE S == AllBlocks(x)
           n == Len(x.messages)
           ss == [m \in DOMAIN x.messages |-> x.messages[m].blocks]
<1>1. n \in Nat /\ DOMAIN x.messages = 1..n /\ \A m \in 1..n : IsMessage(x.messages[m])
  BY ListDomain DEF IsBody
<1>2. ASSUME NEW m \in 1..n PROVE x.messages[m].blocks \in Seq(S)
  <2> DEFINE bs == x.messages[m].blocks
  <2>1. bs = [k \in 1..Len(bs) |-> bs[k]] /\ Len(bs) \in Nat BY <1>1 DEF IsMessage, IsList
  <2>2. \A k \in 1..Len(bs) : bs[k] \in S BY DEF AllBlocks
  <2> HIDE DEF bs, S
  <2>3. bs \in Seq(S) BY <2>1, <2>2
  <2> QED BY <2>3 DEF bs
<1> HIDE DEF S
<1>3. /\ ss \in Seq(Seq(S)) /\ Len(ss) = n /\ \A m \in 1..n : ss[m] = x.messages[m].blocks
  <2> DEFINE T == Seq(S)
  <2>1. ss = [m \in 1..n |-> x.messages[m].blocks] BY <1>1
  <2>2. \A m \in 1..n : x.messages[m].blocks \in T BY <1>2
  <2> HIDE DEF T, n, ss
  <2>3. ss \in [1..n -> T] BY <2>1, <2>2
  <2>4. ss \in Seq(T) /\ Len(ss) = n BY <1>1, <2>3
  <2> QED BY <2>1, <2>4 DEF T
<1>4. Content(x) = FlattenSeq(ss) BY DEF Content
<1> HIDE DEF ss
<1>5. /\ FlattenSeq(ss) \in Seq(S)
      /\ \A i \in 1..Len(ss) : \A k \in 1..Len(ss[i]) : ss[i][k] \in Range(FlattenSeq(ss))
      /\ \A y \in Range(FlattenSeq(ss)) : \E i \in 1..Len(ss) : \E k \in 1..Len(ss[i]) : y = ss[i][k]
  BY <1>3, FlattenOf
<1>6. ASSUME NEW y \in Range(FlattenSeq(ss)) PROVE y \in S
  <2>1. PICK i \in 1..n : \E k \in 1..Len(ss[i]) : y = ss[i][k] BY <1>3, <1>5
  <2>2. PICK k \in 1..Len(ss[i]) : y = ss[i][k] BY <2>1
  <2>3. ss[i] = x.messages[i].blocks BY <1>3
  <2>4. k \in 1..Len(x.messages[i].blocks) /\ y = x.messages[i].blocks[k] BY <2>2, <2>3
  <2>5. OfBody(y, x) BY <2>4 DEF OfBody
  <2> QED BY <2>5, OneOfBlocks DEF S
<1>7. ASSUME NEW y \in S PROVE y \in Range(FlattenSeq(ss))
  <2>1. PICK m \in 1..n : \E k \in 1..Len(x.messages[m].blocks) : y = x.messages[m].blocks[k]
    BY OneOfBlocks DEF S, OfBody
  <2>2. PICK k \in 1..Len(x.messages[m].blocks) : y = x.messages[m].blocks[k] BY <2>1
  <2> QED BY <1>3, <1>5, <2>1, <2>2
<1> QED BY <1>4, <1>5, <1>6, <1>7 DEF S

\* The blobs that a body names.
NamesIn(x, hashes) == \A b : OfBody(b, x) /\ b.marker # <<>> => b.marker[1].hash \in hashes

-----------------------------------------------------------------------------
LEMMA ReducedBlock ==
  ASSUME NEW defs, NEW config, NEW uses, NEW b, IsBlock(b), b.marker = <<>>
  PROVE LET c == ReduceBlock(defs, config, uses, b)
        IN /\ IsBlock(c) /\ Expanded(c) = Expanded(b)
           /\ c.marker # <<>> => /\ Reducible(defs, config, uses, b)
                                 /\ c.marker[1].hash = Hash(ExtractText(b))
<1> DEFINE c == ReduceBlock(defs, config, uses, b)
<1>1. CASE ~Reducible(defs, config, uses, b) BY <1>1 DEF ReduceBlock
<1>2. CASE Reducible(defs, config, uses, b)
  <2> DEFINE raw == ExtractText(b)
             reduced == ReducedText(defs, uses, b)
             percent == Percent(EstimateTokens(raw), EstimateTokens(reduced))
             marker == <<[hash |-> Hash(raw), percent |-> percent]>>
             r == ReplaceContent(b, reduced)
             parts == IF b.parts = <<>> THEN <<reduced>>
                      ELSE [i \in DOMAIN b.parts |-> IF i = 1 THEN reduced ELSE <<>>]
  <2>1. c = [r EXCEPT !.marker = marker] BY <1>2 DEF ReduceBlock
  <2>2. r = [b EXCEPT !.parts = parts] BY DEF ReplaceContent
  <2>3. marker # <<>> /\ marker[1].hash = Hash(raw) OBVIOUS
  <2> HIDE DEF raw, reduced, percent, marker, parts, r, c
  <2>4. r = [type |-> b.type, id |-> b.id, name |-> b.name, command |-> b.command, parts |-> parts,
             cache_control |-> b.cache_control, marker |-> b.marker]
    BY <2>2 DEF IsBlock
  <2>5. c = [type |-> b.type, id |-> b.id, name |-> b.name, command |-> b.command, parts |-> parts,
             cache_control |-> b.cache_control, marker |-> marker]
    BY <2>1, <2>4
  <2>6. IsBlock(c) BY <2>5 DEF IsBlock
  <2>7. c.marker = marker /\ c.type = b.type /\ c.id = b.id /\ c.name = b.name /\ c.command = b.command
    BY <2>5
  <2>8. TextOf(c) = TextOf(b)
    <3>1. TextOf(c) = <<Hash(raw)>> BY <2>3, <2>7 DEF TextOf
    <3>2. TextOf(b) = <<raw>> BY DEF TextOf, raw
    <3> QED BY <3>1, <3>2 DEF Hash
  <2>9. Expanded(c) = Expanded(b) BY <2>6, <2>7, <2>8, ExpandedShape
  <2> QED BY <1>2, <2>3, <2>6, <2>7, <2>9 DEF raw, c
<1> QED BY <1>1, <1>2

\* Blocks one by one for those of x.
OneByOne(x, new) ==
  \A m \in 1..Len(x.messages) :
    /\ IsList(new[m]) /\ Len(new[m]) = Len(x.messages[m].blocks)
    /\ \A k \in 1..Len(x.messages[m].blocks) :
         IsBlock(new[m][k]) /\ Expanded(new[m][k]) = Expanded(x.messages[m].blocks[k])

LEMMA RenewedAlike ==
  ASSUME NEW x, IsBody(x), NEW new, OneByOne(x, new)
  PROVE /\ IsBody(WithBlocks(x, new)) /\ Alike(WithBlocks(x, new), x)
        /\ \A b : OfBody(b, WithBlocks(x, new)) =>
             \E m \in 1..Len(x.messages) : \E k \in 1..Len(x.messages[m].blocks) : b = new[m][k]
<1> DEFINE y == WithBlocks(x, new)
<1>1. /\ y.json = x.json /\ y.model = x.model /\ y.stream = x.stream /\ y.system = x.system
      /\ Len(y.messages) = Len(x.messages)
      /\ \A m \in 1..Len(x.messages) :
           /\ y.messages[m].role = x.messages[m].role /\ y.messages[m].form = x.messages[m].form
           /\ y.messages[m].blocks = new[m]
  BY RenewedAt
<1>2. IsBody(y) BY RenewedAt DEF OneByOne
<1> HIDE DEF y
<1>3. MessagesAlike(y, x) BY <1>1 DEF MessagesAlike, AlikeMessages, OneByOne
<1>4. Alike(y, x) BY <1>1, <1>3 DEF Alike
<1>5. ASSUME NEW b, OfBody(b, y)
      PROVE \E m \in 1..Len(x.messages) : \E k \in 1..Len(x.messages[m].blocks) : b = new[m][k]
  <2>1. PICK m \in 1..Len(y.messages) : \E k \in 1..Len(y.messages[m].blocks) : b = y.messages[m].blocks[k]
    BY <1>5 DEF OfBody
  <2>2. PICK k \in 1..Len(y.messages[m].blocks) : b = y.messages[m].blocks[k] BY <2>1
  <2>3. m \in 1..Len(x.messages) BY <1>1
  <2>4. y.messages[m].blocks = new[m] /\ Len(new[m]) = Len(x.messages[m].blocks) BY <1>1, <2>3 DEF OneByOne
  <2>5. k \in 1..Len(x.messages[m].blocks) /\ b = new[m][k] BY <2>2, <2>4
  <2> QED BY <2>3, <2>5
<1> QED BY <1>2, <1>4, <1>5 DEF y

LEMMA AlikeTrans ==
  ASSUME NEW x, NEW y, NEW z, Alike(x, y), Alike(y, z)
  PROVE Alike(x, z)
<1>1. MessagesAlike(x, z)
  <2>1. Len(x.messages) = Len(z.messages) BY DEF Alike, MessagesAlike
  <2>2. ASSUME NEW m \in 1..Len(x.messages) PROVE AlikeMessages(x.messages[m], z.messages[m])
    <3>1. AlikeMessages(x.messages[m], y.messages[m]) BY DEF Alike, MessagesAlike
    <3>2. AlikeMessages(y.messages[m], z.messages[m]) BY DEF Alike, MessagesAlike
    <3> QED BY <3>1, <3>2 DEF AlikeMessages
  <2> QED BY <2>1, <2>2 DEF MessagesAlike
<1>2. ASSUME NEW k \in 1..Len(x.system.blocks)
      PROVE StripCacheControl(x.system.blocks[k]) = StripCacheControl(z.system.blocks[k])
  <2>1. k \in 1..Len(y.system.blocks) BY DEF Alike
  <2> QED BY <2>1 DEF Alike
<1> QED BY <1>1, <1>2 DEF Alike

LEMMA AlikeSelf == ASSUME NEW x PROVE Alike(x, x)
BY DEF Alike, MessagesAlike, AlikeMessages

LEMMA AlikeBack == ASSUME NEW x, NEW y, Alike(x, y) PROVE Alike(y, x)
BY DEF Alike, MessagesAlike, AlikeMessages

LEMMA SystemBlocksSet ==
  ASSUME NEW x, IsBody(x), NEW bs
  PROVE [x EXCEPT !.system.blocks = bs] =
          [json |-> x.json, model |-> x.model, stream |-> x.stream,
           system |-> [form |-> x.system.form, blocks |-> bs], messages |-> x.messages]
<1>1. ASSUME NEW q, q = [x EXCEPT !.system.blocks = bs]
      PROVE q = [json |-> x.json, model |-> x.model, stream |-> x.stream,
                 system |-> [form |-> x.system.form, blocks |-> bs], messages |-> x.messages]
  <2>1. x = [json |-> x.json, model |-> x.model, stream |-> x.stream, system |-> x.system,
             messages |-> x.messages]
        /\ x.system = [form |-> x.system.form, blocks |-> x.system.blocks]
    BY DEF IsBody
  <2> QED BY <1>1, <2>1
<1> QED BY <1>1, Zenon

LEMMA BlockAt ==
  ASSUME NEW x, IsBody(x), NEW m \in 1..Len(x.messages)
  PROVE /\ m \in DOMAIN x.messages /\ IsMessage(x.messages[m])
        /\ DOMAIN x.messages[m].blocks = 1..Len(x.messages[m].blocks)
        /\ Len(x.messages[m].blocks) \in Nat
        /\ \A k \in 1..Len(x.messages[m].blocks) : IsBlock(x.messages[m].blocks[k])
<1>1. IsMessage(x.messages[m]) /\ m \in DOMAIN x.messages BY ListDomain DEF IsBody
<1> QED BY <1>1, ListDomain DEF IsMessage

\* Marks leave a body as it is read.
LEMMA MarkedBody ==
  ASSUME NEW x, IsBody(x), NEW plan
  PROVE LET y == InjectCacheControl(x, plan)
        IN /\ IsBody(y) /\ Alike(y, x)
           /\ \A hashes : NamesIn(x, hashes) => NamesIn(y, hashes)
<1> DEFINE new == [m \in DOMAIN x.messages |->
                     [b \in DOMAIN x.messages[m].blocks |->
                        MarkedIf(<<m, b>> \in plan.message_blocks, x.messages[m].blocks[b])]]
           z == WithBlocks(x, new)
           sys == [b \in DOMAIN z.system.blocks |-> MarkedIf(b = plan.system_block_index, z.system.blocks[b])]
           y == InjectCacheControl(x, plan)
<1>1. y = [z EXCEPT !.system.blocks = sys] BY DEF InjectCacheControl
<1>2. ASSUME NEW m \in 1..Len(x.messages)
      PROVE /\ IsList(new[m]) /\ Len(new[m]) = Len(x.messages[m].blocks)
            /\ \A k \in 1..Len(x.messages[m].blocks) :
                 /\ IsBlock(new[m][k]) /\ Expanded(new[m][k]) = Expanded(x.messages[m].blocks[k])
                 /\ new[m][k].marker = x.messages[m].blocks[k].marker
  <2> DEFINE bs == x.messages[m].blocks
             nb == new[m]
  <2>1. m \in DOMAIN x.messages /\ DOMAIN bs = 1..Len(bs) /\ Len(bs) \in Nat /\ \A k \in 1..Len(bs) : IsBlock(bs[k])
    BY BlockAt
  <2>2. nb = [k \in DOMAIN bs |-> MarkedIf(<<m, k>> \in plan.message_blocks, bs[k])] BY <2>1
  <2> HIDE DEF bs, nb, new
  <2>3. /\ IsList(nb) /\ Len(nb) = Len(bs)
        /\ \A k \in 1..Len(bs) : nb[k] = MarkedIf(<<m, k>> \in plan.message_blocks, bs[k])
    BY <2>1, <2>2 DEF IsList
  <2>4. \A k \in 1..Len(bs) : IsBlock(nb[k]) /\ Expanded(nb[k]) = Expanded(bs[k]) /\ nb[k].marker = bs[k].marker
    BY <2>1, <2>3, MarkedBlock
  <2> QED BY <2>3, <2>4 DEF bs, nb
<1> HIDE DEF new
<1>3. OneByOne(x, new) BY <1>2 DEF OneByOne
<1>4. /\ IsBody(z) /\ Alike(z, x)
      /\ \A b : OfBody(b, z) =>
           \E m \in 1..Len(x.messages) : \E k \in 1..Len(x.messages[m].blocks) : b = new[m][k]
  BY <1>3, RenewedAlike
<1>5. ASSUME NEW hashes, NamesIn(x, hashes) PROVE NamesIn(z, hashes)
  <2> SUFFICES ASSUME NEW b, OfBody(b, z), b.marker # <<>> PROVE b.marker[1].hash \in hashes
    BY DEF NamesIn
  <2>1. PICK m \in 1..Len(x.messages) : \E k \in 1..Len(x.messages[m].blocks) : b = new[m][k] BY <1>4
  <2>2. PICK k \in 1..Len(x.messages[m].blocks) : b = new[m][k] BY <2>1
  <2>3. b.marker = x.messages[m].blocks[k].marker BY <1>2, <2>2
  <2>4. OfBody(x.messages[m].blocks[k], x) BY DEF OfBody
  <2> QED BY <1>5, <2>3, <2>4 DEF NamesIn
<1>6. /\ IsList(sys) /\ Len(sys) = Len(z.system.blocks)
      /\ \A k \in 1..Len(sys) : IsBlock(sys[k]) /\ StripCacheControl(sys[k]) = StripCacheControl(z.system.blocks[k])
  <2> DEFINE bs == z.system.blocks
             nb == sys
  <2>1. DOMAIN bs = 1..Len(bs) /\ Len(bs) \in Nat /\ \A k \in 1..Len(bs) : IsBlock(bs[k])
    BY <1>4, ListDomain DEF IsBody
  <2>2. nb = [k \in DOMAIN bs |-> MarkedIf(k = plan.system_block_index, bs[k])] OBVIOUS
  <2> HIDE DEF bs, nb, z
  <2>3. IsList(nb) /\ Len(nb) = Len(bs) /\ \A k \in 1..Len(bs) : nb[k] = MarkedIf(k = plan.system_block_index, bs[k])
    BY <2>1, <2>2 DEF IsList
  <2>4. \A k \in 1..Len(bs) : IsBlock(nb[k]) /\ StripCacheControl(nb[k]) = StripCacheControl(bs[k])
    BY <2>1, <2>3, MarkedBlock
  <2> QED BY <2>3, <2>4 DEF bs, nb, z
<1> HIDE DEF z, sys, y
<1>7. y = [json |-> z.json, model |-> z.model, stream |-> z.stream,
           system |-> [form |-> z.system.form, blocks |-> sys], messages |-> z.messages]
  BY <1>1, <1>4, SystemBlocksSet, Zenon
<1>8. /\ y.json = z.json /\ y.model = z.model /\ y.stream = z.stream /\ y.messages = z.messages
      /\ y.system = [form |-> z.system.form, blocks |-> sys]
  BY <1>7
<1>9. y.system.form = z.system.form /\ y.system.blocks = sys BY <1>8
<1>10. IsBody(y)
  <2>1. /\ y = [json |-> y.json, model |-> y.model, stream |-> y.stream, system |-> y.system,
                messages |-> y.messages]
        /\ y.system = [form |-> y.system.form, blocks |-> y.system.blocks]
    BY <1>7, <1>8, <1>9
  <2> QED BY <1>4, <1>6, <1>8, <1>9, <2>1 DEF IsBody
<1>11. Alike(y, z)
  <2>1. MessagesAlike(y, z) BY <1>8 DEF MessagesAlike, AlikeMessages
  <2> QED BY <1>6, <1>8, <1>9, <2>1 DEF Alike
<1>12. Alike(y, x) BY <1>4, <1>11, AlikeTrans
<1>13. \A hashes : NamesIn(z, hashes) => NamesIn(y, hashes) BY <1>8 DEF NamesIn, OfBody
<1> QED BY <1>5, <1>10, <1>12, <1>13 DEF y

Unnamed(x) == \A b : OfBody(b, x) => b.marker = <<>>

\* What the reducer makes of a body.
LEMMA ReducedBody ==
  ASSUME NEW defs, NEW resolved, NEW x, IsBody(x), Unnamed(x), NEW bypassed, NEW failing
  PROVE LET r == ReduceBody(defs, resolved, x, bypassed, failing)
        IN /\ IsBody(r.body) /\ Alike(r.body, x) /\ NamesIn(r.body, Range(r.hashes))
           /\ Range(r.hashes) \subseteq Range(r.stored)
<1> DEFINE config == IF resolved.reduce = None THEN [enabled |-> TRUE, command_bypass |-> {}]
                     ELSE resolved.reduce
           uses == ToolUses(x)
           content == Content(x)
           may == {b \in Range(content) : Reducible(defs, config, uses, b)}
           found == Those(content, may)
           hashes == [i \in DOMAIN found |-> Hash(ExtractText(found[i]))]
           new == [m \in DOMAIN x.messages |->
                     [b \in DOMAIN x.messages[m].blocks |->
                        ReduceBlock(defs, config, uses, x.messages[m].blocks[b])]]
           total == Len(Those(content, {b \in Range(content) : b.type = "tool_result"}))
           kept0 == [body |-> x, hashes |-> <<>>, stored |-> <<>>, reductions |-> 0, passthroughs |-> 0]
           part == [kept0 EXCEPT !.stored = SubSeq(hashes, 1, failing - 1)]
           done == [body |-> WithBlocks(x, new), hashes |-> hashes, stored |-> hashes,
                    reductions |-> Len(found), passthroughs |-> total - Len(found)]
           r == ReduceBody(defs, resolved, x, bypassed, failing)
<1>1. r = kept0 \/ r = part \/ r = done BY DEF ReduceBody, MapContent
<1>2. Range(<<>>) = {} BY DEF Range
<1>3. NamesIn(x, {}) BY DEF NamesIn, Unnamed
<1>4. ASSUME r = kept0 \/ r = part PROVE r.body = x /\ r.hashes = <<>>
  <2>1. part.body = x /\ part.hashes = <<>> OBVIOUS
  <2>2. kept0.body = x /\ kept0.hashes = <<>> OBVIOUS
  <2> HIDE DEF part, kept0, r
  <2> QED BY <1>4, <2>1, <2>2
<1>5. ASSUME r = done PROVE r.body = WithBlocks(x, new) /\ r.hashes = hashes /\ r.stored = hashes
  <2>1. done.body = WithBlocks(x, new) /\ done.hashes = hashes /\ done.stored = hashes OBVIOUS
  <2> HIDE DEF done, r, new, hashes
  <2> QED BY <1>5, <2>1
<1> HIDE DEF r, kept0, part, done
<1>6. CASE r = kept0 \/ r = part
  <2>1. IsBody(r.body) /\ Alike(r.body, x) BY <1>4, <1>6, AlikeSelf
  <2>2. Range(r.hashes) = {} BY <1>2, <1>4, <1>6
  <2> QED BY <1>3, <1>4, <1>6, <2>1, <2>2 DEF r
<1>7. CASE r = done
  <2>1. ASSUME NEW m \in 1..Len(x.messages)
        PROVE /\ IsList(new[m]) /\ Len(new[m]) = Len(x.messages[m].blocks)
              /\ \A k \in 1..Len(x.messages[m].blocks) :
                   new[m][k] = ReduceBlock(defs, config, uses, x.messages[m].blocks[k])
    <3> DEFINE bs == x.messages[m].blocks
               nb == new[m]
    <3>1. m \in DOMAIN x.messages /\ DOMAIN bs = 1..Len(bs) /\ Len(bs) \in Nat BY BlockAt
    <3>2. nb = [k \in DOMAIN bs |-> ReduceBlock(defs, config, uses, bs[k])] BY <3>1
    <3> HIDE DEF bs, nb, new, config, uses
    <3>3. /\ IsList(nb) /\ Len(nb) = Len(bs)
          /\ \A k \in 1..Len(bs) : nb[k] = ReduceBlock(defs, config, uses, bs[k])
      BY <3>1, <3>2 DEF IsList
    <3> QED BY <3>3 DEF bs, nb
  <2> HIDE DEF new
  <2>2. ASSUME NEW m \in 1..Len(x.messages), NEW k \in 1..Len(x.messages[m].blocks)
        PROVE LET b == x.messages[m].blocks[k]
                  c == new[m][k]
              IN /\ IsBlock(c) /\ Expanded(c) = Expanded(b) /\ OfBody(b, x)
                 /\ c.marker # <<>> => /\ Reducible(defs, config, uses, b)
                                       /\ c.marker[1].hash = Hash(ExtractText(b))
    <3> DEFINE b == x.messages[m].blocks[k]
    <3>1. OfBody(b, x) BY DEF OfBody
    <3>2. IsBlock(b) /\ b.marker = <<>> BY <3>1, BlockAt DEF Unnamed
    <3>3. new[m][k] = ReduceBlock(defs, config, uses, b) BY <2>1
    <3> HIDE DEF b, config, uses
    <3> QED BY <3>1, <3>2, <3>3, ReducedBlock DEF b
  <2> HIDE DEF config, uses
  <2>3. OneByOne(x, new) BY <2>1, <2>2 DEF OneByOne
  <2> DEFINE y == WithBlocks(x, new)
  <2>4. /\ IsBody(y) /\ Alike(y, x)
        /\ \A b : OfBody(b, y) =>
             \E m \in 1..Len(x.messages) : \E k \in 1..Len(x.messages[m].blocks) : b = new[m][k]
    BY <2>3, RenewedAlike
  <2> HIDE DEF y
  <2>5. content \in Seq(AllBlocks(x)) /\ Range(content) = AllBlocks(x) BY ContentOf
  <2> HIDE DEF content
  <2>6. Range(found) = Range(content) \cap may BY <2>5, RangeOfThose
  <2>7. ASSUME NEW b, OfBody(b, x), Reducible(defs, config, uses, b)
        PROVE Hash(ExtractText(b)) \in Range(hashes)
    <3>1. b \in Range(found) BY <2>5, <2>6, <2>7, OneOfBlocks
    <3> HIDE DEF found
    <3>2. PICK i \in DOMAIN found : b = found[i] BY <3>1 DEF Range
    <3>3. i \in DOMAIN hashes /\ hashes[i] = Hash(ExtractText(b)) BY <3>2
    <3> QED BY <3>3, Zenon DEF Range
  <2> HIDE DEF may, found, hashes
  <2>8. NamesIn(y, Range(hashes))
    <3> SUFFICES ASSUME NEW c, OfBody(c, y), c.marker # <<>> PROVE c.marker[1].hash \in Range(hashes)
      BY DEF NamesIn
    <3>1. PICK m \in 1..Len(x.messages) : \E k \in 1..Len(x.messages[m].blocks) : c = new[m][k] BY <2>4
    <3>2. PICK k \in 1..Len(x.messages[m].blocks) : c = new[m][k] BY <3>1
    <3> QED BY <2>2, <2>7, <3>2
  <2> QED BY <1>5, <1>7, <2>4, <2>8 DEF r, y
<1> QED BY <1>1, <1>6, <1>7

LEMMA SystemStripsAt ==
  ASSUME NEW x, IsBody(x)
  PROVE /\ Len(SystemStrips(x)) = Len(x.system.blocks)
        /\ \A k \in 1..Len(x.system.blocks) : SystemStrips(x)[k] = StripCacheControl(x.system.blocks[k])
<1>1. Len(x.system.blocks) \in Nat BY DEF IsBody, IsList
<1> QED BY <1>1 DEF SystemStrips

\* e is x without its marks.
NormalOf(e, x) ==
  /\ e.json = x.json /\ e.model = x.model /\ e.system.form = x.system.form
  /\ Len(e.system.blocks) = Len(x.system.blocks)
  /\ \A k \in 1..Len(x.system.blocks) : e.system.blocks[k] = StripCacheControl(x.system.blocks[k])
  /\ Len(e.messages) = Len(x.messages)
  /\ \A m \in 1..Len(x.messages) :
       /\ e.messages[m].role = x.messages[m].role /\ e.messages[m].form = x.messages[m].form
       /\ Len(e.messages[m].blocks) = Len(x.messages[m].blocks)
       /\ \A k \in 1..Len(x.messages[m].blocks) :
            e.messages[m].blocks[k] = StripCacheControl(x.messages[m].blocks[k])

LEMMA NormalizedOf ==
  ASSUME NEW x, IsBody(x)
  PROVE NormalOf(Normalize(x), x)
<1> DEFINE e == Normalize(x)
<1>0. e = Normalize(x) OBVIOUS
<1> HIDE DEF e
<1> DEFINE z == WithBlocks(x, Strips(x))
           sys == [form |-> x.system.form, blocks |-> SystemStrips(x)]
<1>1. e = [json |-> x.json, model |-> x.model, stream |-> FALSE, system |-> sys, messages |-> z.messages]
  BY <1>0, UnmarkedShape DEF Normalize, Unmarked
<1>2. sys.form = x.system.form /\ sys.blocks = SystemStrips(x) OBVIOUS
<1>3. /\ Len(z.messages) = Len(x.messages)
      /\ \A m \in 1..Len(x.messages) :
           /\ z.messages[m].role = x.messages[m].role /\ z.messages[m].form = x.messages[m].form
           /\ z.messages[m].blocks = Strips(x)[m]
  BY RenewedAt
<1>4. \A m \in 1..Len(x.messages) :
        /\ Len(Strips(x)[m]) = Len(x.messages[m].blocks)
        /\ \A k \in 1..Len(x.messages[m].blocks) : Strips(x)[m][k] = StripCacheControl(x.messages[m].blocks[k])
  BY StripsAt
<1> HIDE DEF z, sys
<1>5. e.json = x.json /\ e.model = x.model /\ e.system = sys /\ e.messages = z.messages BY <1>1
<1>6. /\ Len(e.system.blocks) = Len(x.system.blocks)
      /\ \A k \in 1..Len(x.system.blocks) : e.system.blocks[k] = StripCacheControl(x.system.blocks[k])
  BY <1>2, <1>5, SystemStripsAt
<1> QED BY <1>2, <1>3, <1>4, <1>5, <1>6 DEF NormalOf, e

\* Requests with one fingerprint are read the same.
LEMMA FingerprintTells ==
  ASSUME NEW a, NEW b, IsBody(a), IsBody(b), Fingerprint(a) = Fingerprint(b)
  PROVE Alike(a, b)
<1>1. CASE ~a.json /\ ~b.json BY <1>1, AlikeSelf DEF Fingerprint
<1>2. CASE a.json /\ ~b.json
  <2>1. Normalize(a) = b BY <1>2 DEF Fingerprint
  <2>2. Normalize(a).json = a.json BY NormalizedOf DEF NormalOf
  <2> QED BY <1>2, <2>1, <2>2
<1>3. CASE ~a.json /\ b.json
  <2>1. Normalize(b) = a BY <1>3 DEF Fingerprint
  <2>2. Normalize(b).json = b.json BY NormalizedOf DEF NormalOf
  <2> QED BY <1>3, <2>1, <2>2
<1>4. CASE a.json /\ b.json
  <2> DEFINE e == Normalize(a)
  <2>1. e = Normalize(b) BY <1>4 DEF Fingerprint
  <2>2. NormalOf(e, a) BY NormalizedOf
  <2> HIDE DEF e
  <2>3. NormalOf(e, b) BY <2>1, NormalizedOf
  <2>4. ASSUME NEW m \in 1..Len(a.messages) PROVE AlikeMessages(a.messages[m], b.messages[m])
    <3>1. m \in 1..Len(b.messages) BY <2>2, <2>3 DEF NormalOf
    <3> DEFINE g == a.messages[m]
               h == b.messages[m]
               f == e.messages[m]
    <3>2. /\ f.role = g.role /\ f.form = g.form /\ Len(f.blocks) = Len(g.blocks)
          /\ \A k \in 1..Len(g.blocks) : f.blocks[k] = StripCacheControl(g.blocks[k])
      BY <2>2 DEF NormalOf
    <3>3. /\ f.role = h.role /\ f.form = h.form /\ Len(f.blocks) = Len(h.blocks)
          /\ \A k \in 1..Len(h.blocks) : f.blocks[k] = StripCacheControl(h.blocks[k])
      BY <2>3, <3>1 DEF NormalOf
    <3>4. /\ \A k \in 1..Len(g.blocks) : IsBlock(g.blocks[k])
          /\ \A k \in 1..Len(h.blocks) : IsBlock(h.blocks[k])
      BY <3>1, BlockAt
    <3> HIDE DEF f, g, h
    <3>5. ASSUME NEW k \in 1..Len(g.blocks) PROVE Expanded(g.blocks[k]) = Expanded(h.blocks[k])
      <4>1. k \in 1..Len(h.blocks) BY <3>2, <3>3
      <4>2. StripCacheControl(g.blocks[k]) = StripCacheControl(h.blocks[k]) BY <3>2, <3>3, <4>1
      <4>3. IsBlock(g.blocks[k]) /\ IsBlock(h.blocks[k]) BY <3>4, <4>1
      <4> QED BY <4>2, <4>3, ExpandedOfStripped
    <3> QED BY <3>2, <3>3, <3>5 DEF AlikeMessages, g, h
  <2>5. MessagesAlike(a, b) BY <2>2, <2>3, <2>4 DEF MessagesAlike, NormalOf
  <2> QED BY <2>2, <2>3, <2>5 DEF Alike, NormalOf
<1> QED BY <1>1, <1>2, <1>3, <1>4 DEF IsBody

LEMMA ClientBody == ASSUME NEW x \in RequestBodies PROVE IsBody(x) /\ Unnamed(x)
<1>1. IsBody(x) BY BodyOfClient
<1>2. x.messages \in Seq(Messages) BY DEF RequestBodies
<1>3. \A m \in 1..Len(x.messages) : x.messages[m] \in Messages BY <1>2, ListOf
<1>4. ASSUME NEW b, OfBody(b, x) PROVE b.marker = <<>>
  <2>1. PICK m \in 1..Len(x.messages) : \E k \in 1..Len(x.messages[m].blocks) : b = x.messages[m].blocks[k]
    BY <1>4 DEF OfBody
  <2>2. PICK k \in 1..Len(x.messages[m].blocks) : b = x.messages[m].blocks[k] BY <2>1
  <2>3. x.messages[m].blocks \in Seq(Blocks) BY <1>3 DEF Messages
  <2>4. b \in Blocks BY <2>2, <2>3, ListOf
  <2> QED BY <2>4, BlockOfClient
<1> QED BY <1>1, <1>4 DEF Unnamed

TurnPlaces == {"reduce", "instruct", "mark", "register", "send"}

IsTurn(q) ==
  q = [client |-> q.client, bypass |-> q.bypass, key |-> q.key, body |-> q.body, hashes |-> q.hashes,
       plan |-> q.plan, pc |-> q.pc]

\* What holds of a turn everywhere on its way, in the scene s and with these blobs stored.
OnItsWay(q, s, blobs) ==
  /\ q.client \in RequestBodies /\ q.key = FlightKey(s.resolved, q.client, q.bypass)
  /\ IsBody(q.body) /\ NamesIn(q.body, Range(q.hashes)) /\ Range(q.hashes) \subseteq blobs

InstructionFor(q, s) == IF q.bypass \cap {"all", "efficiency"} # {} THEN None ELSE Instruction(s.resolved)

\* The body reads as the one that came, once it is past the efficiency step with the instruction.
ReadsAsBefore(q) == Alike(q.body, q.client)
ReadsAsInstructed(q, s) == Alike(q.body, InjectEfficiency(q.client, InstructionFor(q, s)))

Entered(q, s, hashes) == "db" \notin s.faults => Range(q.hashes) \subseteq hashes

Departed(q, s, blobs, hashes) ==
  q.pc = "send" /\ OnItsWay(q, s, blobs) /\ ReadsAsInstructed(q, s) /\ Entered(q, s, hashes)

PathInv ==
  /\ scene = None => rq = None /\ sent = <<>>
  /\ scene # None => scene \in PathScenes
  /\ IsList(sent)
  /\ \A i \in 1..Len(sent) : sent[i].pc = "400" \/ Departed(sent[i], scene, cas, registered)
  /\ rq # None =>
       /\ IsTurn(rq) /\ rq.pc \in TurnPlaces /\ OnItsWay(rq, scene, cas)
       /\ rq.pc \in {"reduce", "instruct"} => ReadsAsBefore(rq)
       /\ rq.pc \in {"mark", "register", "send"} => ReadsAsInstructed(rq, scene)
       /\ rq.pc = "send" => Entered(rq, scene, registered)

LEMMA InitPath == RequestInit => PathInv
<1>1. Len(<<>>) = 0 /\ IsList(<<>>) BY DEF IsList
<1>2. PathIdle => PathInv BY <1>1 DEF PathIdle, PathInv
<1>3. PathInit => PathInv BY <1>1 DEF PathInit, PathInv
<1> QED BY <1>2, <1>3 DEF RequestInit

LEMMA DepartedStays ==
  ASSUME NEW q, NEW s, NEW blobs, NEW blobs1, NEW hashes, NEW hashes1, Departed(q, s, blobs, hashes),
         blobs \subseteq blobs1, hashes \subseteq hashes1
  PROVE Departed(q, s, blobs1, hashes1)
BY DEF Departed, OnItsWay, Entered

LEMMA InstructionForIsBlock ==
  ASSUME NEW q, NEW s, InstructionFor(q, s) # None
  PROVE IsBlock(InstructionFor(q, s)) /\ InstructionFor(q, s).marker = <<>>
BY InstructionIsBlock DEF InstructionFor

\* With the same hashes named, other fields of a turn.
LEMMA InstructedTurn ==
  ASSUME NEW x, IsBody(x), NEW ins, ins # None => IsBlock(ins), NEW hashes, NamesIn(x, hashes)
  PROVE IsBody(InjectEfficiency(x, ins)) /\ NamesIn(InjectEfficiency(x, ins), hashes)
<1>1. IsBody(InjectEfficiency(x, ins)) /\ InjectEfficiency(x, ins).messages = x.messages BY Instructed
<1> QED BY <1>1 DEF NamesIn, OfBody

-----------------------------------------------------------------------------
LEMMA ReceiveStep == ASSUME PathInv, Receive PROVE PathInv'
<1>1. /\ scene # None /\ rq = None /\ scene' = scene /\ cas' = cas /\ registered' = registered
      /\ scene \in PathScenes /\ Len(sent) < Len(scene.turns)
  BY DEF Receive, PathInv
<1>2. Len(sent) \in Nat /\ IsList(sent) BY DEF PathInv, IsList
<1> DEFINE body == scene.turns[Len(sent) + 1]
<1>3. body \in RequestBodies
  <2>1. scene.turns \in Seq(RequestBodies) BY <1>1, TurnAssumption DEF TurnAssumption
  <2> QED BY <1>1, <1>2, <2>1
<1>4. PICK bypass \in scene.bypasses :
        LET models == scene.resolved.models
            new == [client |-> body, bypass |-> bypass,
                    key |-> FlightKey(scene.resolved, body, bypass),
                    body |-> body, hashes |-> <<>>, plan |-> NoBreakpoints, pc |-> "reduce"]
        IN IF models # {} /\ ExtractModel(body) \notin models
           THEN /\ sent' = Append(sent, [new EXCEPT !.key = None, !.pc = "400"])
                /\ UNCHANGED rq
           ELSE /\ rq' = new
                /\ UNCHANGED sent
  BY DEF Receive
<1> DEFINE new == [client |-> body, bypass |-> bypass,
                   key |-> FlightKey(scene.resolved, body, bypass),
                   body |-> body, hashes |-> <<>>, plan |-> NoBreakpoints, pc |-> "reduce"]
           refused == [new EXCEPT !.key = None, !.pc = "400"]
<1>5. refused.pc = "400" OBVIOUS
<1>6. /\ IsTurn(new) /\ new.client = body /\ new.body = body /\ new.hashes = <<>> /\ new.pc = "reduce"
      /\ new.key = FlightKey(scene.resolved, new.client, new.bypass)
  BY DEF IsTurn
<1>7. (sent' = Append(sent, refused) /\ rq' = rq) \/ (rq' = new /\ sent' = sent) BY <1>4
<1> HIDE DEF body, new, refused
<1>8. CASE sent' = Append(sent, refused) /\ rq' = rq
  <2>1. /\ IsList(sent') /\ Len(sent') = Len(sent) + 1
        /\ \A i \in 1..Len(sent) : sent'[i] = sent[i]
        /\ sent'[Len(sent) + 1] = refused
    BY <1>2, <1>8, ListAppend
  <2>2. \A i \in 1..Len(sent') : i \in 1..Len(sent) \/ i = Len(sent) + 1 BY <1>2, <2>1
  <2>3. \A i \in 1..Len(sent') : sent'[i].pc = "400" \/ Departed(sent'[i], scene, cas, registered)
    BY <1>5, <2>1, <2>2 DEF PathInv
  <2> QED BY <1>1, <1>8, <2>1, <2>3 DEF PathInv
<1>9. CASE rq' = new /\ sent' = sent
  <2>1. Range(<<>>) = {} BY DEF Range
  <2>2. NamesIn(body, {}) /\ IsBody(body) BY <1>3, ClientBody DEF NamesIn, Unnamed
  <2>3. OnItsWay(new, scene, cas) BY <1>3, <1>6, <2>1, <2>2 DEF OnItsWay
  <2>4. ReadsAsBefore(new) BY <1>6, AlikeSelf DEF ReadsAsBefore
  <2> QED BY <1>1, <1>6, <1>9, <2>3, <2>4 DEF PathInv, TurnPlaces
<1> QED BY <1>7, <1>8, <1>9

LEMMA ReduceStep == ASSUME PathInv, Reduce PROVE PathInv'
<1>1. /\ rq # None /\ rq.pc = "reduce" /\ scene' = scene /\ registered' = registered /\ sent' = sent
  BY DEF Reduce
<1>2. PICK failing :
        LET r == ReduceBody(Defs, scene.resolved, rq.client, Bypassed("reduce"), failing)
        IN /\ rq' = [rq EXCEPT !.body = r.body, !.hashes = r.hashes, !.pc = "instruct"]
           /\ cas' = cas \cup Range(r.stored)
  BY DEF Reduce
<1> DEFINE r == ReduceBody(Defs, scene.resolved, rq.client, Bypassed("reduce"), failing)
<1>3. rq' = [rq EXCEPT !.body = r.body, !.hashes = r.hashes, !.pc = "instruct"] /\ cas' = cas \cup Range(r.stored)
  BY <1>2
<1>4. rq.client \in RequestBodies BY <1>1 DEF PathInv, OnItsWay
<1>5. /\ IsBody(r.body) /\ Alike(r.body, rq.client) /\ NamesIn(r.body, Range(r.hashes))
      /\ Range(r.hashes) \subseteq Range(r.stored)
  BY <1>4, ClientBody, ReducedBody
<1> HIDE DEF r
<1>6. rq' = [client |-> rq.client, bypass |-> rq.bypass, key |-> rq.key, body |-> r.body,
             hashes |-> r.hashes, plan |-> rq.plan, pc |-> "instruct"]
  BY <1>1, <1>3 DEF PathInv, IsTurn
<1>7. /\ rq'.client = rq.client /\ rq'.bypass = rq.bypass /\ rq'.key = rq.key /\ rq'.body = r.body
      /\ rq'.hashes = r.hashes /\ rq'.plan = rq.plan /\ rq'.pc = "instruct" /\ IsTurn(rq')
  BY <1>6 DEF IsTurn
<1>8. OnItsWay(rq', scene, cas') BY <1>1, <1>3, <1>5, <1>7 DEF PathInv, OnItsWay
<1>9. ReadsAsBefore(rq') BY <1>5, <1>7 DEF ReadsAsBefore
<1>10. \A i \in 1..Len(sent') : sent'[i].pc = "400" \/ Departed(sent'[i], scene, cas', registered)
  BY <1>1, <1>3, DepartedStays DEF PathInv
<1>11. "instruct" \in TurnPlaces BY DEF TurnPlaces
<1> QED BY <1>1, <1>7, <1>8, <1>9, <1>10, <1>11 DEF PathInv

LEMMA InstructStep == ASSUME PathInv, Instruct PROVE PathInv'
<1>1. /\ rq # None /\ rq.pc = "instruct" /\ scene' = scene /\ cas' = cas /\ registered' = registered
      /\ sent' = sent
  BY DEF Instruct
<1> DEFINE ins == InstructionFor(rq, scene)
           new == InjectEfficiency(rq.body, ins)
<1>2. rq' = [rq EXCEPT !.body = new, !.pc = "mark"] BY DEF Instruct, InstructionFor, Bypassed
<1>3. ins # None => IsBlock(ins) BY InstructionForIsBlock
<1>4. /\ OnItsWay(rq, scene, cas) /\ ReadsAsBefore(rq) BY <1>1 DEF PathInv
<1> HIDE DEF ins, new
<1>5. rq' = [client |-> rq.client, bypass |-> rq.bypass, key |-> rq.key, body |-> new,
             hashes |-> rq.hashes, plan |-> rq.plan, pc |-> "mark"]
  BY <1>1, <1>2 DEF PathInv, IsTurn
<1>6. /\ rq'.client = rq.client /\ rq'.bypass = rq.bypass /\ rq'.key = rq.key /\ rq'.body = new
      /\ rq'.hashes = rq.hashes /\ rq'.plan = rq.plan /\ rq'.pc = "mark" /\ IsTurn(rq')
  BY <1>5 DEF IsTurn
<1>7. IsBody(new) /\ NamesIn(new, Range(rq.hashes)) BY <1>3, <1>4, InstructedTurn DEF OnItsWay, new
<1>8. OnItsWay(rq', scene, cas) BY <1>4, <1>6, <1>7 DEF OnItsWay
<1>9. InstructionFor(rq', scene) = ins BY <1>6 DEF InstructionFor, ins
<1>10. Alike(new, InjectEfficiency(rq.client, ins))
  BY <1>3, <1>4, ClientBody, InstructedSame DEF OnItsWay, ReadsAsBefore, new
<1>11. ReadsAsInstructed(rq', scene) BY <1>6, <1>9, <1>10 DEF ReadsAsInstructed
<1> QED BY <1>1, <1>6, <1>8, <1>11 DEF PathInv, TurnPlaces

LEMMA MarkStep == ASSUME PathInv, Mark PROVE PathInv'
<1>1. /\ rq # None /\ rq.pc = "mark" /\ scene' = scene /\ cas' = cas /\ registered' = registered
      /\ sent' = sent
  BY DEF Mark
<1>2. PICK plan :
        \/ rq' = [rq EXCEPT !.body = InjectCacheControl(@, plan), !.plan = plan, !.pc = "register"]
        \/ rq' = [rq EXCEPT !.pc = "register"]
  BY DEF Mark
<1>3. /\ OnItsWay(rq, scene, cas) /\ ReadsAsInstructed(rq, scene) /\ IsTurn(rq) BY <1>1 DEF PathInv
<1> DEFINE marked == InjectCacheControl(rq.body, plan)
<1>4. /\ IsBody(marked) /\ Alike(marked, rq.body) /\ NamesIn(marked, Range(rq.hashes))
  BY <1>3, MarkedBody DEF OnItsWay
<1> HIDE DEF marked
<1>5. \E body, plan1 :
        /\ rq' = [client |-> rq.client, bypass |-> rq.bypass, key |-> rq.key, body |-> body,
                  hashes |-> rq.hashes, plan |-> plan1, pc |-> "register"]
        /\ IsBody(body) /\ Alike(body, rq.body) /\ NamesIn(body, Range(rq.hashes))
  <2>1. CASE rq' = [rq EXCEPT !.body = InjectCacheControl(@, plan), !.plan = plan, !.pc = "register"]
    <3>1. rq' = [rq EXCEPT !.body = marked, !.plan = plan, !.pc = "register"] BY <2>1 DEF marked
    <3>2. rq' = [client |-> rq.client, bypass |-> rq.bypass, key |-> rq.key, body |-> marked,
                  hashes |-> rq.hashes, plan |-> plan, pc |-> "register"]
      BY <1>3, <3>1 DEF IsTurn
    <3> QED BY <1>4, <3>2
  <2>2. CASE rq' = [rq EXCEPT !.pc = "register"]
    <3>1. rq' = [client |-> rq.client, bypass |-> rq.bypass, key |-> rq.key, body |-> rq.body,
                  hashes |-> rq.hashes, plan |-> rq.plan, pc |-> "register"]
      BY <1>3, <2>2 DEF IsTurn
    <3> QED BY <1>3, <3>1, AlikeSelf DEF OnItsWay
  <2> QED BY <1>2, <2>1, <2>2
<1>6. PICK body, plan1 :
        /\ rq' = [client |-> rq.client, bypass |-> rq.bypass, key |-> rq.key, body |-> body,
                  hashes |-> rq.hashes, plan |-> plan1, pc |-> "register"]
        /\ IsBody(body) /\ Alike(body, rq.body) /\ NamesIn(body, Range(rq.hashes))
  BY <1>5
<1>7. /\ rq'.client = rq.client /\ rq'.bypass = rq.bypass /\ rq'.key = rq.key /\ rq'.body = body
      /\ rq'.hashes = rq.hashes /\ rq'.pc = "register" /\ IsTurn(rq')
  BY <1>6 DEF IsTurn
<1>8. OnItsWay(rq', scene, cas) BY <1>3, <1>6, <1>7 DEF OnItsWay
<1>9. InstructionFor(rq', scene) = InstructionFor(rq, scene) BY <1>7 DEF InstructionFor
<1>10. ReadsAsInstructed(rq', scene) BY <1>3, <1>6, <1>7, <1>9, AlikeTrans DEF ReadsAsInstructed
<1> QED BY <1>1, <1>7, <1>8, <1>10 DEF PathInv, TurnPlaces

LEMMA RegisterStep == ASSUME PathInv, Register PROVE PathInv'
<1>1. /\ rq # None /\ rq.pc = "register" /\ scene' = scene /\ cas' = cas /\ sent' = sent
      /\ rq' = [rq EXCEPT !.pc = "send"]
  BY DEF Register
<1>2. PICK noted :
        /\ "db" \notin scene.faults => noted = Range(rq.hashes)
        /\ registered' = registered \cup noted
  BY DEF Register
<1>3. /\ OnItsWay(rq, scene, cas) /\ ReadsAsInstructed(rq, scene) /\ IsTurn(rq) BY <1>1 DEF PathInv
<1>4. rq' = [client |-> rq.client, bypass |-> rq.bypass, key |-> rq.key, body |-> rq.body,
             hashes |-> rq.hashes, plan |-> rq.plan, pc |-> "send"]
  BY <1>1, <1>3 DEF IsTurn
<1>5. /\ rq'.client = rq.client /\ rq'.bypass = rq.bypass /\ rq'.key = rq.key /\ rq'.body = rq.body
      /\ rq'.hashes = rq.hashes /\ rq'.pc = "send" /\ IsTurn(rq')
  BY <1>4 DEF IsTurn
<1>6. OnItsWay(rq', scene, cas) BY <1>3, <1>5 DEF OnItsWay
<1>7. ReadsAsInstructed(rq', scene) BY <1>3, <1>5 DEF ReadsAsInstructed, InstructionFor
<1>8. Entered(rq', scene, registered') BY <1>2, <1>5 DEF Entered
<1>9. \A i \in 1..Len(sent') : sent'[i].pc = "400" \/ Departed(sent'[i], scene, cas, registered')
  BY <1>1, <1>2, DepartedStays DEF PathInv
<1> QED BY <1>1, <1>5, <1>6, <1>7, <1>8, <1>9 DEF PathInv, TurnPlaces

LEMMA SendStep == ASSUME PathInv, Send PROVE PathInv'
<1>1. /\ rq # None /\ rq.pc = "send" /\ scene' = scene /\ cas' = cas /\ registered' = registered
      /\ sent' = Append(sent, rq) /\ rq' = None
  BY DEF Send
<1>2. IsList(sent) /\ Len(sent) \in Nat BY DEF PathInv, IsList
<1>3. /\ IsList(sent') /\ Len(sent') = Len(sent) + 1
      /\ \A i \in 1..Len(sent) : sent'[i] = sent[i]
      /\ sent'[Len(sent) + 1] = rq
  BY <1>1, <1>2, ListAppend
<1>4. \A i \in 1..Len(sent') : i \in 1..Len(sent) \/ i = Len(sent) + 1 BY <1>2, <1>3
<1>5. Departed(rq, scene, cas, registered) BY <1>1 DEF PathInv, Departed
<1>6. \A i \in 1..Len(sent') : sent'[i].pc = "400" \/ Departed(sent'[i], scene, cas, registered)
  BY <1>3, <1>4, <1>5 DEF PathInv
<1>7. scene # None BY <1>1 DEF PathInv
<1> QED BY <1>1, <1>3, <1>6, <1>7 DEF PathInv

LEMMA NextPath == PathInv /\ [RequestNext]_<<request, kept>> => PathInv'
<1> SUFFICES ASSUME PathInv, [RequestNext]_<<request, kept>> PROVE PathInv'
  OBVIOUS
<1>1. CASE Receive \/ Reduce \/ Instruct \/ Mark \/ Register \/ Send
  BY <1>1, ReceiveStep, ReduceStep, InstructStep, MarkStep, RegisterStep, SendStep
<1>2. CASE UNCHANGED pathVars BY <1>2 DEF PathInv, pathVars
<1>3. CASE RequestNext
  BY <1>1, <1>2, <1>3 DEF RequestNext, SaveCheckpoint, request
<1> QED BY <1>2, <1>3 DEF request

-----------------------------------------------------------------------------
LEMMA DepartedTurn ==
  ASSUME PathInv, NEW i \in Forwarded
  PROVE Departed(sent[i], scene, cas, registered)
<1>1. i \in 1..Len(sent) /\ sent[i].pc = "send" BY ListDomain DEF Forwarded, PathInv
<1> QED BY <1>1 DEF PathInv

\* Nothing is lost: read with its blobs, a request leaves as it came, and the blobs are kept.
LEMMA Restored == PathInv => MarkersRestore
<1> SUFFICES ASSUME PathInv, NEW i \in Forwarded
             PROVE LET now == sent[i].body
                       named == {b.marker[1].hash : b \in {c \in Range(Content(now)) : c.marker # <<>>}}
                   IN /\ ExpandedBody(now).messages = ExpandedBody(sent[i].client).messages
                      /\ named \subseteq cas
                      /\ "db" \notin scene.faults => named \subseteq registered
  BY DEF MarkersRestore
<1> DEFINE q == sent[i]
           now == q.body
           named == {b.marker[1].hash : b \in {c \in Range(Content(now)) : c.marker # <<>>}}
           ins == InstructionFor(q, scene)
<1>1. OnItsWay(q, scene, cas) /\ ReadsAsInstructed(q, scene) /\ Entered(q, scene, registered)
  BY DepartedTurn DEF Departed
<1>2. IsBody(now) /\ IsBody(q.client) BY <1>1, ClientBody DEF OnItsWay
<1>3. MessagesAlike(now, q.client)
  <2>1. ins # None => IsBlock(ins) BY InstructionForIsBlock
  <2>2. InjectEfficiency(q.client, ins).messages = q.client.messages BY <1>2, <2>1, Instructed
  <2> QED BY <1>1, <2>2 DEF ReadsAsInstructed, Alike, MessagesAlike
<1>4. ExpandedBody(now).messages = ExpandedBody(q.client).messages BY <1>2, <1>3, SameMessages
<1>5. named \subseteq Range(q.hashes)
  <2> SUFFICES ASSUME NEW c \in Range(Content(now)), c.marker # <<>>
               PROVE c.marker[1].hash \in Range(q.hashes)
    OBVIOUS
  <2>1. OfBody(c, now) BY <1>2, ContentOf, OneOfBlocks
  <2> QED BY <1>1, <2>1 DEF OnItsWay, NamesIn
<1> QED BY <1>1, <1>4, <1>5 DEF OnItsWay, Entered

LEMMA FittingAnswers == PathInv => SharedAnswerFits
<1> SUFFICES ASSUME PathInv, NEW i \in Forwarded, NEW j \in Forwarded,
                    sent[i].key = sent[j].key, sent[i].key # None, InstructedAlike(sent[i], sent[j])
             PROVE ExpandedBody(sent[i].body) = ExpandedBody(sent[j].body)
  BY DEF SharedAnswerFits, SharedAnswerFitsIf
<1> DEFINE p == sent[i]
           q == sent[j]
           ins == InstructionFor(p, scene)
<1>1. OnItsWay(p, scene, cas) /\ ReadsAsInstructed(p, scene) BY DepartedTurn DEF Departed
<1>2. OnItsWay(q, scene, cas) /\ ReadsAsInstructed(q, scene) BY DepartedTurn DEF Departed
<1>3. IsBody(p.body) /\ IsBody(p.client) /\ IsBody(q.body) /\ IsBody(q.client)
  BY <1>1, <1>2, ClientBody DEF OnItsWay
<1>4. ASSUME NEW r, r.key = FlightKey(scene.resolved, r.client, r.bypass), r.key # None
      PROVE /\ "all" \notin r.bypass
            /\ r.key = <<scene.resolved.upstream_url, Fingerprint(r.client), TrustDomain(scene.resolved),
                         PolicyHash(scene.resolved)>>
  BY <1>4 DEF FlightKey
<1>5. "all" \notin p.bypass /\ "all" \notin q.bypass /\ Fingerprint(p.client) = Fingerprint(q.client)
  <2>1. /\ p.key = FlightKey(scene.resolved, p.client, p.bypass)
        /\ q.key = FlightKey(scene.resolved, q.client, q.bypass)
        /\ p.key = q.key /\ p.key # None /\ q.key # None
    BY <1>1, <1>2 DEF OnItsWay
  <2> HIDE DEF p, q
  <2>2. /\ "all" \notin p.bypass /\ "all" \notin q.bypass
        /\ p.key = <<scene.resolved.upstream_url, Fingerprint(p.client), TrustDomain(scene.resolved),
                     PolicyHash(scene.resolved)>>
        /\ q.key = <<scene.resolved.upstream_url, Fingerprint(q.client), TrustDomain(scene.resolved),
                     PolicyHash(scene.resolved)>>
    BY <1>4, <2>1
  <2>3. p.key[2] = Fingerprint(p.client) /\ q.key[2] = Fingerprint(q.client) BY <2>2
  <2> QED BY <2>1, <2>2, <2>3
<1>6. InstructionFor(q, scene) = ins BY <1>5 DEF InstructionFor, InstructedAlike
<1>7. Alike(p.client, q.client) BY <1>3, <1>5, FingerprintTells
<1>8. ins # None => IsBlock(ins) BY InstructionForIsBlock
<1>9. Alike(InjectEfficiency(p.client, ins), InjectEfficiency(q.client, ins))
  BY <1>3, <1>7, <1>8, InstructedSame
<1>10. Alike(p.body, InjectEfficiency(p.client, ins)) /\ Alike(q.body, InjectEfficiency(q.client, ins))
  BY <1>1, <1>2, <1>6 DEF ReadsAsInstructed
<1>11. Alike(p.body, q.body) BY <1>9, <1>10, AlikeTrans, AlikeBack
<1> QED BY <1>3, <1>11, AlikeIsSame

\* Nothing that a client sent is lost on the way: read with the blobs its markers name, every request
\* leaves with the messages that came, whatever was reduced in it and whichever blob could not be
\* written, and those blobs are stored and registered (routes.rs:412, transform.rs:129).
THEOREM NothingIsLost == RequestSpec => []MarkersRestore
<1> QED BY InitPath, NextPath, Restored, PTL DEF RequestSpec

\* Requests with one flight key ask the upstream the same if both take the instruction or neither does:
\* a waiter gets an answer to its own question, for any filters, bodies and faults (routes.rs:294).
THEOREM AnswersFit == RequestSpec => []SharedAnswerFits
<1> QED BY InitPath, NextPath, FittingAnswers, PTL DEF RequestSpec

LEMMA GreatestIsIn ==
  ASSUME NEW n \in Nat, NEW S \in SUBSET (1..n), S # {}
  PROVE Max(S) \in S
<1> DEFINE T == {k \in Nat : n - k \in S}
<1>1. T \in SUBSET Nat /\ T # {}
  <2>1. PICK x \in S : TRUE OBVIOUS
  <2>2. n - x \in Nat /\ n - (n - x) = x BY <2>1
  <2> QED BY <2>1, <2>2
<1>2. PICK m \in T : \A k \in T : m <= k
  <2> HIDE DEF T
  <2> QED BY <1>1, Least
<1>3. n - m \in S BY <1>2
<1>4. ASSUME NEW y \in S PROVE n - m >= y
  <2>1. y \in 1..n /\ n - y \in Nat /\ n - (n - y) = y OBVIOUS
  <2>2. n - y \in T BY <2>1
  <2>3. m <= n - y /\ m \in Nat BY <1>2, <2>2
  <2> QED BY <2>1, <2>3
<1>5. \E x \in S : \A y \in S : x >= y BY <1>3, <1>4
<1>6. (CHOOSE x \in S : \A y \in S : x >= y) \in S BY <1>5, Zenon
<1> QED BY <1>6 DEF Max

\* The messages up to a breakpoint come before every tool interaction.
BeforeTools(x, plan) ==
  \A at \in plan.message_blocks :
    /\ at[1] \in 1..Len(x.messages)
    /\ \A k \in 1..at[1] : x.messages[k].form = "blocks" => ~ToolInteraction(x.messages[k])

LEMMA FoundBeforeTools ==
  ASSUME NEW x, IsBody(x), NEW breakpoint
  PROVE BeforeTools(x, FindBreakpoints(x, breakpoint))
<1> DEFINE indexed == {m \in DOMAIN x.messages : x.messages[m].form = "blocks"
                                                 /\ x.messages[m].blocks # <<>>}
           stops == {m \in indexed : ToolInteraction(x.messages[m])}
           before == {m \in indexed : \A s \in stops : m < s}
           last == Max(before)
           plan == FindBreakpoints(x, breakpoint)
<1>1. \/ plan.message_blocks = {}
      \/ before # {} /\ plan.message_blocks = {<<last, Len(x.messages[last].blocks)>>}
  BY DEF FindBreakpoints
<1>2. DOMAIN x.messages = 1..Len(x.messages) /\ Len(x.messages) \in Nat BY ListDomain DEF IsBody
<1>3. before \in SUBSET (1..Len(x.messages)) BY <1>2
<1>4. ASSUME before # {}
      PROVE /\ last \in 1..Len(x.messages)
            /\ \A k \in 1..last : x.messages[k].form = "blocks" => ~ToolInteraction(x.messages[k])
  <2> DEFINE n == Len(x.messages)
  <2>1. last \in before
    <3> HIDE DEF before, n
    <3> QED BY <1>2, <1>3, <1>4, GreatestIsIn DEF n
  <2>2. last \in 1..n /\ \A s \in stops : last < s BY <1>2, <2>1
  <2> HIDE DEF last
  <2>3. ASSUME NEW k \in 1..last, x.messages[k].form = "blocks", ToolInteraction(x.messages[k]) PROVE FALSE
    <3>1. k \in 1..n /\ ~(last < k) BY <1>2, <2>2
    <3>2. DOMAIN x.messages[k].blocks # {} BY <2>3 DEF ToolInteraction, Has
    <3>3. DOMAIN <<>> = {} OBVIOUS
    <3>4. x.messages[k].blocks # <<>> BY <3>2, <3>3, Zenon
    <3>5. k \in stops BY <1>2, <2>3, <3>1, <3>4
    <3> QED BY <2>2, <3>1, <3>5
  <2> QED BY <2>2, <2>3
<1> HIDE DEF before, last, plan
<1>5. ASSUME NEW at \in plan.message_blocks
      PROVE /\ at[1] \in 1..Len(x.messages)
            /\ \A k \in 1..at[1] : x.messages[k].form = "blocks" => ~ToolInteraction(x.messages[k])
  <2>1. before # {} /\ at = <<last, Len(x.messages[last].blocks)>> BY <1>1
  <2>2. at[1] = last BY <2>1
  <2> QED BY <1>4, <2>1, <2>2
<1> QED BY <1>5 DEF BeforeTools, plan

-----------------------------------------------------------------------------
\* Bodies whose messages differ by their marks alone.
SameButMarks(x, y) ==
  /\ Len(x.messages) = Len(y.messages)
  /\ \A m \in 1..Len(x.messages) :
       /\ x.messages[m].role = y.messages[m].role /\ x.messages[m].form = y.messages[m].form
       /\ Len(x.messages[m].blocks) = Len(y.messages[m].blocks)
       /\ \A k \in 1..Len(x.messages[m].blocks) :
            StripCacheControl(x.messages[m].blocks[k]) = StripCacheControl(y.messages[m].blocks[k])

LEMMA SameButMarksTrans ==
  ASSUME NEW x, NEW y, NEW z, SameButMarks(x, y), SameButMarks(y, z)
  PROVE SameButMarks(x, z)
<1>1. Len(x.messages) = Len(z.messages) BY DEF SameButMarks
<1>2. ASSUME NEW m \in 1..Len(x.messages)
      PROVE /\ x.messages[m].role = z.messages[m].role /\ x.messages[m].form = z.messages[m].form
            /\ Len(x.messages[m].blocks) = Len(z.messages[m].blocks)
            /\ \A k \in 1..Len(x.messages[m].blocks) :
                 StripCacheControl(x.messages[m].blocks[k]) = StripCacheControl(z.messages[m].blocks[k])
  <2>1. m \in 1..Len(y.messages) BY DEF SameButMarks
  <2> DEFINE a == x.messages[m]
             b == y.messages[m]
             c == z.messages[m]
  <2>2. /\ a.role = b.role /\ a.form = b.form /\ Len(a.blocks) = Len(b.blocks)
        /\ \A k \in 1..Len(a.blocks) : StripCacheControl(a.blocks[k]) = StripCacheControl(b.blocks[k])
    BY DEF SameButMarks
  <2>3. /\ b.role = c.role /\ b.form = c.form /\ Len(b.blocks) = Len(c.blocks)
        /\ \A k \in 1..Len(b.blocks) : StripCacheControl(b.blocks[k]) = StripCacheControl(c.blocks[k])
    BY <2>1 DEF SameButMarks
  <2> HIDE DEF a, b, c
  <2>4. /\ a.role = c.role /\ a.form = c.form /\ Len(a.blocks) = Len(c.blocks)
        /\ \A k \in 1..Len(a.blocks) : StripCacheControl(a.blocks[k]) = StripCacheControl(c.blocks[k])
    BY <2>2, <2>3
  <2> QED BY <2>4 DEF a, c
<1> QED BY <1>1, <1>2 DEF SameButMarks

LEMMA SameButMarksSelf == ASSUME NEW x, NEW y, x.messages = y.messages PROVE SameButMarks(x, y)
BY DEF SameButMarks

\* What the breakpoints add are marks.
LEMMA MarkedSame ==
  ASSUME NEW x, IsBody(x), NEW plan
  PROVE SameButMarks(InjectCacheControl(x, plan), x)
<1> DEFINE new == [m \in DOMAIN x.messages |->
                     [b \in DOMAIN x.messages[m].blocks |->
                        MarkedIf(<<m, b>> \in plan.message_blocks, x.messages[m].blocks[b])]]
           z == WithBlocks(x, new)
           sys == [b \in DOMAIN z.system.blocks |-> MarkedIf(b = plan.system_block_index, z.system.blocks[b])]
           y == InjectCacheControl(x, plan)
<1>1. y = [z EXCEPT !.system.blocks = sys] BY DEF InjectCacheControl
<1>2. ASSUME NEW m \in 1..Len(x.messages)
      PROVE /\ IsList(new[m]) /\ Len(new[m]) = Len(x.messages[m].blocks)
            /\ \A k \in 1..Len(x.messages[m].blocks) :
                 /\ IsBlock(new[m][k])
                 /\ StripCacheControl(new[m][k]) = StripCacheControl(x.messages[m].blocks[k])
  <2> DEFINE bs == x.messages[m].blocks
             nb == new[m]
  <2>1. m \in DOMAIN x.messages /\ DOMAIN bs = 1..Len(bs) /\ Len(bs) \in Nat /\ \A k \in 1..Len(bs) : IsBlock(bs[k])
    BY BlockAt
  <2>2. nb = [k \in DOMAIN bs |-> MarkedIf(<<m, k>> \in plan.message_blocks, bs[k])] BY <2>1
  <2> HIDE DEF bs, nb, new
  <2>3. /\ IsList(nb) /\ Len(nb) = Len(bs)
        /\ \A k \in 1..Len(bs) : nb[k] = MarkedIf(<<m, k>> \in plan.message_blocks, bs[k])
    BY <2>1, <2>2 DEF IsList
  <2>4. \A k \in 1..Len(bs) : IsBlock(nb[k]) /\ StripCacheControl(nb[k]) = StripCacheControl(bs[k])
    BY <2>1, <2>3, MarkedBlock
  <2> QED BY <2>3, <2>4 DEF bs, nb
<1> HIDE DEF new
<1>3. /\ Len(z.messages) = Len(x.messages)
      /\ \A m \in 1..Len(x.messages) :
           /\ z.messages[m].role = x.messages[m].role /\ z.messages[m].form = x.messages[m].form
           /\ z.messages[m].blocks = new[m]
  BY RenewedAt
<1>4. IsBody(z) BY <1>2, RenewedAt
<1> HIDE DEF z, sys, y
<1>5. y = [json |-> z.json, model |-> z.model, stream |-> z.stream,
           system |-> [form |-> z.system.form, blocks |-> sys], messages |-> z.messages]
  BY <1>1, <1>4, SystemBlocksSet, Zenon
<1>6. y.messages = z.messages BY <1>5
<1>7. SameButMarks(z, x) BY <1>2, <1>3 DEF SameButMarks
<1> QED BY <1>6, <1>7, SameButMarksSelf, SameButMarksTrans DEF y

ReduceConfig(resolved) ==
  IF resolved.reduce = None THEN [enabled |-> TRUE, command_bypass |-> {}] ELSE resolved.reduce

Reduces(resolved, x, bypassed) == ReduceConfig(resolved).enabled /\ ~bypassed /\ x.json

ReducedBlocks(defs, resolved, x) ==
  [m \in DOMAIN x.messages |->
     [b \in DOMAIN x.messages[m].blocks |->
        ReduceBlock(defs, ReduceConfig(resolved), ToolUses(x), x.messages[m].blocks[b])]]

WholeUnless(y, defs, resolved, x, bypassed, failing, n) ==
  y = IF Reduces(resolved, x, bypassed) /\ failing \notin 1..n
      THEN WithBlocks(x, ReducedBlocks(defs, resolved, x)) ELSE x

\* A body is reduced as a whole or not at all; if no blob fails, it is.
LEMMA ReducedOrKept ==
  ASSUME NEW defs, NEW resolved, NEW x, IsBody(x), NEW bypassed, NEW failing
  PROVE \E n \in Nat : WholeUnless(ReduceBody(defs, resolved, x, bypassed, failing).body,
                                   defs, resolved, x, bypassed, failing, n)
<1> DEFINE config == ReduceConfig(resolved)
           uses == ToolUses(x)
           content == Content(x)
           may == {b \in Range(content) : Reducible(defs, config, uses, b)}
           found == Those(content, may)
           hashes == [i \in DOMAIN found |-> Hash(ExtractText(found[i]))]
           new == ReducedBlocks(defs, resolved, x)
           total == Len(Those(content, {b \in Range(content) : b.type = "tool_result"}))
           kept0 == [body |-> x, hashes |-> <<>>, stored |-> <<>>, reductions |-> 0, passthroughs |-> 0]
           part == [kept0 EXCEPT !.stored = SubSeq(hashes, 1, failing - 1)]
           done == [body |-> WithBlocks(x, new), hashes |-> hashes, stored |-> hashes,
                    reductions |-> Len(found), passthroughs |-> total - Len(found)]
           r == ReduceBody(defs, resolved, x, bypassed, failing)
<1>1. r = IF ~Reduces(resolved, x, bypassed) THEN kept0 ELSE IF failing \in DOMAIN hashes THEN part ELSE done
  BY DEF ReduceBody, MapContent, Reduces, ReducedBlocks, ReduceConfig
<1>2. kept0.body = x /\ part.body = x /\ done.body = WithBlocks(x, new) OBVIOUS
<1>3. \E n \in Nat : DOMAIN hashes = 1..n
  <2>1. content \in Seq(AllBlocks(x)) BY ContentOf
  <2> HIDE DEF content
  <2>2. found \in Seq(AllBlocks(x)) BY <2>1, ThoseOf
  <2> HIDE DEF found
  <2>3. DOMAIN hashes = 1..Len(found) BY <2>2
  <2> HIDE DEF hashes
  <2>4. Len(found) \in Nat BY <2>2
  <2> QED BY <2>3, <2>4
<1> HIDE DEF kept0, part, done, hashes, new, r
<1>4. PICK n \in Nat : DOMAIN hashes = 1..n BY <1>3
<1>5. WholeUnless(r.body, defs, resolved, x, bypassed, failing, n) BY <1>1, <1>2, <1>4 DEF WholeUnless, new
<1> QED BY <1>5 DEF r

\* If no blob fails.
LEMMA WholeReduced ==
  ASSUME NEW defs, NEW resolved, NEW x, IsBody(x), NEW bypassed
  PROVE ReduceBody(defs, resolved, x, bypassed, 0).body =
          IF Reduces(resolved, x, bypassed) THEN WithBlocks(x, ReducedBlocks(defs, resolved, x)) ELSE x
<1>1. PICK n \in Nat :
        WholeUnless(ReduceBody(defs, resolved, x, bypassed, 0).body, defs, resolved, x, bypassed, 0, n)
  BY ReducedOrKept, Zenon
<1>2. 0 \notin 1..n OBVIOUS
<1> QED BY <1>1, <1>2 DEF WholeUnless

LEMMA ReducedBlocksAt ==
  ASSUME NEW defs, NEW resolved, NEW x, IsBody(x), Unnamed(x)
  PROVE LET new == ReducedBlocks(defs, resolved, x)
        IN \A m \in 1..Len(x.messages) :
             /\ IsList(new[m]) /\ Len(new[m]) = Len(x.messages[m].blocks)
             /\ \A k \in 1..Len(x.messages[m].blocks) :
                  /\ new[m][k] = ReduceBlock(defs, ReduceConfig(resolved), ToolUses(x), x.messages[m].blocks[k])
                  /\ IsBlock(new[m][k])
<1> DEFINE new == ReducedBlocks(defs, resolved, x)
           config == ReduceConfig(resolved)
           uses == ToolUses(x)
<1> SUFFICES ASSUME NEW m \in 1..Len(x.messages)
             PROVE /\ IsList(new[m]) /\ Len(new[m]) = Len(x.messages[m].blocks)
                   /\ \A k \in 1..Len(x.messages[m].blocks) :
                        /\ new[m][k] = ReduceBlock(defs, config, uses, x.messages[m].blocks[k])
                        /\ IsBlock(new[m][k])
  OBVIOUS
<1> DEFINE bs == x.messages[m].blocks
           nb == new[m]
<1>1. m \in DOMAIN x.messages /\ DOMAIN bs = 1..Len(bs) /\ Len(bs) \in Nat /\ \A k \in 1..Len(bs) : IsBlock(bs[k])
  BY BlockAt
<1>2. nb = [k \in DOMAIN bs |-> ReduceBlock(defs, config, uses, bs[k])] BY <1>1 DEF ReducedBlocks
<1>3. \A k \in 1..Len(bs) : bs[k].marker = <<>> BY DEF Unnamed, OfBody
<1> HIDE DEF bs, nb, new, config, uses
<1>4. /\ IsList(nb) /\ Len(nb) = Len(bs)
      /\ \A k \in 1..Len(bs) : nb[k] = ReduceBlock(defs, config, uses, bs[k])
  BY <1>1, <1>2 DEF IsList
<1>5. \A k \in 1..Len(bs) : IsBlock(nb[k]) BY <1>1, <1>3, <1>4, ReducedBlock
<1> QED BY <1>4, <1>5 DEF bs, nb

\* The blocks that are no tool results stay as they are.
LEMMA OthersStay ==
  ASSUME NEW defs, NEW resolved, NEW x, IsBody(x), Unnamed(x), NEW bypassed, NEW failing
  PROVE LET y == ReduceBody(defs, resolved, x, bypassed, failing).body
        IN /\ IsBody(y)
           /\ Len(y.messages) = Len(x.messages)
           /\ \A m \in 1..Len(x.messages) :
                /\ y.messages[m].role = x.messages[m].role /\ y.messages[m].form = x.messages[m].form
                /\ Len(y.messages[m].blocks) = Len(x.messages[m].blocks)
                /\ \A k \in 1..Len(x.messages[m].blocks) :
                     x.messages[m].blocks[k].type # "tool_result" =>
                       y.messages[m].blocks[k] = x.messages[m].blocks[k]
<1> DEFINE y == ReduceBody(defs, resolved, x, bypassed, failing).body
           new == ReducedBlocks(defs, resolved, x)
<1>1. y = x \/ y = WithBlocks(x, new)
  <2>1. PICK n \in Nat : WholeUnless(y, defs, resolved, x, bypassed, failing, n) BY ReducedOrKept, Zenon
  <2> QED BY <2>1 DEF WholeUnless
<1>2. CASE y = x BY <1>2
<1>3. CASE y = WithBlocks(x, new)
  <2>1. \A m \in 1..Len(x.messages) :
             /\ IsList(new[m]) /\ Len(new[m]) = Len(x.messages[m].blocks)
             /\ \A k \in 1..Len(x.messages[m].blocks) :
                  /\ new[m][k] = ReduceBlock(defs, ReduceConfig(resolved), ToolUses(x), x.messages[m].blocks[k])
                  /\ IsBlock(new[m][k])
    BY ReducedBlocksAt
  <2> HIDE DEF new, y
  <2>2. /\ Len(y.messages) = Len(x.messages)
        /\ \A m \in 1..Len(x.messages) :
             /\ y.messages[m].role = x.messages[m].role /\ y.messages[m].form = x.messages[m].form
             /\ y.messages[m].blocks = new[m]
        /\ (\A m \in 1..Len(x.messages) :
              IsList(new[m]) /\ \A k \in 1..Len(new[m]) : IsBlock(new[m][k])) => IsBody(y)
    BY <1>3, RenewedAt
  <2>3. ASSUME NEW b, b.type # "tool_result"
        PROVE ReduceBlock(defs, ReduceConfig(resolved), ToolUses(x), b) = b
    BY <2>3 DEF ReduceBlock, Reducible
  <2>4. IsBody(y) BY <2>1, <2>2
  <2> QED BY <2>1, <2>2, <2>3, <2>4 DEF y
<1> QED BY <1>1, <1>2, <1>3

-----------------------------------------------------------------------------
LEMMA ExtendsParts ==
  ASSUME NEW y, NEW x, IsBody(y), IsBody(x), Extends(y, x)
  PROVE /\ y.json = x.json /\ y.system = x.system
        /\ Len(x.messages) <= Len(y.messages)
        /\ \A m \in 1..Len(x.messages) : m \in 1..Len(y.messages) /\ y.messages[m] = x.messages[m]
<1> DEFINE a == [y EXCEPT !.messages = <<>>]
           b == [x EXCEPT !.messages = <<>>]
<1>1. a = b BY DEF Extends
<1>2. /\ a = [json |-> y.json, model |-> y.model, stream |-> y.stream, system |-> y.system, messages |-> <<>>]
      /\ b = [json |-> x.json, model |-> x.model, stream |-> x.stream, system |-> x.system, messages |-> <<>>]
  BY MessagesSet, Zenon
<1> HIDE DEF a, b
<1>3. y.json = x.json /\ y.system = x.system
  <2>1. a.json = y.json /\ a.system = y.system BY <1>2
  <2>2. b.json = x.json /\ b.system = x.system BY <1>2
  <2> QED BY <1>1, <2>1, <2>2
<1> DEFINE s == x.messages
           t == y.messages
<1>4. IsList(s) /\ IsList(t) /\ Len(s) <= Len(t) /\ SubSeq(s, 1, Len(s)) = SubSeq(t, 1, Len(s))
  BY DEF Extends, IsBody, IsPrefix
<1> HIDE DEF s, t
<1>5. Len(s) \in Nat /\ Len(t) \in Nat BY <1>4 DEF IsList
<1>6. SubSeq(s, 1, Len(s)) = [k \in 1..Len(s) |-> s[k]] BY <1>4, <1>5 DEF IsList
<1>7. SubSeq(t, 1, Len(s)) = [k \in 1..Len(s) |-> t[k]] BY <1>4, <1>5 DEF IsList
<1>8. \A k \in 1..Len(s) : s[k] = t[k] BY <1>4, <1>6, <1>7
<1> QED BY <1>3, <1>4, <1>5, <1>8 DEF s, t

IsUse(u, x) ==
  \E m \in 1..Len(x.messages) : \E b \in 1..Len(x.messages[m].blocks) :
    /\ x.messages[m].role = "assistant" /\ x.messages[m].blocks[b].type = "tool_use"
    /\ u = [at |-> <<m, b>>, use |-> x.messages[m].blocks[b]]

LEMMA UseOf ==
  ASSUME NEW x, IsBody(x), NEW u
  PROVE u \in ToolUses(x) <=> IsUse(u, x)
<1> DEFINE By(m) == {k \in DOMAIN x.messages[m].blocks : x.messages[m].blocks[k].type = "tool_use"}
           In(m) == {[at |-> <<m, b>>, use |-> x.messages[m].blocks[b]] : b \in By(m)}
           M == {k \in DOMAIN x.messages : x.messages[k].role = "assistant"}
<1>1. ToolUses(x) = UNION {In(m) : m \in M} BY DEF ToolUses
<1>2. \A m : u \in In(m) <=> \E b \in By(m) : u = [at |-> <<m, b>>, use |-> x.messages[m].blocks[b]]
  OBVIOUS
<1>3. DOMAIN x.messages = 1..Len(x.messages) BY ListDomain DEF IsBody
<1>4. \A m \in 1..Len(x.messages) : DOMAIN x.messages[m].blocks = 1..Len(x.messages[m].blocks) BY BlockAt
<1>5. ASSUME NEW m, NEW b
      PROVE m \in M /\ b \in By(m) <=>
              /\ m \in 1..Len(x.messages) /\ b \in 1..Len(x.messages[m].blocks)
              /\ x.messages[m].role = "assistant" /\ x.messages[m].blocks[b].type = "tool_use"
  BY <1>3, <1>4
<1> HIDE DEF In, By, M
<1>6. u \in ToolUses(x) <=> \E m \in M : u \in In(m) BY <1>1
<1> QED BY <1>2, <1>5, <1>6, Zenon DEF IsUse

UsesOf(uses, id) == {u \in uses : u.use.id = id}

LEMMA UsesStay ==
  ASSUME NEW y, NEW x, IsBody(y), IsBody(x), Extends(y, x)
  PROVE ToolUses(x) \subseteq ToolUses(y)
<1> SUFFICES ASSUME NEW u \in ToolUses(x) PROVE u \in ToolUses(y)
  OBVIOUS
<1>0. IsUse(u, x) BY UseOf
<1>1. PICK m \in 1..Len(x.messages) : \E b \in 1..Len(x.messages[m].blocks) :
        /\ x.messages[m].role = "assistant" /\ x.messages[m].blocks[b].type = "tool_use"
        /\ u = [at |-> <<m, b>>, use |-> x.messages[m].blocks[b]]
  BY <1>0, Zenon DEF IsUse
<1>2. m \in 1..Len(y.messages) /\ y.messages[m] = x.messages[m] BY ExtendsParts
<1>3. IsUse(u, y) BY <1>1, <1>2, Zenon DEF IsUse
<1> QED BY <1>3, UseOf

\* No later tool use answers to the identifier of an earlier tool result.
LEMMA SameUses ==
  ASSUME NEW y, NEW x, IsBody(y), IsBody(x), Extends(y, x), UsesAreNew(y, x),
         NEW b, OfBody(b, x), b.type = "tool_result"
  PROVE UsesOf(ToolUses(y), b.id) = UsesOf(ToolUses(x), b.id)
<1>1. b \in Range(Content(x)) BY OneOfBlocks, ContentOf
<1>2. \A u \in ToolUses(y) \ ToolUses(x) : b.id # u.use.id BY <1>1 DEF UsesAreNew
<1>3. ToolUses(x) \subseteq ToolUses(y) BY UsesStay
<1> DEFINE s == ToolUses(x)
           t == ToolUses(y)
<1> HIDE DEF s, t
<1>4. /\ \A u \in t : u \notin s => b.id # u.use.id
      /\ s \subseteq t
  BY <1>2, <1>3 DEF s, t
<1>5. \A u : u \in UsesOf(t, b.id) <=> u \in UsesOf(s, b.id) BY <1>4 DEF UsesOf
<1>6. UsesOf(t, b.id) = UsesOf(s, b.id) BY <1>5
<1> QED BY <1>6 DEF s, t

LEMMA SameCommand ==
  ASSUME NEW s, NEW t, NEW id, UsesOf(s, id) = UsesOf(t, id)
  PROVE LiteralName(s, id) = LiteralName(t, id) /\ FilterCommand(s, id) = FilterCommand(t, id)
<1> DEFINE Mine(uses) == {u \in uses : u.use.id = id}
           Named(uses) == {u \in uses : u.use.id = id /\ ResolveCommand(u.use) # None}
           NameIn(mine) == IF mine = {} THEN "" ELSE LatestUse(mine).name
           CommandIn(mine) == IF mine = {} THEN None ELSE ResolveCommand(LatestUse(mine))
<1>1. Mine(s) = Mine(t) BY Zenon DEF UsesOf
<1>2. \A u : u \in Named(s) <=> u \in Mine(s) /\ ResolveCommand(u.use) # None OBVIOUS
<1>3. \A u : u \in Named(t) <=> u \in Mine(t) /\ ResolveCommand(u.use) # None OBVIOUS
<1>4. Named(s) = Named(t)
  <2> HIDE DEF Mine, Named
  <2> QED BY <1>1, <1>2, <1>3
<1>5. LiteralName(s, id) = NameIn(Mine(s)) /\ LiteralName(t, id) = NameIn(Mine(t))
  BY Zenon DEF LiteralName
<1>6. EffectiveCommand(s, id) = CommandIn(Named(s)) /\ EffectiveCommand(t, id) = CommandIn(Named(t))
  BY Zenon DEF EffectiveCommand
<1> HIDE DEF Mine, Named, NameIn, CommandIn
<1>7. LiteralName(s, id) = LiteralName(t, id) BY <1>1, <1>5
<1>8. EffectiveCommand(s, id) = EffectiveCommand(t, id) BY <1>4, <1>6
<1>9. FilterCommand(s, id) = FilterCommand(t, id) BY <1>7, <1>8, Zenon DEF FilterCommand
<1> QED BY <1>7, <1>9

LEMMA SameReduction ==
  ASSUME NEW defs, NEW config, NEW s, NEW t, NEW b, UsesOf(s, b.id) = UsesOf(t, b.id)
  PROVE ReduceBlock(defs, config, s, b) = ReduceBlock(defs, config, t, b)
<1>1. LiteralName(s, b.id) = LiteralName(t, b.id) /\ FilterCommand(s, b.id) = FilterCommand(t, b.id)
  BY SameCommand
<1>2. Reducible(defs, config, s, b) = Reducible(defs, config, t, b) BY <1>1, Zenon DEF Reducible
<1>3. ReducedText(defs, s, b) = ReducedText(defs, t, b) BY <1>1, Zenon DEF ReducedText
<1> QED BY <1>2, <1>3, Zenon DEF ReduceBlock

-----------------------------------------------------------------------------
\* Two turns of one conversation are reduced alike where they agree.
LEMMA ReducedAlike ==
  ASSUME NEW defs, NEW resolved, NEW bypassed, NEW y, NEW x, IsBody(y), IsBody(x), Unnamed(y), Unnamed(x),
         Extends(y, x), UsesAreNew(y, x)
  PROVE LET v == ReduceBody(defs, resolved, y, bypassed, 0).body
            w == ReduceBody(defs, resolved, x, bypassed, 0).body
        IN \A m \in 1..Len(x.messages) : \A k \in 1..Len(x.messages[m].blocks) :
             v.messages[m].blocks[k] = w.messages[m].blocks[k]
<1> DEFINE v == ReduceBody(defs, resolved, y, bypassed, 0).body
           w == ReduceBody(defs, resolved, x, bypassed, 0).body
<1>1. /\ y.json = x.json
      /\ \A m \in 1..Len(x.messages) : m \in 1..Len(y.messages) /\ y.messages[m] = x.messages[m]
  BY ExtendsParts
<1> SUFFICES ASSUME NEW m \in 1..Len(x.messages), NEW k \in 1..Len(x.messages[m].blocks)
             PROVE v.messages[m].blocks[k] = w.messages[m].blocks[k]
  OBVIOUS
<1>2. m \in 1..Len(y.messages) /\ y.messages[m] = x.messages[m] BY <1>1
<1>3. Reduces(resolved, y, bypassed) <=> Reduces(resolved, x, bypassed) BY <1>1 DEF Reduces
<1>4. CASE ~Reduces(resolved, x, bypassed)
  <2>1. v = y /\ w = x BY <1>3, <1>4, WholeReduced
  <2> QED BY <1>2, <2>1
<1>5. CASE Reduces(resolved, x, bypassed)
  <2> DEFINE newy == ReducedBlocks(defs, resolved, y)
             newx == ReducedBlocks(defs, resolved, x)
             b == x.messages[m].blocks[k]
             config == ReduceConfig(resolved)
  <2>1. v = WithBlocks(y, newy) /\ w = WithBlocks(x, newx) BY <1>3, <1>5, WholeReduced
  <2>0. ASSUME NEW z, IsBody(z), Unnamed(z), NEW h \in 1..Len(z.messages), NEW j \in 1..Len(z.messages[h].blocks)
        PROVE ReducedBlocks(defs, resolved, z)[h][j] = ReduceBlock(defs, config, ToolUses(z), z.messages[h].blocks[j])
    <3> DEFINE new == ReducedBlocks(defs, resolved, z)
    <3>1. \A i \in 1..Len(z.messages) :
             /\ IsList(new[i]) /\ Len(new[i]) = Len(z.messages[i].blocks)
             /\ \A n \in 1..Len(z.messages[i].blocks) :
                  /\ new[i][n] = ReduceBlock(defs, ReduceConfig(resolved), ToolUses(z), z.messages[i].blocks[n])
                  /\ IsBlock(new[i][n])
      BY <2>0, ReducedBlocksAt
    <3> HIDE DEF new
    <3>2. new[h][j] = ReduceBlock(defs, ReduceConfig(resolved), ToolUses(z), z.messages[h].blocks[j]) BY <3>1
    <3> QED BY <3>2 DEF new
  <2>2. newx[m][k] = ReduceBlock(defs, config, ToolUses(x), b) BY <2>0
  <2>3. newy[m][k] = ReduceBlock(defs, config, ToolUses(y), b)
    <3>1. k \in 1..Len(y.messages[m].blocks) /\ y.messages[m].blocks[k] = b BY <1>2
    <3>2. newy[m][k] = ReduceBlock(defs, config, ToolUses(y), y.messages[m].blocks[k])
      BY <1>2, <2>0, <3>1
    <3> HIDE DEF newy, config, b
    <3> QED BY <3>1, <3>2
  <2> HIDE DEF newy, newx, v, w, config
  <2>4. v.messages[m].blocks = newy[m] BY <1>2, <2>1, RenewedAt
  <2>5. w.messages[m].blocks = newx[m] BY <2>1, RenewedAt
  <2>6. OfBody(b, x) BY DEF OfBody
  <2> HIDE DEF b
  <2>7. ReduceBlock(defs, config, ToolUses(x), b) = ReduceBlock(defs, config, ToolUses(y), b)
    <3>1. CASE b.type = "tool_result" BY <2>6, <3>1, SameUses, SameReduction
    <3>2. CASE b.type # "tool_result" BY <3>2 DEF ReduceBlock, Reducible
    <3> QED BY <3>1, <3>2
  <2> QED BY <2>2, <2>3, <2>4, <2>5, <2>7 DEF v, w
<1> QED BY <1>4, <1>5

\* Bodies with messages of the same roles and blocks of the same types.
SameTypes(x, y) ==
  /\ Len(x.messages) = Len(y.messages)
  /\ \A m \in 1..Len(x.messages) :
       /\ x.messages[m].role = y.messages[m].role /\ x.messages[m].form = y.messages[m].form
       /\ Len(x.messages[m].blocks) = Len(y.messages[m].blocks)
       /\ \A k \in 1..Len(x.messages[m].blocks) : x.messages[m].blocks[k].type = y.messages[m].blocks[k].type

LEMMA TypeIsRead ==
  ASSUME NEW b, NEW c, IsBlock(b), IsBlock(c), StripCacheControl(b) = StripCacheControl(c) \/ Expanded(b) = Expanded(c)
  PROVE b.type = c.type
<1>1. ASSUME NEW d, IsBlock(d) PROVE StripCacheControl(d).type = d.type
  <2> DEFINE s == StripCacheControl(d)
  <2>1. s = [type |-> d.type, id |-> d.id, name |-> d.name, command |-> d.command, parts |-> d.parts,
             cache_control |-> FALSE, marker |-> d.marker]
    BY <1>1, StrippedBlock
  <2> HIDE DEF s
  <2>2. s.type = d.type BY <2>1
  <2> QED BY <2>2 DEF s
<1>2. ASSUME NEW d, IsBlock(d) PROVE Expanded(d).type = d.type
  <2> DEFINE s == Expanded(d)
  <2>1. s = [type |-> d.type, id |-> d.id, name |-> d.name, command |-> d.command, parts |-> TextOf(d),
             cache_control |-> FALSE, marker |-> <<>>]
    BY <1>2, ExpandedShape
  <2> HIDE DEF s
  <2>2. s.type = d.type BY <2>1
  <2> QED BY <2>2 DEF s
<1> QED BY <1>1, <1>2

LEMMA SameTypesOf ==
  ASSUME NEW x, NEW y, IsBody(x), IsBody(y), SameButMarks(x, y) \/ MessagesAlike(x, y)
  PROVE SameTypes(x, y)
<1>1. Len(x.messages) = Len(y.messages) BY DEF SameButMarks, MessagesAlike
<1>2. ASSUME NEW m \in 1..Len(x.messages)
      PROVE /\ x.messages[m].role = y.messages[m].role /\ x.messages[m].form = y.messages[m].form
            /\ Len(x.messages[m].blocks) = Len(y.messages[m].blocks)
            /\ \A k \in 1..Len(x.messages[m].blocks) : x.messages[m].blocks[k].type = y.messages[m].blocks[k].type
  <2> DEFINE g == x.messages[m]
             h == y.messages[m]
  <2>1. /\ g.role = h.role /\ g.form = h.form /\ Len(g.blocks) = Len(h.blocks)
        /\ \A k \in 1..Len(g.blocks) : \/ StripCacheControl(g.blocks[k]) = StripCacheControl(h.blocks[k])
                                       \/ Expanded(g.blocks[k]) = Expanded(h.blocks[k])
    BY DEF SameButMarks, MessagesAlike, AlikeMessages
  <2>2. /\ \A k \in 1..Len(g.blocks) : IsBlock(g.blocks[k])
        /\ \A k \in 1..Len(h.blocks) : IsBlock(h.blocks[k])
    BY <1>1, BlockAt
  <2> HIDE DEF g, h
  <2>3. \A k \in 1..Len(g.blocks) : g.blocks[k].type = h.blocks[k].type BY <2>1, <2>2, TypeIsRead
  <2> QED BY <2>1, <2>3 DEF g, h
<1> QED BY <1>1, <1>2 DEF SameTypes

LEMMA BeforeSameTools ==
  ASSUME NEW x, NEW y, IsBody(x), IsBody(y), SameTypes(x, y), NEW plan, BeforeTools(x, plan)
  PROVE BeforeTools(y, plan)
<1> SUFFICES ASSUME NEW at \in plan.message_blocks
             PROVE /\ at[1] \in 1..Len(y.messages)
                   /\ \A k \in 1..at[1] : y.messages[k].form = "blocks" => ~ToolInteraction(y.messages[k])
  BY DEF BeforeTools
<1>1. /\ at[1] \in 1..Len(x.messages) /\ Len(x.messages) = Len(y.messages) /\ Len(x.messages) \in Nat
      /\ \A k \in 1..at[1] : x.messages[k].form = "blocks" => ~ToolInteraction(x.messages[k])
  BY DEF BeforeTools, SameTypes, IsBody, IsList
<1>2. ASSUME NEW k \in 1..at[1], y.messages[k].form = "blocks" PROVE ~ToolInteraction(y.messages[k])
  <2>1. k \in 1..Len(x.messages) BY <1>1
  <2> DEFINE g == x.messages[k]
             h == y.messages[k]
  <2>2. /\ g.role = h.role /\ g.form = h.form /\ Len(g.blocks) = Len(h.blocks)
        /\ \A i \in 1..Len(g.blocks) : g.blocks[i].type = h.blocks[i].type
    BY <2>1 DEF SameTypes
  <2>3. DOMAIN g.blocks = 1..Len(g.blocks) /\ DOMAIN h.blocks = 1..Len(h.blocks) BY <1>1, <2>1, BlockAt
  <2>4. ~ToolInteraction(g) BY <1>1, <1>2, <2>2
  <2> HIDE DEF g, h
  <2>5. \A type : Has(h, type) => Has(g, type) BY <2>2, <2>3 DEF Has
  <2>6. ~ToolInteraction(h) BY <2>2, <2>4, <2>5 DEF ToolInteraction
  <2> QED BY <2>6 DEF h
<1> QED BY <1>1, <1>2

-----------------------------------------------------------------------------
Failing(s) == IF "cas" \in s.faults THEN 0..2 ELSE {0}

ReducedOf(q, s, failing) ==
  ReduceBody(Defs, s.resolved, q.client, q.bypass \cap {"all", "reduce"} # {}, failing).body

\* But for its marks a turn is what the reducer made of it, and its breakpoints come before the tools.
KeptTurn(q, s) ==
  /\ \E failing \in Failing(s) : SameButMarks(q.body, ReducedOf(q, s, failing))
  /\ BeforeTools(q.body, q.plan)

CacheInv ==
  /\ \A i \in 1..Len(sent) : sent[i].pc = "400" \/ KeptTurn(sent[i], scene)
  /\ rq # None =>
       /\ rq.pc \in {"reduce", "instruct", "mark"} => rq.plan = NoBreakpoints
       /\ rq.pc # "reduce" => KeptTurn(rq, scene)

LEMMA NothingBefore == ASSUME NEW x PROVE BeforeTools(x, NoBreakpoints)
BY DEF BeforeTools, NoBreakpoints

LEMMA CacheInit == RequestInit => CacheInv
<1>1. Len(<<>>) = 0 OBVIOUS
<1> QED BY <1>1 DEF RequestInit, PathInit, PathIdle, CacheInv

LEMMA CacheReceive == ASSUME PathInv, CacheInv, Receive PROVE CacheInv'
<1>1. rq = None /\ scene' = scene BY DEF Receive
<1>2. Len(sent) \in Nat /\ IsList(sent) BY DEF PathInv, IsList
<1> DEFINE body == scene.turns[Len(sent) + 1]
<1>3. PICK bypass \in scene.bypasses :
        LET models == scene.resolved.models
            new == [client |-> body, bypass |-> bypass,
                    key |-> FlightKey(scene.resolved, body, bypass),
                    body |-> body, hashes |-> <<>>, plan |-> NoBreakpoints, pc |-> "reduce"]
        IN IF models # {} /\ ExtractModel(body) \notin models
           THEN /\ sent' = Append(sent, [new EXCEPT !.key = None, !.pc = "400"])
                /\ UNCHANGED rq
           ELSE /\ rq' = new
                /\ UNCHANGED sent
  BY DEF Receive
<1> DEFINE new == [client |-> body, bypass |-> bypass,
                   key |-> FlightKey(scene.resolved, body, bypass),
                   body |-> body, hashes |-> <<>>, plan |-> NoBreakpoints, pc |-> "reduce"]
           refused == [new EXCEPT !.key = None, !.pc = "400"]
<1>4. refused.pc = "400" /\ new.pc = "reduce" /\ new.plan = NoBreakpoints OBVIOUS
<1>5. (sent' = Append(sent, refused) /\ rq' = rq) \/ (rq' = new /\ sent' = sent) BY <1>3
<1> HIDE DEF body, new, refused
<1>6. CASE sent' = Append(sent, refused) /\ rq' = rq
  <2>1. /\ Len(sent') = Len(sent) + 1
        /\ \A i \in 1..Len(sent) : sent'[i] = sent[i]
        /\ sent'[Len(sent) + 1] = refused
    BY <1>2, <1>6, ListAppend
  <2>2. \A i \in 1..Len(sent') : i \in 1..Len(sent) \/ i = Len(sent) + 1 BY <1>2, <2>1
  <2> QED BY <1>1, <1>4, <1>6, <2>1, <2>2 DEF CacheInv
<1>7. CASE rq' = new /\ sent' = sent BY <1>1, <1>4, <1>7 DEF CacheInv
<1> QED BY <1>5, <1>6, <1>7

LEMMA CacheReduce == ASSUME PathInv, CacheInv, Reduce PROVE CacheInv'
<1>1. rq # None /\ rq.pc = "reduce" /\ scene' = scene /\ sent' = sent BY DEF Reduce
<1>2. PICK failing \in Failing(scene) :
        LET r == ReduceBody(Defs, scene.resolved, rq.client, Bypassed("reduce"), failing)
        IN rq' = [rq EXCEPT !.body = r.body, !.hashes = r.hashes, !.pc = "instruct"]
  BY Zenon DEF Reduce, Failing
<1> DEFINE r == ReduceBody(Defs, scene.resolved, rq.client, Bypassed("reduce"), failing)
<1>3. rq' = [rq EXCEPT !.body = r.body, !.hashes = r.hashes, !.pc = "instruct"] BY <1>2
<1>4. r.body = ReducedOf(rq, scene, failing) BY Zenon DEF ReducedOf, Bypassed
<1> HIDE DEF r
<1>5. rq' = [client |-> rq.client, bypass |-> rq.bypass, key |-> rq.key, body |-> r.body,
             hashes |-> r.hashes, plan |-> rq.plan, pc |-> "instruct"]
  BY <1>1, <1>3 DEF PathInv, IsTurn
<1>6. /\ rq'.client = rq.client /\ rq'.bypass = rq.bypass /\ rq'.body = r.body /\ rq'.plan = rq.plan
      /\ rq'.pc = "instruct"
  BY <1>5
<1>7. rq.plan = NoBreakpoints BY <1>1 DEF CacheInv
<1>8. ReducedOf(rq', scene, failing) = ReducedOf(rq, scene, failing) BY <1>6, Zenon DEF ReducedOf
<1>9. SameButMarks(rq'.body, ReducedOf(rq', scene, failing))
  BY <1>4, <1>6, <1>8, SameButMarksSelf
<1>10. KeptTurn(rq', scene) BY <1>6, <1>7, <1>9, NothingBefore DEF KeptTurn
<1> QED BY <1>1, <1>6, <1>7, <1>10 DEF CacheInv

LEMMA CacheInstruct == ASSUME PathInv, CacheInv, Instruct PROVE CacheInv'
<1>1. rq # None /\ rq.pc = "instruct" /\ scene' = scene /\ sent' = sent BY DEF Instruct
<1> DEFINE ins == InstructionFor(rq, scene)
           new == InjectEfficiency(rq.body, ins)
<1>2. rq' = [rq EXCEPT !.body = new, !.pc = "mark"] BY DEF Instruct, InstructionFor, Bypassed
<1>3. ins # None => IsBlock(ins) BY InstructionForIsBlock
<1>4. IsBody(rq.body) BY <1>1 DEF PathInv, OnItsWay
<1>5. new.messages = rq.body.messages BY <1>3, <1>4, Instructed
<1> HIDE DEF ins, new
<1>6. rq' = [client |-> rq.client, bypass |-> rq.bypass, key |-> rq.key, body |-> new,
             hashes |-> rq.hashes, plan |-> rq.plan, pc |-> "mark"]
  BY <1>1, <1>2 DEF PathInv, IsTurn
<1>7. /\ rq'.client = rq.client /\ rq'.bypass = rq.bypass /\ rq'.body = new /\ rq'.plan = rq.plan
      /\ rq'.pc = "mark"
  BY <1>6
<1>8. rq.plan = NoBreakpoints /\ KeptTurn(rq, scene) BY <1>1 DEF CacheInv
<1>9. PICK failing \in Failing(scene) : SameButMarks(rq.body, ReducedOf(rq, scene, failing)) BY <1>8 DEF KeptTurn
<1>10. ReducedOf(rq', scene, failing) = ReducedOf(rq, scene, failing) BY <1>7, Zenon DEF ReducedOf
<1>11. SameButMarks(rq'.body, ReducedOf(rq', scene, failing))
  BY <1>5, <1>7, <1>9, <1>10, SameButMarksSelf, SameButMarksTrans
<1>12. KeptTurn(rq', scene) BY <1>7, <1>8, <1>11, NothingBefore DEF KeptTurn
<1> QED BY <1>1, <1>7, <1>8, <1>12 DEF CacheInv

LEMMA CacheMark == ASSUME PathInv, CacheInv, Mark PROVE CacheInv'
<1>1. rq # None /\ rq.pc = "mark" /\ scene' = scene /\ sent' = sent BY DEF Mark
<1> DEFINE plan == FindBreakpoints(rq.body, scene.resolved.cache.breakpoint)
           marked == InjectCacheControl(rq.body, plan)
<1>2. \/ rq' = [rq EXCEPT !.body = marked, !.plan = plan, !.pc = "register"]
      \/ rq' = [rq EXCEPT !.pc = "register"]
  <2> DEFINE cache == scene.resolved.cache
             chosen == IF cache # None /\ cache.enabled /\ ~Bypassed("cache")
                       THEN FindBreakpoints(rq.body, cache.breakpoint) ELSE NoBreakpoints
  <2>1. \/ chosen # NoBreakpoints /\ rq' = [rq EXCEPT !.body = InjectCacheControl(@, chosen), !.plan = chosen, !.pc = "register"]
        \/ rq' = [rq EXCEPT !.pc = "register"]
    BY DEF Mark
  <2>2. chosen # NoBreakpoints => chosen = plan OBVIOUS
  <2> HIDE DEF chosen, plan
  <2> QED BY <2>1, <2>2
<1>3. IsBody(rq.body) /\ IsTurn(rq) BY <1>1 DEF PathInv, OnItsWay
<1>4. IsBody(marked) /\ SameButMarks(marked, rq.body) BY <1>3, MarkedBody, MarkedSame
<1>5. BeforeTools(rq.body, plan) BY <1>3, FoundBeforeTools
<1>6. rq.plan = NoBreakpoints /\ KeptTurn(rq, scene) BY <1>1 DEF CacheInv
<1> HIDE DEF plan, marked
<1>7. SameButMarks(rq.body, marked)
  BY <1>4 DEF SameButMarks
<1>8. BeforeTools(marked, plan) BY <1>3, <1>4, <1>5, <1>7, SameTypesOf, BeforeSameTools
<1>9. \E body, plan1 :
        /\ rq' = [client |-> rq.client, bypass |-> rq.bypass, key |-> rq.key, body |-> body,
                  hashes |-> rq.hashes, plan |-> plan1, pc |-> "register"]
        /\ SameButMarks(body, rq.body) /\ BeforeTools(body, plan1)
  <2>1. CASE rq' = [rq EXCEPT !.body = marked, !.plan = plan, !.pc = "register"]
    <3>1. rq' = [client |-> rq.client, bypass |-> rq.bypass, key |-> rq.key, body |-> marked,
                  hashes |-> rq.hashes, plan |-> plan, pc |-> "register"]
      BY <1>3, <2>1 DEF IsTurn
    <3> QED BY <1>4, <1>8, <3>1
  <2>2. CASE rq' = [rq EXCEPT !.pc = "register"]
    <3>1. rq' = [client |-> rq.client, bypass |-> rq.bypass, key |-> rq.key, body |-> rq.body,
                  hashes |-> rq.hashes, plan |-> rq.plan, pc |-> "register"]
      BY <1>3, <2>2 DEF IsTurn
    <3>2. SameButMarks(rq.body, rq.body) BY SameButMarksSelf
    <3>3. BeforeTools(rq.body, rq.plan) BY <1>6, NothingBefore
    <3> QED BY <3>1, <3>2, <3>3
  <2> QED BY <1>2, <2>1, <2>2
<1>10. PICK body, plan1 :
        /\ rq' = [client |-> rq.client, bypass |-> rq.bypass, key |-> rq.key, body |-> body,
                  hashes |-> rq.hashes, plan |-> plan1, pc |-> "register"]
        /\ SameButMarks(body, rq.body) /\ BeforeTools(body, plan1)
  BY <1>9
<1>11. /\ rq'.client = rq.client /\ rq'.bypass = rq.bypass /\ rq'.body = body /\ rq'.plan = plan1
       /\ rq'.pc = "register"
  BY <1>10
<1>12. PICK failing \in Failing(scene) : SameButMarks(rq.body, ReducedOf(rq, scene, failing)) BY <1>6 DEF KeptTurn
<1>13. ReducedOf(rq', scene, failing) = ReducedOf(rq, scene, failing) BY <1>11, Zenon DEF ReducedOf
<1>14. SameButMarks(rq'.body, ReducedOf(rq', scene, failing))
  BY <1>10, <1>11, <1>12, <1>13, SameButMarksTrans
<1>15. KeptTurn(rq', scene) BY <1>10, <1>11, <1>14 DEF KeptTurn
<1> QED BY <1>1, <1>11, <1>15 DEF CacheInv

LEMMA CacheRegister == ASSUME PathInv, CacheInv, Register PROVE CacheInv'
<1>1. /\ rq # None /\ rq.pc = "register" /\ scene' = scene /\ sent' = sent
      /\ rq' = [rq EXCEPT !.pc = "send"]
  BY DEF Register
<1>2. IsTurn(rq) /\ KeptTurn(rq, scene) BY <1>1 DEF PathInv, CacheInv
<1>3. rq' = [client |-> rq.client, bypass |-> rq.bypass, key |-> rq.key, body |-> rq.body,
             hashes |-> rq.hashes, plan |-> rq.plan, pc |-> "send"]
  BY <1>1, <1>2 DEF IsTurn
<1>4. /\ rq'.client = rq.client /\ rq'.bypass = rq.bypass /\ rq'.body = rq.body /\ rq'.plan = rq.plan
      /\ rq'.pc = "send"
  BY <1>3
<1>5. \A failing : ReducedOf(rq', scene, failing) = ReducedOf(rq, scene, failing) BY <1>4, Zenon DEF ReducedOf
<1>6. KeptTurn(rq', scene) BY <1>2, <1>4, <1>5 DEF KeptTurn
<1> QED BY <1>1, <1>4, <1>6 DEF CacheInv

LEMMA CacheSend == ASSUME PathInv, CacheInv, Send PROVE CacheInv'
<1>1. rq # None /\ rq.pc = "send" /\ scene' = scene /\ sent' = Append(sent, rq) /\ rq' = None BY DEF Send
<1>2. IsList(sent) /\ Len(sent) \in Nat BY DEF PathInv, IsList
<1>3. /\ Len(sent') = Len(sent) + 1
      /\ \A i \in 1..Len(sent) : sent'[i] = sent[i]
      /\ sent'[Len(sent) + 1] = rq
  BY <1>1, <1>2, ListAppend
<1>4. \A i \in 1..Len(sent') : i \in 1..Len(sent) \/ i = Len(sent) + 1 BY <1>2, <1>3
<1>5. KeptTurn(rq, scene) BY <1>1 DEF CacheInv
<1> QED BY <1>1, <1>3, <1>4, <1>5 DEF CacheInv

LEMMA CacheNext == PathInv /\ CacheInv /\ [RequestNext]_<<request, kept>> => CacheInv'
<1> SUFFICES ASSUME PathInv, CacheInv, [RequestNext]_<<request, kept>> PROVE CacheInv'
  OBVIOUS
<1>1. CASE Receive \/ Reduce \/ Instruct \/ Mark \/ Register \/ Send
  BY <1>1, CacheReceive, CacheReduce, CacheInstruct, CacheMark, CacheRegister, CacheSend
<1>2. CASE UNCHANGED pathVars BY <1>2 DEF CacheInv, pathVars
<1>3. CASE RequestNext
  BY <1>1, <1>2, <1>3 DEF RequestNext, SaveCheckpoint, request
<1> QED BY <1>2, <1>3 DEF request

LEMMA UnmarkedAt ==
  ASSUME NEW x, IsBody(x)
  PROVE LET e == Unmarked(x)
        IN /\ e.system.blocks = SystemStrips(x)
           /\ IsList(e.messages) /\ Len(e.messages) = Len(x.messages)
           /\ \A m \in 1..Len(x.messages) :
                /\ e.messages[m] = [role |-> x.messages[m].role, form |-> x.messages[m].form,
                                    blocks |-> Strips(x)[m]]
                /\ e.messages[m].blocks = Strips(x)[m]
<1> DEFINE e == Unmarked(x)
           z == WithBlocks(x, Strips(x))
           sys == [form |-> x.system.form, blocks |-> SystemStrips(x)]
<1>1. e = [json |-> x.json, model |-> x.model, stream |-> FALSE, system |-> sys, messages |-> z.messages]
  BY UnmarkedShape
<1>2. z = [json |-> x.json, model |-> x.model, stream |-> x.stream, system |-> x.system,
           messages |-> Renewed(x, Strips(x))]
  BY WithOthers
<1>3. sys.blocks = SystemStrips(x) OBVIOUS
<1> HIDE DEF e, z, sys
<1>4. e.system = sys /\ e.messages = z.messages BY <1>1
<1>5. z.messages = Renewed(x, Strips(x)) BY <1>2
<1>6. Len(x.messages) \in Nat BY DEF IsBody, IsList
<1>7. IsList(e.messages) /\ Len(e.messages) = Len(x.messages) BY <1>4, <1>5, <1>6 DEF Renewed, IsList
<1>8. \A m \in 1..Len(x.messages) :
        e.messages[m] = [role |-> x.messages[m].role, form |-> x.messages[m].form, blocks |-> Strips(x)[m]]
  BY <1>4, <1>5 DEF Renewed
<1>9. \A m \in 1..Len(x.messages) : e.messages[m].blocks = Strips(x)[m]
  <2> SUFFICES ASSUME NEW m \in 1..Len(x.messages) PROVE e.messages[m].blocks = Strips(x)[m]
    OBVIOUS
  <2> DEFINE g == e.messages[m]
             old == x.messages[m]
             bs == Strips(x)[m]
  <2>1. g = [role |-> old.role, form |-> old.form, blocks |-> bs] BY <1>8
  <2> HIDE DEF g, old, bs
  <2>2. g.blocks = bs BY <2>1
  <2> QED BY <2>2 DEF g, bs
<1> QED BY <1>3, <1>4, <1>7, <1>8, <1>9 DEF e

\* The message m of two bodies is the same but for its marks.
SameMessageAt(x, y, m) ==
  /\ m \in 1..Len(x.messages) /\ m \in 1..Len(y.messages)
  /\ x.messages[m].role = y.messages[m].role /\ x.messages[m].form = y.messages[m].form
  /\ Len(x.messages[m].blocks) = Len(y.messages[m].blocks)
  /\ \A k \in 1..Len(x.messages[m].blocks) :
       StripCacheControl(x.messages[m].blocks[k]) = StripCacheControl(y.messages[m].blocks[k])

LEMMA SameUnmarked ==
  ASSUME NEW x, NEW y, IsBody(x), IsBody(y), NEW m, SameMessageAt(x, y, m)
  PROVE Unmarked(x).messages[m] = Unmarked(y).messages[m]
<1>1. m \in 1..Len(x.messages) /\ m \in 1..Len(y.messages) BY DEF SameMessageAt
<1> DEFINE a == Strips(x)[m]
           b == Strips(y)[m]
<1>2. a = b
  <2>1. /\ IsList(a) /\ Len(a) = Len(x.messages[m].blocks)
        /\ \A k \in 1..Len(x.messages[m].blocks) : a[k] = StripCacheControl(x.messages[m].blocks[k])
    BY <1>1, StripsAt
  <2>2. /\ IsList(b) /\ Len(b) = Len(y.messages[m].blocks)
        /\ \A k \in 1..Len(y.messages[m].blocks) : b[k] = StripCacheControl(y.messages[m].blocks[k])
    BY <1>1, StripsAt
  <2> HIDE DEF a, b
  <2>3. Len(a) = Len(b) /\ \A k \in 1..Len(a) : a[k] = b[k] BY <2>1, <2>2 DEF SameMessageAt
  <2> QED BY <2>1, <2>2, <2>3, SameList
<1>3. Unmarked(x).messages[m] = [role |-> x.messages[m].role, form |-> x.messages[m].form, blocks |-> a]
  BY <1>1, UnmarkedAt
<1>4. Unmarked(y).messages[m] = [role |-> y.messages[m].role, form |-> y.messages[m].form, blocks |-> b]
  BY <1>1, UnmarkedAt
<1> QED BY <1>2, <1>3, <1>4 DEF SameMessageAt

LEMMA SamePrompt ==
  ASSUME NEW x, NEW y, IsBody(x), IsBody(y), SystemStrips(x) = SystemStrips(y), NEW m, NEW b,
         \A k \in 1..m : SameMessageAt(x, y, k)
  PROVE PromptUpTo(x, m, b) = PromptUpTo(y, m, b)
<1> DEFINE u == Unmarked(x)
           v == Unmarked(y)
           UpTo(w) == [k \in 1..m |-> IF k = m THEN SubSeq(w.messages[k].blocks, 1, b) ELSE w.messages[k].blocks]
<1>1. u.system.blocks = v.system.blocks BY UnmarkedAt
<1>2. \A k \in 1..m : u.messages[k] = v.messages[k] BY SameUnmarked
<1>3. /\ PromptUpTo(x, m, b) = <<u.system.blocks, UpTo(u)>>
      /\ PromptUpTo(y, m, b) = <<v.system.blocks, UpTo(v)>>
  BY Zenon DEF PromptUpTo
<1> HIDE DEF u, v
<1>4. UpTo(u) = UpTo(v) BY <1>2
<1> HIDE DEF UpTo
<1> QED BY <1>1, <1>3, <1>4

-----------------------------------------------------------------------------
\* The turns i and j of one conversation, j the later one.
LaterTurn(i, j) ==
  /\ i \in Forwarded /\ j \in Forwarded
  /\ sent[i].bypass = sent[j].bypass /\ Extends(sent[j].client, sent[i].client)

LEMMA TurnBodies ==
  ASSUME PathInv, CacheInv, NEW i \in Forwarded
  PROVE /\ IsBody(sent[i].client) /\ Unnamed(sent[i].client) /\ IsBody(sent[i].body)
        /\ sent[i].client \in RequestBodies
        /\ ReadsAsInstructed(sent[i], scene) /\ KeptTurn(sent[i], scene)
        /\ MessagesAlike(sent[i].body, sent[i].client)
<1> DEFINE q == sent[i]
           ins == InstructionFor(q, scene)
<1>1. OnItsWay(q, scene, cas) /\ ReadsAsInstructed(q, scene) BY DepartedTurn DEF Departed
<1>2. i \in 1..Len(sent) /\ q.pc = "send" BY ListDomain DEF Forwarded, PathInv
<1>3. KeptTurn(q, scene) BY <1>2 DEF CacheInv
<1>4. IsBody(q.client) /\ Unnamed(q.client) /\ IsBody(q.body) /\ q.client \in RequestBodies
  BY <1>1, ClientBody DEF OnItsWay
<1>5. MessagesAlike(q.body, q.client)
  <2>1. ins # None => IsBlock(ins) BY InstructionForIsBlock
  <2>2. InjectEfficiency(q.client, ins).messages = q.client.messages BY <1>4, <2>1, Instructed
  <2> QED BY <1>1, <2>2 DEF ReadsAsInstructed, Alike, MessagesAlike
<1> QED BY <1>1, <1>3, <1>4, <1>5

LEMMA SameSystem ==
  ASSUME PathInv, CacheInv, NEW i, NEW j, LaterTurn(i, j)
  PROVE SystemStrips(sent[i].body) = SystemStrips(sent[j].body)
<1> DEFINE p == sent[i]
           q == sent[j]
           ins == InstructionFor(p, scene)
           a == InjectEfficiency(p.client, ins)
           b == InjectEfficiency(q.client, ins)
<1>1. i \in Forwarded /\ j \in Forwarded /\ p.bypass = q.bypass /\ Extends(q.client, p.client) BY DEF LaterTurn
<1>2. /\ IsBody(p.client) /\ IsBody(q.client) /\ IsBody(p.body) /\ IsBody(q.body)
      /\ ReadsAsInstructed(p, scene) /\ ReadsAsInstructed(q, scene)
  BY <1>1, TurnBodies
<1>3. InstructionFor(q, scene) = ins BY <1>1 DEF InstructionFor
<1>4. Alike(p.body, a) /\ Alike(q.body, b) BY <1>2, <1>3 DEF ReadsAsInstructed
<1>5. q.client.json = p.client.json /\ q.client.system = p.client.system BY <1>1, <1>2, ExtendsParts
<1>6. a.system = b.system
  <2>1. CASE ins = None \/ ~p.client.json \/ p.client.system.form = "none"
    BY <1>5, <2>1 DEF InjectEfficiency
  <2>2. CASE ~(ins = None \/ ~p.client.json \/ p.client.system.form = "none")
    <3>1. ASSUME NEW z, IsBody(z), ~(ins = None \/ ~z.json \/ z.system.form = "none")
          PROVE InjectEfficiency(z, ins).system = [form |-> "blocks", blocks |-> Append(z.system.blocks, ins)]
      <4> DEFINE sys == [form |-> "blocks", blocks |-> Append(z.system.blocks, ins)]
      <4>1. InjectEfficiency(z, ins) = [z EXCEPT !.system = sys] BY <3>1 DEF InjectEfficiency
      <4> HIDE DEF sys
      <4>2. InjectEfficiency(z, ins) = [json |-> z.json, model |-> z.model, stream |-> z.stream,
                                        system |-> sys, messages |-> z.messages]
        BY <3>1, <4>1, SystemSet, Zenon
      <4>3. InjectEfficiency(z, ins).system = sys BY <4>2
      <4> QED BY <4>3 DEF sys
    <3> QED BY <1>2, <1>5, <2>2, <3>1
  <2> QED BY <2>1, <2>2
<1> HIDE DEF p, q, a, b, ins
<1>7. /\ Len(p.body.system.blocks) = Len(q.body.system.blocks)
      /\ \A k \in 1..Len(p.body.system.blocks) :
           StripCacheControl(p.body.system.blocks[k]) = StripCacheControl(q.body.system.blocks[k])
  BY <1>4, <1>6 DEF Alike
<1>8. SystemStrips(p.body) = SystemStrips(q.body) BY <1>7 DEF SystemStrips
<1> QED BY <1>8 DEF p, q

\* A message without tool results leaves as it came, but for marks.
LEMMA PlainMessage ==
  ASSUME PathInv, CacheInv, NEW i \in Forwarded, NEW m \in 1..Len(sent[i].client.messages),
         ~Has(sent[i].client.messages[m], "tool_result")
  PROVE SameMessageAt(sent[i].body, sent[i].client, m)
<1> DEFINE q == sent[i]
           x == q.client
<1>1. IsBody(x) /\ Unnamed(x) /\ KeptTurn(q, scene) BY TurnBodies
<1>2. PICK failing \in Failing(scene) : SameButMarks(q.body, ReducedOf(q, scene, failing)) BY <1>1 DEF KeptTurn
<1> DEFINE y == ReducedOf(q, scene, failing)
<1> DEFINE bypassed == q.bypass \cap {"all", "reduce"} # {}
<1>0. y = ReduceBody(Defs, scene.resolved, x, bypassed, failing).body BY Zenon DEF ReducedOf
<1> HIDE DEF bypassed, y, x
<1>3. /\ Len(y.messages) = Len(x.messages)
      /\ \A h \in 1..Len(x.messages) :
           /\ y.messages[h].role = x.messages[h].role /\ y.messages[h].form = x.messages[h].form
           /\ Len(y.messages[h].blocks) = Len(x.messages[h].blocks)
           /\ \A k \in 1..Len(x.messages[h].blocks) :
                x.messages[h].blocks[k].type # "tool_result" =>
                  y.messages[h].blocks[k] = x.messages[h].blocks[k]
  BY <1>0, <1>1, OthersStay
<1>4. \A k \in 1..Len(x.messages[m].blocks) : x.messages[m].blocks[k].type # "tool_result"
  BY <1>1, BlockAt DEF Has, x
<1>5. SameButMarks(q.body, y) BY <1>2 DEF y
<1>6. m \in 1..Len(x.messages) /\ m \in 1..Len(y.messages) /\ m \in 1..Len(q.body.messages)
  BY <1>3, <1>5 DEF SameButMarks, x
<1> DEFINE g == q.body.messages[m]
           h == y.messages[m]
           c == x.messages[m]
<1>7. /\ h.role = c.role /\ h.form = c.form /\ Len(h.blocks) = Len(c.blocks)
      /\ \A k \in 1..Len(c.blocks) : h.blocks[k] = c.blocks[k]
  BY <1>3, <1>4, <1>6
<1>8. /\ g.role = h.role /\ g.form = h.form /\ Len(g.blocks) = Len(h.blocks)
      /\ \A k \in 1..Len(g.blocks) : StripCacheControl(g.blocks[k]) = StripCacheControl(h.blocks[k])
  BY <1>5, <1>6 DEF SameButMarks
<1> HIDE DEF g, h, c
<1>9. /\ g.role = c.role /\ g.form = c.form /\ Len(g.blocks) = Len(c.blocks)
      /\ \A k \in 1..Len(g.blocks) : StripCacheControl(g.blocks[k]) = StripCacheControl(c.blocks[k])
  BY <1>7, <1>8
<1> QED BY <1>6, <1>9 DEF SameMessageAt, g, c, x

LEMMA SameMessageTrans ==
  ASSUME NEW x, NEW y, NEW z, NEW m, SameMessageAt(x, y, m), SameMessageAt(z, y, m)
  PROVE SameMessageAt(x, z, m)
<1> DEFINE a == x.messages[m]
           b == y.messages[m]
           c == z.messages[m]
<1>1. /\ a.role = b.role /\ a.form = b.form /\ Len(a.blocks) = Len(b.blocks)
      /\ \A k \in 1..Len(a.blocks) : StripCacheControl(a.blocks[k]) = StripCacheControl(b.blocks[k])
      /\ c.role = b.role /\ c.form = b.form /\ Len(c.blocks) = Len(b.blocks)
      /\ \A k \in 1..Len(c.blocks) : StripCacheControl(c.blocks[k]) = StripCacheControl(b.blocks[k])
  BY DEF SameMessageAt
<1>2. m \in 1..Len(x.messages) /\ m \in 1..Len(z.messages) BY DEF SameMessageAt
<1> HIDE DEF a, b, c
<1>3. /\ a.role = c.role /\ a.form = c.form /\ Len(a.blocks) = Len(c.blocks)
      /\ \A k \in 1..Len(a.blocks) : StripCacheControl(a.blocks[k]) = StripCacheControl(c.blocks[k])
  BY <1>1
<1> QED BY <1>2, <1>3 DEF SameMessageAt, a, c

-----------------------------------------------------------------------------
\* The messages up to a breakpoint have no tool results.
LEMMA NoResultsBefore ==
  ASSUME PathInv, CacheInv, NEW i \in Forwarded, ResultsFromUser(sent[i].client),
         NEW at \in sent[i].plan.message_blocks, NEW m \in 1..at[1]
  PROVE m \in 1..Len(sent[i].client.messages) /\ ~Has(sent[i].client.messages[m], "tool_result")
<1> DEFINE q == sent[i]
           x == q.client
<1>1. /\ IsBody(x) /\ IsBody(q.body) /\ MessagesAlike(q.body, x) /\ BeforeTools(q.body, q.plan)
      /\ x \in RequestBodies
  BY TurnBodies DEF KeptTurn
<1>2. BeforeTools(x, q.plan) BY <1>1, SameTypesOf, BeforeSameTools
<1>3. /\ at[1] \in 1..Len(x.messages)
      /\ \A k \in 1..at[1] : x.messages[k].form = "blocks" => ~ToolInteraction(x.messages[k])
  BY <1>2 DEF BeforeTools
<1>4. Len(x.messages) \in Nat /\ DOMAIN x.messages = 1..Len(x.messages) BY <1>1, ListDomain DEF IsBody
<1>5. m \in 1..Len(x.messages) BY <1>3, <1>4
<1>6. x.messages[m] \in Messages
  <2>1. x.messages \in Seq(Messages) BY <1>1 DEF RequestBodies
  <2> HIDE DEF x
  <2> QED BY <1>5, <2>1, ListOf
<1>7. ResultsFromUser(x) /\ (x.messages[m].form = "blocks" => ~ToolInteraction(x.messages[m])) BY <1>3
<1> DEFINE g == x.messages[m]
<1>8. Has(g, "tool_result") => g.role = "user" BY <1>4, <1>5, <1>7 DEF ResultsFromUser
<1>9. g.form # "blocks" => \A b \in DOMAIN g.blocks : g.blocks[b].type = "text" BY <1>6 DEF Messages
<1> HIDE DEF g, x
<1>10. CASE g.form = "blocks" BY <1>5, <1>7, <1>8, <1>10 DEF ToolInteraction, g, x
<1>11. CASE g.form # "blocks"
  <2>1. ~Has(g, "tool_result") BY <1>9, <1>11 DEF Has
  <2> QED BY <1>5, <2>1 DEF g, x
<1> QED BY <1>10, <1>11

LEMMA SameUpTo ==
  ASSUME PathInv, CacheInv, NEW i, NEW j, LaterTurn(i, j), ResultsFromUser(sent[i].client),
         NEW at \in sent[i].plan.message_blocks
  PROVE PromptUpTo(sent[j].body, at[1], at[2]) = PromptUpTo(sent[i].body, at[1], at[2])
<1> DEFINE p == sent[i]
           q == sent[j]
<1>1. i \in Forwarded /\ j \in Forwarded /\ Extends(q.client, p.client) BY DEF LaterTurn
<1>2. /\ IsBody(p.client) /\ IsBody(q.client) /\ IsBody(p.body) /\ IsBody(q.body) BY <1>1, TurnBodies
<1>3. ASSUME NEW m \in 1..at[1] PROVE SameMessageAt(q.body, p.body, m)
  <2>1. m \in 1..Len(p.client.messages) /\ ~Has(p.client.messages[m], "tool_result")
    BY <1>1, NoResultsBefore
  <2>2. m \in 1..Len(q.client.messages) /\ q.client.messages[m] = p.client.messages[m]
    BY <1>1, <1>2, <2>1, ExtendsParts
  <2>3. SameMessageAt(p.body, p.client, m) BY <1>1, <2>1, PlainMessage
  <2>4. SameMessageAt(q.body, q.client, m) BY <1>1, <2>1, <2>2, PlainMessage
  <2> HIDE DEF p, q
  <2>5. SameMessageAt(q.body, p.client, m) BY <2>1, <2>2, <2>4 DEF SameMessageAt
  <2> QED BY <2>3, <2>5, SameMessageTrans
<1>4. SystemStrips(q.body) = SystemStrips(p.body) BY SameSystem
<1> HIDE DEF p, q
<1>5. PromptUpTo(q.body, at[1], at[2]) = PromptUpTo(p.body, at[1], at[2]) BY <1>2, <1>3, <1>4, SamePrompt
<1> QED BY <1>5 DEF p, q

LEMMA SamePrefix ==
  ASSUME PathInv, CacheInv, NEW i, NEW j, LaterTurn(i, j), "cas" \notin scene.faults,
         UsesAreNew(sent[j].client, sent[i].client)
  PROVE IsPrefix(Unmarked(sent[i].body).messages, Unmarked(sent[j].body).messages)
<1> DEFINE p == sent[i]
           q == sent[j]
           x == p.client
           y == q.client
           bypassed == p.bypass \cap {"all", "reduce"} # {}
           w == ReduceBody(Defs, scene.resolved, x, bypassed, 0).body
           v == ReduceBody(Defs, scene.resolved, y, bypassed, 0).body
<1>1. /\ i \in Forwarded /\ j \in Forwarded /\ p.bypass = q.bypass /\ Extends(y, x) /\ UsesAreNew(y, x)
  BY DEF LaterTurn
<1>2. /\ IsBody(x) /\ IsBody(y) /\ IsBody(p.body) /\ IsBody(q.body) /\ Unnamed(x) /\ Unnamed(y)
      /\ KeptTurn(p, scene) /\ KeptTurn(q, scene)
  BY <1>1, TurnBodies
<1>3. SameButMarks(p.body, w) /\ SameButMarks(q.body, v)
  <2>1. Failing(scene) = {0} BY DEF Failing
  <2>2. SameButMarks(p.body, ReducedOf(p, scene, 0)) /\ SameButMarks(q.body, ReducedOf(q, scene, 0))
    BY <1>2, <2>1 DEF KeptTurn
  <2>3. ReducedOf(p, scene, 0) = w /\ ReducedOf(q, scene, 0) = v BY <1>1, Zenon DEF ReducedOf
  <2> HIDE DEF w, v, p, q
  <2> QED BY <2>2, <2>3
<1> HIDE DEF bypassed, x, y, p, q
<1>4. \A m \in 1..Len(x.messages) : \A k \in 1..Len(x.messages[m].blocks) :
        v.messages[m].blocks[k] = w.messages[m].blocks[k]
  BY <1>1, <1>2, ReducedAlike
<1>5. /\ Len(w.messages) = Len(x.messages)
      /\ \A m \in 1..Len(x.messages) :
           /\ w.messages[m].role = x.messages[m].role /\ w.messages[m].form = x.messages[m].form
           /\ Len(w.messages[m].blocks) = Len(x.messages[m].blocks)
  BY <1>2, OthersStay
<1>6. /\ Len(v.messages) = Len(y.messages)
      /\ \A m \in 1..Len(y.messages) :
           /\ v.messages[m].role = y.messages[m].role /\ v.messages[m].form = y.messages[m].form
           /\ Len(v.messages[m].blocks) = Len(y.messages[m].blocks)
  BY <1>2, OthersStay
<1>7. /\ Len(x.messages) <= Len(y.messages)
      /\ \A m \in 1..Len(x.messages) : m \in 1..Len(y.messages) /\ y.messages[m] = x.messages[m]
  BY <1>1, <1>2, ExtendsParts
<1> HIDE DEF v, w
<1>8. ASSUME NEW m \in 1..Len(p.body.messages) PROVE SameMessageAt(p.body, q.body, m)
  <2>1. /\ m \in 1..Len(x.messages) /\ m \in 1..Len(y.messages) /\ m \in 1..Len(w.messages)
        /\ m \in 1..Len(v.messages) /\ m \in 1..Len(q.body.messages)
    BY <1>3, <1>5, <1>6, <1>7 DEF SameButMarks
  <2> DEFINE a == p.body.messages[m]
             b == q.body.messages[m]
             c == w.messages[m]
             d == v.messages[m]
             e == x.messages[m]
  <2>2. /\ a.role = c.role /\ a.form = c.form /\ Len(a.blocks) = Len(c.blocks)
        /\ \A k \in 1..Len(a.blocks) : StripCacheControl(a.blocks[k]) = StripCacheControl(c.blocks[k])
    BY <1>3, <2>1 DEF SameButMarks
  <2>3. /\ b.role = d.role /\ b.form = d.form /\ Len(b.blocks) = Len(d.blocks)
        /\ \A k \in 1..Len(b.blocks) : StripCacheControl(b.blocks[k]) = StripCacheControl(d.blocks[k])
    BY <1>3, <2>1 DEF SameButMarks
  <2>4. c.role = e.role /\ c.form = e.form /\ Len(c.blocks) = Len(e.blocks) BY <1>5, <2>1
  <2>5. d.role = e.role /\ d.form = e.form /\ Len(d.blocks) = Len(e.blocks)
    <3>1. y.messages[m] = e BY <1>7, <2>1
    <3>2. /\ d.role = y.messages[m].role /\ d.form = y.messages[m].form
          /\ Len(d.blocks) = Len(y.messages[m].blocks)
      BY <1>6, <2>1
    <3> HIDE DEF d, e
    <3> QED BY <3>1, <3>2
  <2>6. \A k \in 1..Len(e.blocks) : d.blocks[k] = c.blocks[k] BY <1>4, <2>1
  <2> HIDE DEF a, b, c, d, e
  <2>7. /\ a.role = b.role /\ a.form = b.form /\ Len(a.blocks) = Len(b.blocks)
        /\ \A k \in 1..Len(a.blocks) : StripCacheControl(a.blocks[k]) = StripCacheControl(b.blocks[k])
    BY <2>2, <2>3, <2>4, <2>5, <2>6
  <2> QED BY <2>1, <2>7 DEF SameMessageAt, a, b
<1>9. Len(p.body.messages) <= Len(q.body.messages) BY <1>3, <1>5, <1>6, <1>7 DEF SameButMarks
<1> DEFINE s == Unmarked(p.body).messages
           t == Unmarked(q.body).messages
<1>10. IsList(s) /\ IsList(t) /\ Len(s) = Len(p.body.messages) /\ Len(t) = Len(q.body.messages)
  BY <1>2, UnmarkedAt
<1>11. \A m \in 1..Len(s) : s[m] = t[m] BY <1>2, <1>8, <1>10, SameUnmarked
<1> HIDE DEF s, t
<1>12. Len(s) \in Nat /\ Len(t) \in Nat /\ Len(s) <= Len(t) BY <1>9, <1>10 DEF IsList
<1>13. SubSeq(s, 1, Len(s)) = [k \in 1..Len(s) |-> s[k]] BY <1>10, <1>12 DEF IsList
<1>14. SubSeq(t, 1, Len(s)) = [k \in 1..Len(s) |-> t[k]] BY <1>10, <1>12 DEF IsList
<1>15. IsPrefix(s, t) BY <1>11, <1>12, <1>13, <1>14 DEF IsPrefix
<1> QED BY <1>15 DEF s, t, p, q

LEMMA Cached == PathInv /\ CacheInv => CachedPrefixStable
<1> SUFFICES ASSUME PathInv, CacheInv, NEW i \in Forwarded, NEW j \in Forwarded,
                    i < j, sent[i].bypass = sent[j].bypass, Extends(sent[j].client, sent[i].client)
             PROVE /\ ResultsFromUser(sent[i].client) =>
                        \A at \in sent[i].plan.message_blocks :
                          PromptUpTo(sent[j].body, at[1], at[2]) = PromptUpTo(sent[i].body, at[1], at[2])
                   /\ ("cas" \notin scene.faults /\ UsesAreNew(sent[j].client, sent[i].client)) =>
                        IsPrefix(Unmarked(sent[i].body).messages, Unmarked(sent[j].body).messages)
  BY DEF CachedPrefixStable
<1>1. LaterTurn(i, j) BY DEF LaterTurn
<1> QED BY <1>1, SameUpTo, SamePrefix

\* What a provider has cached of a turn is there again in the later turns, for conversations of any
\* length and any filters: up to each breakpoint that was set even if a blob could not be written, and
\* throughout if all could and no tool use comes after its result (breakpoint.rs:19, transform.rs:129).
THEOREM PrefixStaysCached == RequestSpec => []CachedPrefixStable
<1>1. RequestInit => PathInv /\ CacheInv BY InitPath, CacheInit
<1>2. PathInv /\ CacheInv /\ [RequestNext]_<<request, kept>> => (PathInv /\ CacheInv)'
  BY NextPath, CacheNext
<1> QED BY <1>1, <1>2, Cached, PTL DEF RequestSpec
-----------------------------------------------------------------------------
(****************************************************************************)
(* Usage rows and the report of them.                                       *)
(****************************************************************************)
Columns == {"requests", "upstream", "coalesced", "hits", "tokens", "hit_tokens", "unpriced", "raw", "reduced"}

GoodRow(row) ==
  /\ row.hit \in BOOLEAN /\ row.coalesced \in {0, 1} /\ (row.hit => row.coalesced = 0)
  /\ row.tokens \in Nat /\ row.raw \in Nat /\ row.reduced \in Nat /\ row.priced \in BOOLEAN
  /\ row.day \in Nat

\* LedgerRows of a ledger.
LedgerRows(L) == IsFiniteSet(L) /\ \A r \in L : GoodRow(r.row)

\* What a row adds to each column.
Adds(row) ==
  [requests |-> 1,
   upstream |-> IF ~row.hit /\ row.coalesced = 0 THEN 1 ELSE 0,
   coalesced |-> row.coalesced,
   hits |-> IF row.hit THEN 1 ELSE 0,
   tokens |-> row.tokens,
   hit_tokens |-> IF row.hit THEN row.tokens ELSE 0,
   unpriced |-> IF ~row.priced THEN 1 ELSE 0,
   raw |-> row.raw,
   reduced |-> row.reduced]

LEMMA AddsNat == ASSUME NEW row, GoodRow(row), NEW c \in Columns PROVE Adds(row)[c] \in Nat
BY DEF GoodRow, Columns, Adds

LEMMA SumOfSame ==
  ASSUME NEW L, LedgerRows(L), NEW c \in Columns, NEW g, DOMAIN g = L, \A r \in L : g[r] = Adds(r.row)[c]
  PROVE SumFunction(g) = SumFunctionOnSet([r \in L |-> Adds(r.row)[c]], L)
<1>1. \A r \in L : g[r] = [s \in L |-> Adds(s.row)[c]][r] /\ g[r] \in Nat BY AddsNat DEF LedgerRows
<1> QED BY <1>1, SumSame DEF SumFunction, LedgerRows

LEMMA CountOfThose ==
  ASSUME NEW L, LedgerRows(L), NEW c \in Columns, NEW P \in SUBSET L,
         \A r \in L : Adds(r.row)[c] = IF r \in P THEN 1 ELSE 0
  PROVE Cardinality(P) = SumFunctionOnSet([r \in L |-> Adds(r.row)[c]], L)
<1> DEFINE f == [r \in L |-> Adds(r.row)[c]]
<1>1. \A r \in L : f[r] = IF r \in P THEN 1 ELSE 0 OBVIOUS
<1>2. IsFiniteSet(L) BY DEF LedgerRows
<1> HIDE DEF f
<1>3. SumFunctionOnSet(f, L) = Cardinality(L \cap P) BY <1>1, <1>2, SumCounts
<1>4. L \cap P = P OBVIOUS
<1> QED BY <1>3, <1>4 DEF f

LEMMA BreakdownIsSum ==
  ASSUME NEW L, LedgerRows(L), NEW c \in Columns
  PROVE Breakdown(L)[c] = SumFunctionOnSet([r \in L |-> Adds(r.row)[c]], L)
<1> DEFINE Same(d) == Breakdown(L)[d] = SumFunctionOnSet([r \in L |-> Adds(r.row)[d]], L)
<1>0. \A r \in L : GoodRow(r.row) BY DEF LedgerRows
<1>1. Same("requests")
  <2>1. \A r \in L : Adds(r.row)["requests"] = IF r \in L THEN 1 ELSE 0 BY DEF Adds
  <2>2. "requests" \in Columns BY DEF Columns
  <2>3. Cardinality(L) = SumFunctionOnSet([r \in L |-> Adds(r.row)["requests"]], L) BY <2>1, <2>2, CountOfThose
  <2> QED BY <2>3 DEF Breakdown
<1>2. Same("upstream")
  <2> DEFINE P == {r \in L : ~r.row.hit /\ r.row.coalesced = 0}
  <2>1. \A r \in L : Adds(r.row)["upstream"] = IF r \in P THEN 1 ELSE 0 BY DEF Adds
  <2>2. "upstream" \in Columns /\ P \in SUBSET L BY DEF Columns
  <2>3. Breakdown(L)["upstream"] = Cardinality(P) BY DEF Breakdown
  <2> HIDE DEF P
  <2> QED BY <2>1, <2>2, <2>3, CountOfThose
<1>3. Same("coalesced")
  <2> DEFINE g == [r \in L |-> r.row.coalesced]
  <2>1. DOMAIN g = L /\ \A r \in L : g[r] = Adds(r.row)["coalesced"] BY DEF Adds
  <2>2. "coalesced" \in Columns BY DEF Columns
  <2>3. Breakdown(L)["coalesced"] = SumFunction(g) BY DEF Breakdown
  <2> HIDE DEF g
  <2> QED BY <2>1, <2>2, <2>3, SumOfSame
<1>4. Same("hits")
  <2> DEFINE P == {r \in L : r.row.hit}
  <2>1. \A r \in L : Adds(r.row)["hits"] = IF r \in P THEN 1 ELSE 0 BY DEF Adds
  <2>2. "hits" \in Columns /\ P \in SUBSET L BY DEF Columns
  <2>3. Breakdown(L)["hits"] = Cardinality(P) BY DEF Breakdown
  <2> HIDE DEF P
  <2> QED BY <2>1, <2>2, <2>3, CountOfThose
<1>5. Same("tokens")
  <2> DEFINE g == [r \in L |-> r.row.tokens]
  <2>1. DOMAIN g = L /\ \A r \in L : g[r] = Adds(r.row)["tokens"] BY DEF Adds
  <2>2. "tokens" \in Columns BY DEF Columns
  <2>3. Breakdown(L)["tokens"] = SumFunction(g) BY DEF Breakdown
  <2> HIDE DEF g
  <2> QED BY <2>1, <2>2, <2>3, SumOfSame
<1>6. Same("hit_tokens")
  <2> DEFINE g == [r \in L |-> IF r.row.hit THEN r.row.tokens ELSE 0]
  <2>1. DOMAIN g = L /\ \A r \in L : g[r] = Adds(r.row)["hit_tokens"] BY DEF Adds
  <2>2. "hit_tokens" \in Columns BY DEF Columns
  <2>3. Breakdown(L)["hit_tokens"] = SumFunction(g) BY DEF Breakdown
  <2> HIDE DEF g
  <2> QED BY <2>1, <2>2, <2>3, SumOfSame
<1>7. Same("unpriced")
  <2> DEFINE P == {r \in L : ~r.row.priced}
  <2>1. \A r \in L : Adds(r.row)["unpriced"] = IF r \in P THEN 1 ELSE 0 BY DEF Adds
  <2>2. "unpriced" \in Columns /\ P \in SUBSET L BY DEF Columns
  <2>3. Breakdown(L)["unpriced"] = Cardinality(P) BY DEF Breakdown
  <2> HIDE DEF P
  <2> QED BY <2>1, <2>2, <2>3, CountOfThose
<1>8. Same("raw")
  <2> DEFINE g == [r \in L |-> r.row.raw]
  <2>1. DOMAIN g = L /\ \A r \in L : g[r] = Adds(r.row)["raw"] BY DEF Adds
  <2>2. "raw" \in Columns BY DEF Columns
  <2>3. Breakdown(L)["raw"] = SumFunction(g) BY DEF Breakdown
  <2> HIDE DEF g
  <2> QED BY <2>1, <2>2, <2>3, SumOfSame
<1>9. Same("reduced")
  <2> DEFINE g == [r \in L |-> r.row.reduced]
  <2>1. DOMAIN g = L /\ \A r \in L : g[r] = Adds(r.row)["reduced"] BY DEF Adds
  <2>2. "reduced" \in Columns BY DEF Columns
  <2>3. Breakdown(L)["reduced"] = SumFunction(g) BY DEF Breakdown
  <2> HIDE DEF g
  <2> QED BY <2>1, <2>2, <2>3, SumOfSame
<1> QED BY <1>1, <1>2, <1>3, <1>4, <1>5, <1>6, <1>7, <1>8, <1>9 DEF Columns

LEMMA RowsOfPart == ASSUME NEW L, LedgerRows(L), NEW T \in SUBSET L PROVE LedgerRows(T)
BY FS_Subset DEF LedgerRows

LEMMA BreakdownNat == ASSUME NEW L, LedgerRows(L), NEW c \in Columns PROVE Breakdown(L)[c] \in Nat
<1> DEFINE f == [r \in L |-> Adds(r.row)[c]]
<1>1. IsFiniteSet(L) /\ \A r \in L : f[r] \in Nat BY AddsNat DEF LedgerRows
<1>2. Breakdown(L)[c] = SumFunctionOnSet(f, L) BY BreakdownIsSum
<1> HIDE DEF f
<1> QED BY <1>1, <1>2, SumIsNat

LEMMA BreakdownOfPart ==
  ASSUME NEW L, LedgerRows(L), NEW T \in SUBSET L, NEW c \in Columns
  PROVE Breakdown(T)[c] = SumFunctionOnSet([r \in L |-> Adds(r.row)[c]], T)
<1> DEFINE f == [r \in L |-> Adds(r.row)[c]]
           g == [r \in T |-> Adds(r.row)[c]]
<1>1. LedgerRows(T) BY RowsOfPart
<1>2. IsFiniteSet(T) /\ \A r \in T : f[r] = g[r] /\ g[r] \in Nat BY <1>1, AddsNat DEF LedgerRows
<1>3. Breakdown(T)[c] = SumFunctionOnSet(g, T) BY <1>1, BreakdownIsSum
<1> HIDE DEF f, g
<1>4. SumFunctionOnSet(g, T) = SumFunctionOnSet(f, T) BY <1>2, SumSame
<1> QED BY <1>3, <1>4 DEF f

\* The rows of a part and the others make up all.
LEMMA BreakdownAdds ==
  ASSUME NEW L, LedgerRows(L), NEW T \in SUBSET L, NEW c \in Columns
  PROVE /\ Breakdown(L)[c] = Breakdown(T)[c] + Breakdown(L \ T)[c]
        /\ Breakdown(L)[c] \in Nat /\ Breakdown(T)[c] \in Nat /\ Breakdown(L \ T)[c] \in Nat
<1> DEFINE f == [r \in L |-> Adds(r.row)[c]]
<1>1. LedgerRows(T) /\ LedgerRows(L \ T) BY RowsOfPart
<1>2. IsFiniteSet(L) /\ \A r \in L : f[r] \in Nat BY AddsNat DEF LedgerRows
<1>3. /\ Breakdown(L)[c] = SumFunctionOnSet(f, L) /\ Breakdown(T)[c] = SumFunctionOnSet(f, T)
      /\ Breakdown(L \ T)[c] = SumFunctionOnSet(f, L \ T)
  BY BreakdownOfPart
<1> HIDE DEF f
<1>4. SumFunctionOnSet(f, L) = SumFunctionOnSet(f, T) + SumFunctionOnSet(f, L \ T) BY <1>2, SumSplit
<1> QED BY <1>1, <1>3, <1>4, BreakdownNat

LEMMA BreakdownOfNone == ASSUME NEW c \in Columns PROVE Breakdown({})[c] = 0
<1>1. LedgerRows({}) BY FS_EmptySet DEF LedgerRows
<1> QED BY <1>1, BreakdownIsSum, SumEmpty

\* The table by days of all rows.
LEMMA TableOfDays ==
  ASSUME NEW L, LedgerRows(L), NEW c \in Columns, NEW days, days = {r.row.day : r \in L}
  PROVE SumFunction([d \in days |-> Breakdown({r \in L : r.row.day = d})[c]]) = Breakdown(L)[c]
<1> DEFINE f == [r \in L |-> Adds(r.row)[c]]
           key == [r \in L |-> r.row.day]
           part == [d \in days |-> {r \in L : r.row.day = d}]
           sums == [d \in days |-> Breakdown({r \in L : r.row.day = d})[c]]
<1>1. IsFiniteSet(L) /\ \A r \in L : f[r] \in Nat BY AddsNat DEF LedgerRows
<1>2. IsFiniteSet(days) /\ \A r \in L : key[r] \in days
  <2>1. key = [r \in L |-> key[r]] /\ \A r \in L : key[r] \in days OBVIOUS
  <2>2. \A d \in days : \E r \in L : key[r] = d OBVIOUS
  <2> HIDE DEF key
  <2>3. key \in [L -> days] BY <2>1
  <2>4. key \in Surjection(L, days) BY <2>2, <2>3 DEF Surjection
  <2> QED BY <1>1, <2>1, <2>4, FS_Surjection
<1>3. Parts(part, key, L, days) BY <1>2 DEF Parts
<1>4. \A d \in days : sums[d] = Breakdown(part[d])[c] OBVIOUS
<1>5. ASSUME NEW d \in days PROVE sums[d] = SumFunctionOnSet(f, part[d])
  <2> HIDE DEF part, sums
  <2>1. Breakdown(part[d])[c] = SumFunctionOnSet(f, part[d]) BY <1>3, BreakdownOfPart DEF Parts
  <2> QED BY <1>4, <2>1
<1>6. Breakdown(L)[c] = SumFunctionOnSet(f, L) BY BreakdownIsSum
<1>7. SumFunction(sums) = SumFunctionOnSet(sums, days) BY DEF SumFunction
<1> HIDE DEF f, key, sums, part
<1>8. SumFunctionOnSet(sums, days) = SumFunctionOnSet(f, L) BY <1>1, <1>2, <1>3, <1>5, SumOfParts
<1> QED BY <1>6, <1>7, <1>8 DEF sums

\* Each request is forwarded, coalesced or replayed.
LEMMA BreakdownParts == ASSUME NEW L, LedgerRows(L) PROVE Partitioned(Breakdown(L))
<1> DEFINE up == {r \in L : ~r.row.hit /\ r.row.coalesced = 0}
           co == {r \in L : r.row.coalesced = 1}
           hit == {r \in L : r.row.hit}
           not == co \cup hit
<1>1. IsFiniteSet(L) /\ \A r \in L : GoodRow(r.row) BY DEF LedgerRows
<1>2. /\ L = up \cup not /\ up \cap not = {} /\ co \cap hit = {}
  BY <1>1 DEF GoodRow
<1>3. IsFiniteSet(up) /\ IsFiniteSet(co) /\ IsFiniteSet(hit) /\ IsFiniteSet(not)
  <2>1. up \in SUBSET L /\ co \in SUBSET L /\ hit \in SUBSET L /\ not \in SUBSET L OBVIOUS
  <2> QED BY <1>1, <2>1, FS_Subset
<1>4. Breakdown(L).coalesced = Cardinality(co)
  <2>1. \A r \in L : Adds(r.row)["coalesced"] = IF r \in co THEN 1 ELSE 0 BY <1>1 DEF Adds, GoodRow
  <2>2. "coalesced" \in Columns /\ co \in SUBSET L BY DEF Columns
  <2> HIDE DEF co
  <2>3. Cardinality(co) = SumFunctionOnSet([r \in L |-> Adds(r.row)["coalesced"]], L)
    BY <2>1, <2>2, CountOfThose
  <2>4. Breakdown(L)["coalesced"] = SumFunctionOnSet([r \in L |-> Adds(r.row)["coalesced"]], L)
    BY <2>2, BreakdownIsSum
  <2> QED BY <2>3, <2>4
<1>5. /\ Breakdown(L).requests = Cardinality(L) /\ Breakdown(L).upstream = Cardinality(up)
      /\ Breakdown(L).hits = Cardinality(hit)
  BY DEF Breakdown
<1>6. Cardinality({}) = 0 BY FS_EmptySet
<1> HIDE DEF up, co, hit
<1>7. Cardinality(not) = Cardinality(co) + Cardinality(hit) - 0 BY <1>2, <1>3, <1>6, FS_Union
<1> HIDE DEF not
<1>8. Cardinality(L) = Cardinality(up) + Cardinality(not) - 0 BY <1>2, <1>3, <1>6, FS_Union
<1>9. Cardinality(up) \in Nat /\ Cardinality(co) \in Nat /\ Cardinality(hit) \in Nat BY <1>3, FS_CardinalityType
<1> QED BY <1>4, <1>5, <1>7, <1>8, <1>9 DEF Partitioned

LEMMA MoreRows ==
  ASSUME NEW L, LedgerRows(L), NEW T \in SUBSET L
  PROVE /\ Breakdown(T)["requests"] <= Breakdown(L)["requests"]
        /\ Breakdown(T)["requests"] \in Nat /\ Breakdown(L)["requests"] \in Nat
<1> DEFINE c == "requests"
<1>1. c \in Columns BY DEF Columns
<1> HIDE DEF c
<1>2. /\ Breakdown(L)[c] = Breakdown(T)[c] + Breakdown(L \ T)[c]
      /\ Breakdown(L)[c] \in Nat /\ Breakdown(T)[c] \in Nat /\ Breakdown(L \ T)[c] \in Nat
  BY <1>1, BreakdownAdds
<1>3. Breakdown(T)[c] <= Breakdown(L)[c] BY <1>2
<1> QED BY <1>2, <1>3 DEF c

LEMMA BreakdownColumns == ASSUME NEW L PROVE DOMAIN Breakdown(L) = Columns
BY DEF Breakdown, Columns

OfModels(L, models) == {r \in L : r.row.model \in models}

\* A table: its rows are finitely many breakdowns.
IsTable(table) ==
  /\ IsFiniteSet(DOMAIN table) /\ \A k \in DOMAIN table : Partitioned(table[k])
  /\ \A k \in DOMAIN table : \A c \in Columns : table[k][c] \in Nat

LEMMA SumOverNat ==
  ASSUME NEW table, IsTable(table), NEW c \in Columns
  PROVE SumOver(table, c) \in Nat
<1> DEFINE f == [k \in DOMAIN table |-> table[k][c]]
           K == DOMAIN table
<1>1. \A k \in K : f[k] \in Nat BY DEF IsTable
<1>2. IsFiniteSet(K) BY DEF IsTable
<1>3. SumOver(table, c) = SumFunctionOnSet(f, K) BY DEF SumOver, SumFunction
<1> HIDE DEF f, K
<1> QED BY <1>1, <1>2, <1>3, SumIsNat

LEMMA SumOverNone == ASSUME NEW c PROVE SumOver(<<>>, c) = 0
<1> DEFINE f == [k \in DOMAIN <<>> |-> <<>>[k][c]]
<1>1. SumOver(<<>>, c) = SumFunctionOnSet(f, {}) BY DEF SumOver, SumFunction
<1> HIDE DEF f
<1> QED BY <1>1, SumEmpty

\* The table with one row more.
LongerBy(longer, table, m, b) ==
  /\ m \notin DOMAIN table /\ DOMAIN longer = {m} \cup DOMAIN table
  /\ longer[m] = b /\ \A k \in DOMAIN table : longer[k] = table[k]

SumsMore(longer, table, b) == \A c \in Columns : SumOver(longer, c) = SumOver(table, c) + b[c]

LEMMA SumOverMore ==
  ASSUME NEW table, IsTable(table), NEW m, NEW b, Partitioned(b), \A c \in Columns : b[c] \in Nat,
         NEW longer, LongerBy(longer, table, m, b)
  PROVE /\ IsTable(longer) /\ DOMAIN longer = {m} \cup DOMAIN table
        /\ SumsMore(longer, table, b)
<1> DEFINE K == DOMAIN table
<1>1. /\ m \notin K /\ DOMAIN longer = {m} \cup K /\ longer[m] = b
      /\ \A k \in K : longer[k] = table[k]
  BY DEF LongerBy
<1>2. IsFiniteSet({m} \cup K)
  <2>1. IsFiniteSet(K) BY DEF IsTable
  <2> HIDE DEF K
  <2>2. IsFiniteSet(K \cup {m}) BY <2>1, FS_AddElement
  <2>3. K \cup {m} = {m} \cup K OBVIOUS
  <2> QED BY <2>2, <2>3
<1>3. IsTable(longer) BY <1>1, <1>2 DEF IsTable
<1>4. ASSUME NEW c \in Columns PROVE SumOver(longer, c) = SumOver(table, c) + b[c]
  <2> DEFINE f == [k \in DOMAIN longer |-> longer[k][c]]
             g == [k \in DOMAIN table |-> table[k][c]]
             S == DOMAIN longer
  <2>1. /\ SumOver(longer, c) = SumFunctionOnSet(f, S)
        /\ SumOver(table, c) = SumFunctionOnSet(g, K)
    BY DEF SumOver, SumFunction
  <2>2. S = {m} \cup K /\ m \in S /\ S \ {m} = K BY <1>1
  <2>3. \A k \in S : f[k] \in Nat BY <1>3 DEF IsTable
  <2>4. f[m] = b[c] /\ \A k \in K : g[k] = f[k] /\ g[k] \in Nat BY <1>1 DEF IsTable
  <2>5. SumOver(table, c) \in Nat /\ b[c] \in Nat BY SumOverNat
  <2>6. IsFiniteSet(S) /\ IsFiniteSet(K) BY <1>2, <2>2 DEF IsTable
  <2> HIDE DEF f, g, K, S
  <2>7. SumFunctionOnSet(f, S) = f[m] + SumFunctionOnSet(f, S \ {m}) BY <2>2, <2>3, <2>6, SumLess
  <2>8. SumFunctionOnSet(g, K) = SumFunctionOnSet(f, K) BY <2>4, <2>6, SumSame
  <2>9. SumFunctionOnSet(f, S \ {m}) = SumOver(table, c) BY <2>1, <2>2, <2>8
  <2>10. SumOver(longer, c) = b[c] + SumOver(table, c)
    <3>1. f[m] = b[c] BY <2>4
    <3> QED BY <2>1, <2>7, <2>9, <3>1
  <2> QED BY <2>5, <2>10
<1> QED BY <1>1, <1>3, <1>4 DEF SumsMore

-----------------------------------------------------------------------------
\* If fewer days are listed than may be, all are.
LEMMA AllDaysListed ==
  ASSUME NEW days, days \in SUBSET Nat, IsFiniteSet(days), NEW max \in Nat,
         NEW listed, listed = {d \in days : Cardinality({e \in days : e > d}) < max},
         Cardinality(listed) < max
  PROVE listed = days
<1> SUFFICES ASSUME NEW d0 \in days, d0 \notin listed PROVE FALSE
  OBVIOUS
<1> DEFINE Others == {d \in days : d \notin listed}
           Later(d) == {e \in days : e > d}
<1>1. \A d \in days : IsFiniteSet(Later(d)) /\ Cardinality(Later(d)) \in Nat
  <2> SUFFICES ASSUME NEW d \in days PROVE IsFiniteSet(Later(d)) /\ Cardinality(Later(d)) \in Nat
    OBVIOUS
  <2>1. Later(d) \in SUBSET days OBVIOUS
  <2> QED BY <2>1, FS_Subset, FS_CardinalityType
<1>2. ASSUME NEW d \in Others PROVE Cardinality(Later(d)) >= max /\ d \in Nat
  <2>1. d \in days /\ d \notin listed OBVIOUS
  <2>2. ~(Cardinality(Later(d)) < max) BY <2>1
  <2> HIDE DEF Later
  <2> QED BY <1>1, <2>1, <2>2
<1>3. \E d \in Others : Later(d) \subseteq listed
  <2> DEFINE G == {s \in SUBSET days : s # {} => \E d \in s : \A e \in s : e <= d}
  <2>1. {} \in G OBVIOUS
  <2>2. ASSUME NEW s \in SUBSET days, s # {}, \A x \in s : s \ {x} \in G PROVE s \in G
    <3>1. PICK x \in s : TRUE BY <2>2
    <3>2. CASE s \ {x} = {}
      <4>1. \A e \in s : e <= x BY <3>2
      <4> QED BY <4>1
    <3>3. CASE s \ {x} # {}
      <4>1. PICK d \in s \ {x} : \A e \in s \ {x} : e <= d BY <2>2, <3>3
      <4>2. d \in Nat /\ x \in Nat OBVIOUS
      <4>3. CASE x <= d BY <4>1, <4>3
      <4>4. CASE x > d
        <5>1. \A e \in s : e \in Nat /\ (e = x \/ e <= d) BY <4>1
        <5>2. \A e \in s : e <= x BY <4>2, <4>4, <5>1
        <5> QED BY <5>2
      <4> QED BY <4>2, <4>3, <4>4
    <3> QED BY <3>2, <3>3
  <2>3. G = SUBSET days
    <3> HIDE DEF G
    <3>1. G \in SUBSET (SUBSET days) BY DEF G
    <3> QED BY <2>1, <2>2, <3>1, AllSubsets
  <2>4. Others \in SUBSET days /\ Others # {} OBVIOUS
  <2> HIDE DEF Others
  <2>5. PICK d \in Others : \A e \in Others : e <= d BY <2>3, <2>4
  <2>6. ASSUME NEW e \in Later(d) PROVE e \in listed
    <3>1. e \in days /\ e > d /\ e \in Nat /\ d \in Nat BY <2>4
    <3>2. e \notin Others BY <2>5, <3>1
    <3> QED BY <3>1, <3>2 DEF Others
  <2> QED BY <2>6
<1>4. PICK d \in Others : Later(d) \subseteq listed BY <1>3
<1>5. IsFiniteSet(listed)
  <2>1. listed \in SUBSET days OBVIOUS
  <2> QED BY <2>1, FS_Subset
<1> HIDE DEF Others, Later
<1>6. Cardinality(Later(d)) <= Cardinality(listed) BY <1>4, <1>5, FS_Subset
<1>7. Cardinality(listed) \in Nat /\ Cardinality(Later(d)) \in Nat BY <1>1, <1>5, FS_CardinalityType DEF Others
<1> QED BY <1>2, <1>4, <1>6, <1>7

CallKnown(c) ==
  /\ c = [call |-> c.call, at |-> c.at, row |-> c.row] /\ c.call \in Calls
  /\ c.at = "answered" => GoodRow(c.row)

IsReport(s) ==
  s = [scene |-> s.scene, pc |-> s.pc, todo |-> s.todo, total |-> s.total, by_model |-> s.by_model,
       by_day |-> s.by_day, entries |-> s.entries, changed |-> s.changed]

\* The rows that the table of models has still to count.
Uncounted(s, L) == IF s.pc = "models" THEN L ELSE OfModels(L, s.todo)

Counted(s, L) == OfModels(L, DOMAIN s.by_model)

\* The total against what is counted by model and what is still to count, and the
\* counted against the rows there are: while rows only come the later number is the
\* greater, while they only go the smaller.
Balance(s, L) ==
  /\ "delete" \notin s.changed =>
       /\ s.total.requests <= SumOver(s.by_model, "requests") + Breakdown(Uncounted(s, L)).requests
       /\ SumOver(s.by_model, "requests") <= Breakdown(Counted(s, L)).requests
  /\ "insert" \notin s.changed =>
       /\ s.total.requests >= SumOver(s.by_model, "requests") + Breakdown(Uncounted(s, L)).requests
       /\ SumOver(s.by_model, "requests") >= Breakdown(Counted(s, L)).requests
       /\ L = Uncounted(s, L) \cup Counted(s, L)
  /\ s.changed = {} =>
       \A c \in Columns : /\ s.total[c] = SumOver(s.by_model, c) + Breakdown(Uncounted(s, L))[c]
                          /\ SumOver(s.by_model, c) = Breakdown(Counted(s, L))[c]

AllNamed(s) == "" \notin DOMAIN s.by_model

\* A report of which the total is taken and the days are not.
HalfDone(s, L) ==
  /\ s.by_day = <<>>
  /\ s.pc = "models" => s.by_model = <<>> /\ s.todo = {}
  /\ s.pc = "days" => s.todo = {}
  /\ Partitioned(s.total) /\ DOMAIN s.total = Columns /\ \A c \in Columns : s.total[c] \in Nat
  /\ IsTable(s.by_model) /\ s.todo \cap DOMAIN s.by_model = {}
  /\ AllNamed(s) => Balance(s, L)

UsageInv ==
  /\ today \in Nat /\ LedgerRows(ledger)
  /\ \A i \in DOMAIN calls : CallKnown(calls[i])
  /\ stats = <<>> => DOMAIN calls = {}
  /\ stats # <<>> =>
       /\ IsReport(stats)
       /\ stats.pc \in {"total", "models", "model", "days", "entries", "done", "failed"}
       /\ stats.pc = "total" => /\ stats.by_model = <<>> /\ stats.by_day = <<>> /\ stats.todo = {}
                                /\ stats.changed = {}
       /\ stats.pc \in {"models", "model", "days"} => HalfDone(stats, ledger)
       /\ stats.pc \in {"entries", "done"} => TablesAgree

LEMMA InitUsage == RequestInit => UsageInv
<1>1. LedgerRows({}) BY FS_EmptySet DEF LedgerRows
<1>2. UsageIdle => UsageInv BY <1>1 DEF UsageIdle, UsageInv
<1>3. ASSUME UsageInit PROVE UsageInv
  <2>1. PICK s \in UsageScenes :
          /\ calls = [i \in DOMAIN s.calls |-> [call |-> s.calls[i], at |-> "asked", row |-> NoRow]]
          /\ stats = [scene |-> s, pc |-> "total", todo |-> {}, total |-> <<>>, by_model |-> <<>>,
                      by_day |-> <<>>, entries |-> {}, changed |-> {}]
    BY <1>3 DEF UsageInit
  <2>2. ledger = {} /\ today = 0 BY <1>3 DEF UsageInit
  <2>3. s.calls \in Seq(Calls) BY UsageAssumption DEF UsageAssumption
  <2>4. \A i \in DOMAIN s.calls : s.calls[i] \in Calls BY <2>3
  <2>5. \A i \in DOMAIN calls : CallKnown(calls[i]) BY <2>1, <2>4 DEF CallKnown
  <2>6. /\ IsReport(stats) /\ stats.pc = "total" /\ stats.by_model = <<>> /\ stats.by_day = <<>>
        /\ stats.todo = {} /\ stats.changed = {} /\ stats # <<>>
    BY <2>1 DEF IsReport
  <2> QED BY <1>1, <2>2, <2>5, <2>6 DEF UsageInv
<1> QED BY <1>2, <1>3 DEF RequestInit

-----------------------------------------------------------------------------
LEMMA GoodDraft ==
  ASSUME today \in Nat, NEW call \in Calls, NEW how PROVE GoodRow(Draft(call, how))
<1>1. call.tokens \in Nat /\ call.raw \in Nat /\ call.reduced \in Nat /\ call.priced \in BOOLEAN
  BY DEF Calls
<1> QED BY <1>1 DEF GoodRow, Draft

LEMMA CallSet ==
  ASSUME NEW c, c = [call |-> c.call, at |-> c.at, row |-> c.row], NEW at, NEW row
  PROVE [c EXCEPT !.at = at, !.row = row] = [call |-> c.call, at |-> at, row |-> row]
<1>1. ASSUME NEW q, q = [c EXCEPT !.at = at, !.row = row]
      PROVE q = [call |-> c.call, at |-> at, row |-> row]
  BY <1>1
<1> QED BY <1>1, Zenon

LEMMA AnswerCallStep == ASSUME UsageInv, NEW i, AnswerCall(i) PROVE UsageInv'
<1>1. /\ i \in DOMAIN calls /\ ledger' = ledger /\ today' = today /\ stats' = stats
  BY DEF AnswerCall, CallAt
<1>2. PICK how : calls' = [calls EXCEPT ![i].at = "answered", ![i].row = Draft(calls[i].call, how)]
  BY DEF AnswerCall
<1> DEFINE row == Draft(calls[i].call, how)
           new == [calls[i] EXCEPT !.at = "answered", !.row = row]
<1>3. GoodRow(row) BY <1>1, GoodDraft DEF UsageInv, CallKnown
<1> HIDE DEF row
<1>4. new = [call |-> calls[i].call, at |-> "answered", row |-> row]
  <2>1. calls[i] = [call |-> calls[i].call, at |-> calls[i].at, row |-> calls[i].row]
    BY <1>1 DEF UsageInv, CallKnown
  <2> QED BY <2>1, CallSet, Zenon
<1>5. CallKnown(new) BY <1>1, <1>3, <1>4 DEF UsageInv, CallKnown
<1>6. DOMAIN calls' = DOMAIN calls /\ \A j \in DOMAIN calls : calls'[j] = IF j = i THEN new ELSE calls[j]
  BY <1>1, <1>2 DEF row
<1> HIDE DEF new
<1>7. \A j \in DOMAIN calls' : CallKnown(calls'[j]) BY <1>5, <1>6 DEF UsageInv
<1>8. TablesAgree' = TablesAgree BY <1>1 DEF TablesAgree, Complete
<1> QED BY <1>1, <1>6, <1>7, <1>8 DEF UsageInv

\* A call moves on without a new row.
LEMMA CallMoves ==
  ASSUME UsageInv, NEW i \in DOMAIN calls, NEW at, at # "answered", calls' = [calls EXCEPT ![i].at = at]
  PROVE DOMAIN calls' = DOMAIN calls /\ \A j \in DOMAIN calls' : CallKnown(calls'[j])
<1> DEFINE new == [calls[i] EXCEPT !.at = at]
<1>1. new = [call |-> calls[i].call, at |-> at, row |-> calls[i].row] BY DEF UsageInv, CallKnown
<1>2. CallKnown(new) BY <1>1 DEF UsageInv, CallKnown
<1>3. DOMAIN calls' = DOMAIN calls /\ \A j \in DOMAIN calls : calls'[j] = IF j = i THEN new ELSE calls[j]
  OBVIOUS
<1> HIDE DEF new
<1> QED BY <1>2, <1>3 DEF UsageInv

LEMMA RecordIsLostStep == ASSUME UsageInv, NEW i, RecordIsLost(i) PROVE UsageInv'
<1>1. /\ i \in DOMAIN calls /\ ledger' = ledger /\ today' = today /\ stats' = stats
      /\ calls' = [calls EXCEPT ![i].at = "lost"]
  BY DEF RecordIsLost, CallAt
<1>2. DOMAIN calls' = DOMAIN calls /\ \A j \in DOMAIN calls' : CallKnown(calls'[j]) BY <1>1, CallMoves
<1>3. TablesAgree' = TablesAgree BY <1>1 DEF TablesAgree, Complete
<1> QED BY <1>1, <1>2, <1>3 DEF UsageInv

\* LedgerRows that come or go while the command counts.
LEMMA DisturbedReport ==
  ASSUME UsageInv, stats # <<>>, NEW what, Disturbed(what)
  PROVE /\ IsReport(stats') /\ stats' # <<>>
        /\ stats'.pc = stats.pc /\ stats'.todo = stats.todo /\ stats'.total = stats.total
        /\ stats'.by_model = stats.by_model /\ stats'.by_day = stats.by_day
        /\ stats'.changed = IF Counting THEN stats.changed \cup {what} ELSE stats.changed
<1>1. CASE Counting
  <2>1. stats' = [stats EXCEPT !.changed = @ \cup {what}] BY <1>1 DEF Disturbed
  <2>2. IsReport(stats) BY DEF UsageInv
  <2>3. stats' = [scene |-> stats.scene, pc |-> stats.pc, todo |-> stats.todo, total |-> stats.total,
                  by_model |-> stats.by_model, by_day |-> stats.by_day, entries |-> stats.entries,
                  changed |-> stats.changed \cup {what}]
    BY <2>1, <2>2 DEF IsReport
  <2> QED BY <1>1, <2>3 DEF IsReport
<1>2. CASE ~Counting
  <2>1. stats' = stats BY <1>2 DEF Disturbed
  <2> QED BY <1>2, <2>1 DEF UsageInv
<1> QED BY <1>1, <1>2

LEMMA BalanceOfMore ==
  ASSUME NEW s, NEW t, NEW L, NEW M, LedgerRows(M), L \in SUBSET M, HalfDone(s, L),
         t.pc = s.pc, t.todo = s.todo, t.total = s.total, t.by_model = s.by_model, t.by_day = s.by_day,
         t.changed = s.changed \cup {"insert"}
  PROVE HalfDone(t, M)
<1>1. ASSUME Balance(s, L) PROVE Balance(t, M)
  <2> DEFINE a == SumOver(s.by_model, "requests")
             u == Breakdown(Uncounted(s, L)).requests
             v == Breakdown(Uncounted(t, M)).requests
             k == Breakdown(Counted(s, L)).requests
             l == Breakdown(Counted(t, M)).requests
  <2>1. Uncounted(s, L) \in SUBSET Uncounted(t, M) /\ Counted(s, L) \in SUBSET Counted(t, M)
    BY DEF Uncounted, Counted, OfModels
  <2>2. Uncounted(t, M) \in SUBSET M /\ Counted(t, M) \in SUBSET M BY DEF Uncounted, Counted, OfModels
  <2>3. LedgerRows(Uncounted(t, M)) /\ LedgerRows(Counted(t, M)) BY <2>2, RowsOfPart
  <2>4. u <= v /\ u \in Nat /\ v \in Nat /\ k <= l /\ k \in Nat /\ l \in Nat BY <2>1, <2>3, MoreRows
  <2>5. a \in Nat /\ s.total.requests \in Nat
    <3>1. "requests" \in Columns BY DEF Columns
    <3> QED BY <3>1, SumOverNat DEF HalfDone
  <2>6. "delete" \notin t.changed => s.total.requests <= a + u /\ a <= k BY <1>1 DEF Balance
  <2> HIDE DEF a, u, v, k, l
  <2>7. "delete" \notin t.changed => s.total.requests <= a + v /\ a <= l BY <2>4, <2>5, <2>6
  <2>8. "insert" \in t.changed OBVIOUS
  <2> QED BY <2>7, <2>8 DEF Balance, a, v, l
<1> QED BY <1>1 DEF HalfDone, AllNamed

LEMMA BalanceOfLess ==
  ASSUME NEW s, NEW t, NEW L, LedgerRows(L), NEW M \in SUBSET L, HalfDone(s, L),
         t.pc = s.pc, t.todo = s.todo, t.total = s.total, t.by_model = s.by_model, t.by_day = s.by_day,
         t.changed = s.changed \cup {"delete"}
  PROVE HalfDone(t, M)
<1>1. ASSUME Balance(s, L) PROVE Balance(t, M)
  <2> DEFINE a == SumOver(s.by_model, "requests")
             u == Breakdown(Uncounted(s, L)).requests
             v == Breakdown(Uncounted(t, M)).requests
             k == Breakdown(Counted(s, L)).requests
             l == Breakdown(Counted(t, M)).requests
  <2>1. Uncounted(t, M) \in SUBSET Uncounted(s, L) /\ Counted(t, M) \in SUBSET Counted(s, L)
    BY DEF Uncounted, Counted, OfModels
  <2>2. Uncounted(s, L) \in SUBSET L /\ Counted(s, L) \in SUBSET L BY DEF Uncounted, Counted, OfModels
  <2>3. LedgerRows(Uncounted(s, L)) /\ LedgerRows(Counted(s, L)) BY <2>2, RowsOfPart
  <2>4. v <= u /\ u \in Nat /\ v \in Nat /\ l <= k /\ k \in Nat /\ l \in Nat BY <2>1, <2>3, MoreRows
  <2>5. a \in Nat /\ s.total.requests \in Nat
    <3>1. "requests" \in Columns BY DEF Columns
    <3> QED BY <3>1, SumOverNat DEF HalfDone
  <2>6. "insert" \notin t.changed =>
          s.total.requests >= a + u /\ a >= k /\ L = Uncounted(s, L) \cup Counted(s, L)
    BY <1>1 DEF Balance
  <2>7. L = Uncounted(s, L) \cup Counted(s, L) => M = Uncounted(t, M) \cup Counted(t, M)
    BY DEF Uncounted, Counted, OfModels
  <2> HIDE DEF a, u, v, k, l
  <2>8. "insert" \notin t.changed => s.total.requests >= a + v /\ a >= l BY <2>4, <2>5, <2>6
  <2>9. "delete" \in t.changed OBVIOUS
  <2> QED BY <2>6, <2>7, <2>8, <2>9 DEF Balance, a, v, l
<1> QED BY <1>1 DEF HalfDone, AllNamed

\* What was found of the tables stays so.
LEMMA AgreeStays ==
  ASSUME TablesAgree, stats'.total = stats.total, stats'.by_model = stats.by_model,
         stats'.by_day = stats.by_day, stats.changed \subseteq stats'.changed
  PROVE TablesAgree'
BY DEF TablesAgree, Complete

LEMMA RecordRequestStep == ASSUME UsageInv, NEW i, RecordRequest(i) PROVE UsageInv'
<1>1. /\ i \in DOMAIN calls /\ calls[i].at = "answered" /\ today' = today
      /\ calls' = [calls EXCEPT ![i].at = "recorded"] /\ Disturbed("insert")
  BY DEF RecordRequest, CallAt
<1>2. PICK id : ledger' = ledger \cup {[id |-> id, row |-> calls[i].row]} BY DEF RecordRequest
<1>3. DOMAIN calls' = DOMAIN calls /\ \A j \in DOMAIN calls' : CallKnown(calls'[j]) BY <1>1, CallMoves
<1>4. stats # <<>> BY <1>1 DEF UsageInv
<1>5. LedgerRows(ledger')
  <2>1. GoodRow(calls[i].row) BY <1>1 DEF UsageInv, CallKnown
  <2> DEFINE r == [id |-> id, row |-> calls[i].row]
  <2>2. r.row = calls[i].row OBVIOUS
  <2> HIDE DEF r
  <2>3. ledger' = ledger \cup {r} BY <1>2 DEF r
  <2>4. IsFiniteSet(ledger \cup {r}) BY FS_AddElement DEF UsageInv, LedgerRows
  <2> QED BY <2>1, <2>2, <2>3, <2>4 DEF UsageInv, LedgerRows
<1>6. /\ IsReport(stats') /\ stats' # <<>>
      /\ stats'.pc = stats.pc /\ stats'.todo = stats.todo /\ stats'.total = stats.total
      /\ stats'.by_model = stats.by_model /\ stats'.by_day = stats.by_day
      /\ stats'.changed = IF Counting THEN stats.changed \cup {"insert"} ELSE stats.changed
  BY <1>1, <1>4, DisturbedReport
<1>7. stats.pc \in {"models", "model", "days"} => HalfDone(stats', ledger')
  <2> SUFFICES ASSUME stats.pc \in {"models", "model", "days"} PROVE HalfDone(stats', ledger')
    OBVIOUS
  <2>1. HalfDone(stats, ledger) /\ Counting BY <1>4 DEF UsageInv, Counting
  <2>2. ledger \in SUBSET ledger' BY <1>2
  <2> QED BY <1>5, <1>6, <2>1, <2>2, BalanceOfMore
<1>8. stats.pc \in {"entries", "done"} => TablesAgree' BY <1>4, <1>6, AgreeStays DEF UsageInv
<1>9. stats.pc = "total" => ~Counting BY DEF Counting
<1> QED BY <1>1, <1>3, <1>4, <1>5, <1>6, <1>7, <1>8, <1>9 DEF UsageInv

LEMMA NextDayStep == ASSUME UsageInv, NextDay PROVE UsageInv'
<1>1. ledger' = ledger /\ calls' = calls /\ stats' = stats /\ today' \in Nat BY DEF NextDay, UsageInv
<1>2. TablesAgree' = TablesAgree BY <1>1 DEF TablesAgree, Complete
<1> QED BY <1>1, <1>2 DEF UsageInv

LEMMA DeleteOldStep == ASSUME UsageInv, DeleteOld PROVE UsageInv'
<1>1. stats # <<>> /\ calls' = calls /\ today' = today /\ Disturbed("delete") BY DEF DeleteOld
<1>2. ledger' \in SUBSET ledger BY DEF DeleteOld
<1>3. LedgerRows(ledger') BY <1>2, RowsOfPart DEF UsageInv
<1>4. /\ IsReport(stats') /\ stats' # <<>>
      /\ stats'.pc = stats.pc /\ stats'.todo = stats.todo /\ stats'.total = stats.total
      /\ stats'.by_model = stats.by_model /\ stats'.by_day = stats.by_day
      /\ stats'.changed = IF Counting THEN stats.changed \cup {"delete"} ELSE stats.changed
  BY <1>1, DisturbedReport
<1>5. stats.pc \in {"models", "model", "days"} => HalfDone(stats', ledger')
  <2> SUFFICES ASSUME stats.pc \in {"models", "model", "days"} PROVE HalfDone(stats', ledger')
    OBVIOUS
  <2>1. HalfDone(stats, ledger) /\ Counting BY <1>1 DEF UsageInv, Counting
  <2>2. LedgerRows(ledger) BY DEF UsageInv
  <2> QED BY <1>2, <1>4, <2>1, <2>2, BalanceOfLess
<1>6. stats.pc \in {"entries", "done"} => TablesAgree' BY <1>1, <1>4, AgreeStays DEF UsageInv
<1>7. stats.pc = "total" => ~Counting BY DEF Counting
<1> QED BY <1>1, <1>3, <1>4, <1>5, <1>6, <1>7 DEF UsageInv

\* The part of a report that the query of the models moves on.
LEMMA QueryTotalStep == ASSUME UsageInv, QueryTotal PROVE UsageInv'
<1>1. /\ stats # <<>> /\ stats.pc = "total" /\ ledger' = ledger /\ calls' = calls /\ today' = today
      /\ stats' = [stats EXCEPT !.pc = "models", !.total = Breakdown(ledger)]
  BY DEF QueryTotal, Query
<1> DEFINE b == Breakdown(ledger)
<1>2. /\ Partitioned(b) /\ DOMAIN b = Columns /\ \A c \in Columns : b[c] \in Nat
  BY BreakdownParts, BreakdownColumns, BreakdownNat DEF UsageInv
<1>3. /\ IsReport(stats) /\ stats.by_model = <<>> /\ stats.by_day = <<>> /\ stats.todo = {}
      /\ stats.changed = {}
  BY <1>1 DEF UsageInv
<1> HIDE DEF b
<1>4. stats' = [scene |-> stats.scene, pc |-> "models", todo |-> stats.todo, total |-> b,
                by_model |-> stats.by_model, by_day |-> stats.by_day, entries |-> stats.entries,
                changed |-> stats.changed]
  BY <1>1, <1>3 DEF IsReport, b
<1>5. /\ stats'.pc = "models" /\ stats'.todo = {} /\ stats'.total = b /\ stats'.by_model = <<>>
      /\ stats'.by_day = <<>> /\ stats'.changed = {} /\ IsReport(stats') /\ stats' # <<>>
  BY <1>3, <1>4 DEF IsReport
<1>6. DOMAIN <<>> = {} /\ IsTable(<<>>) BY FS_EmptySet DEF IsTable
<1>7. /\ Counted(stats', ledger) = {} /\ Uncounted(stats', ledger) = ledger
  BY <1>5, <1>6 DEF Counted, Uncounted, OfModels
<1>8. \A c \in Columns : /\ SumOver(stats'.by_model, c) = 0 /\ Breakdown(Counted(stats', ledger))[c] = 0
                         /\ Breakdown(Uncounted(stats', ledger))[c] = b[c]
  BY <1>5, <1>7, SumOverNone, BreakdownOfNone DEF b
<1>9. Balance(stats', ledger)
  <2> DEFINE c == "requests"
  <2>1. c \in Columns BY DEF Columns
  <2> HIDE DEF c
  <2>2. \A d \in Columns : /\ stats'.total[d] = SumOver(stats'.by_model, d) + Breakdown(Uncounted(stats', ledger))[d]
                           /\ SumOver(stats'.by_model, d) = Breakdown(Counted(stats', ledger))[d]
    BY <1>2, <1>5, <1>8
  <2>3. /\ stats'.total[c] <= SumOver(stats'.by_model, c) + Breakdown(Uncounted(stats', ledger))[c]
        /\ SumOver(stats'.by_model, c) <= Breakdown(Counted(stats', ledger))[c]
        /\ stats'.total[c] >= SumOver(stats'.by_model, c) + Breakdown(Uncounted(stats', ledger))[c]
        /\ SumOver(stats'.by_model, c) >= Breakdown(Counted(stats', ledger))[c]
    BY <1>2, <1>5, <1>8, <2>1
  <2>4. ledger = Uncounted(stats', ledger) \cup Counted(stats', ledger) BY <1>7
  <2> QED BY <2>2, <2>3, <2>4 DEF Balance, c
<1>10. HalfDone(stats', ledger) BY <1>2, <1>5, <1>6, <1>9 DEF HalfDone
<1> QED BY <1>1, <1>5, <1>10 DEF UsageInv

\* A step that leaves the sums as they are.
LEMMA SameBalance ==
  ASSUME NEW s, NEW t, NEW L, Balance(s, L), t.total = s.total, t.by_model = s.by_model,
         t.changed = s.changed, Uncounted(t, L) = Uncounted(s, L)
  PROVE Balance(t, L)
<1>1. Counted(t, L) = Counted(s, L) BY DEF Counted
<1> QED BY <1>1 DEF Balance

LEMMA QueryModelsStep == ASSUME UsageInv, QueryModels PROVE UsageInv'
<1> DEFINE todo == {r.row.model : r \in ledger}
<1>1. /\ stats # <<>> /\ stats.pc = "models" /\ ledger' = ledger /\ calls' = calls /\ today' = today
      /\ stats' = [stats EXCEPT !.pc = "model", !.todo = todo]
  BY DEF QueryModels, Query
<1>2. IsReport(stats) /\ HalfDone(stats, ledger) BY <1>1 DEF UsageInv
<1>3. OfModels(ledger, todo) = ledger BY DEF OfModels
<1> HIDE DEF todo
<1>4. stats' = [scene |-> stats.scene, pc |-> "model", todo |-> todo, total |-> stats.total,
                by_model |-> stats.by_model, by_day |-> stats.by_day, entries |-> stats.entries,
                changed |-> stats.changed]
  BY <1>1, <1>2 DEF IsReport
<1>5. /\ stats'.pc = "model" /\ stats'.todo = todo /\ stats'.total = stats.total
      /\ stats'.by_model = stats.by_model /\ stats'.by_day = stats.by_day /\ stats'.changed = stats.changed
      /\ IsReport(stats') /\ stats' # <<>>
  BY <1>4 DEF IsReport
<1>6. Uncounted(stats', ledger) = Uncounted(stats, ledger) BY <1>1, <1>3, <1>5 DEF Uncounted
<1>7. DOMAIN stats.by_model = {}
  <2>1. DOMAIN <<>> = {} OBVIOUS
  <2> QED BY <1>1, <1>2, <2>1 DEF HalfDone
<1>8. AllNamed(stats') <=> AllNamed(stats) BY <1>5 DEF AllNamed
<1>9. Balance(stats, ledger) => Balance(stats', ledger) BY <1>5, <1>6, SameBalance
<1>10. HalfDone(stats', ledger) BY <1>2, <1>5, <1>7, <1>8, <1>9 DEF HalfDone
<1> QED BY <1>1, <1>5, <1>10 DEF UsageInv

\* The rows "mine" move from those to count, u, to those counted, k.
MoveOver(mine, L, u, v, k, l) ==
  /\ u \in SUBSET L /\ l \in SUBSET L
  /\ mine \in SUBSET u /\ v = u \ mine
  /\ mine \in SUBSET l /\ k = l \ mine

\* A sum of t against n counted and u to count, and n against those there are of them, k.
StillCompares(t, n, u, k, n1, u1, k1) ==
  /\ t <= n + u => t <= n1 + u1
  /\ t >= n + u => t >= n1 + u1
  /\ t = n + u => t = n1 + u1
  /\ n <= k => n1 <= k1
  /\ n >= k => n1 >= k1
  /\ n = k => n1 = k1

LEMMA MovesOver ==
  ASSUME NEW L, LedgerRows(L), NEW mine, NEW u, NEW v, NEW k, NEW l, MoveOver(mine, L, u, v, k, l),
         NEW c \in Columns, NEW t \in Nat, NEW n \in Nat, NEW n1, n1 = n + Breakdown(mine)[c]
  PROVE StillCompares(t, n, Breakdown(u)[c], Breakdown(k)[c], n1, Breakdown(v)[c], Breakdown(l)[c])
<1>0. /\ u \in SUBSET L /\ mine \in SUBSET u /\ v = u \ mine
      /\ l \in SUBSET L /\ mine \in SUBSET l /\ k = l \ mine
  BY DEF MoveOver
<1>1. LedgerRows(u) /\ LedgerRows(l) BY <1>0, RowsOfPart
<1>2. /\ Breakdown(u)[c] = Breakdown(mine)[c] + Breakdown(u \ mine)[c]
      /\ Breakdown(u)[c] \in Nat /\ Breakdown(mine)[c] \in Nat /\ Breakdown(u \ mine)[c] \in Nat
  BY <1>0, <1>1, BreakdownAdds
<1>3. /\ Breakdown(l)[c] = Breakdown(mine)[c] + Breakdown(l \ mine)[c]
      /\ Breakdown(l)[c] \in Nat /\ Breakdown(l \ mine)[c] \in Nat
  BY <1>0, <1>1, BreakdownAdds
<1> DEFINE bu == Breakdown(u)[c]
           bv == Breakdown(v)[c]
           bk == Breakdown(k)[c]
           bl == Breakdown(l)[c]
           bm == Breakdown(mine)[c]
<1>4. bu = bm + bv /\ bl = bm + bk /\ n1 = n + bm BY <1>0, <1>2, <1>3
<1>5. bu \in Nat /\ bv \in Nat /\ bk \in Nat /\ bl \in Nat /\ bm \in Nat BY <1>0, <1>2, <1>3
<1> HIDE DEF bu, bv, bk, bl, bm
<1>6. StillCompares(t, n, bu, bk, n1, bv, bl) BY <1>4, <1>5 DEF StillCompares
<1> QED BY <1>6 DEF bu, bv, bk, bl

\* The next model of a report: s before, t after.
NextModel(s, t, L, m, mine) ==
  /\ s.pc = "model" /\ m \in s.todo /\ mine \in SUBSET L /\ (m # "" => mine = OfModels(L, {m}))
  /\ t.pc = "model" /\ t.todo = s.todo \ {m} /\ t.total = s.total /\ t.by_day = s.by_day
  /\ t.changed = s.changed
  /\ LongerBy(t.by_model, s.by_model, m, Breakdown(mine))

LEMMA ModelMovesOver ==
  ASSUME NEW s, NEW t, NEW L, NEW m, NEW mine, HalfDone(s, L), NextModel(s, t, L, m, mine), m # ""
  PROVE MoveOver(mine, L, Uncounted(s, L), Uncounted(t, L), Counted(s, L), Counted(t, L))
<1> DEFINE old == DOMAIN s.by_model
<1>1. /\ m \in s.todo /\ m \notin old /\ mine = OfModels(L, {m})
      /\ t.todo = s.todo \ {m} /\ DOMAIN t.by_model = {m} \cup old
  BY DEF NextModel, LongerBy
<1>2. /\ Uncounted(s, L) = OfModels(L, s.todo) /\ Uncounted(t, L) = OfModels(L, s.todo \ {m})
      /\ Counted(s, L) = OfModels(L, old) /\ Counted(t, L) = OfModels(L, {m} \cup old)
  BY <1>1 DEF Uncounted, Counted, NextModel
<1> HIDE DEF old
<1>3. OfModels(L, {m}) \in SUBSET OfModels(L, s.todo) /\ OfModels(L, s.todo \ {m}) = OfModels(L, s.todo) \ OfModels(L, {m})
  BY <1>1 DEF OfModels
<1>4. OfModels(L, {m}) \in SUBSET OfModels(L, {m} \cup old) /\ OfModels(L, old) = OfModels(L, {m} \cup old) \ OfModels(L, {m})
  BY <1>1 DEF OfModels
<1>6. OfModels(L, s.todo) \in SUBSET L /\ OfModels(L, {m} \cup old) \in SUBSET L BY DEF OfModels
<1>7. MoveOver(OfModels(L, {m}), L, OfModels(L, s.todo), OfModels(L, s.todo \ {m}), OfModels(L, old), OfModels(L, {m} \cup old))
  BY <1>3, <1>4, <1>6 DEF MoveOver
<1> QED BY <1>1, <1>2, <1>7

\* The balance, with each of its numbers named.
BalanceOf(changed, T, n, u, k, union, L) ==
  /\ "delete" \notin changed => T["requests"] <= n["requests"] + u["requests"] /\ n["requests"] <= k["requests"]
  /\ "insert" \notin changed =>
       T["requests"] >= n["requests"] + u["requests"] /\ n["requests"] >= k["requests"] /\ L = union
  /\ changed = {} => \A c \in Columns : T[c] = n[c] + u[c] /\ n[c] = k[c]

ColumnSums(table) == [c \in Columns |-> SumOver(table, c)]

LEMMA BalanceIs ==
  ASSUME NEW s, NEW L
  PROVE Balance(s, L) <=> BalanceOf(s.changed, s.total, ColumnSums(s.by_model), Breakdown(Uncounted(s, L)),
                                    Breakdown(Counted(s, L)), Uncounted(s, L) \cup Counted(s, L), L)
<1>1. "requests" \in Columns BY DEF Columns
<1>2. \A c \in Columns : ColumnSums(s.by_model)[c] = SumOver(s.by_model, c) BY DEF ColumnSums
<1> QED BY <1>1, <1>2 DEF Balance, BalanceOf

LEMMA AlikeBalance ==
  ASSUME NEW changed, NEW T, NEW n, NEW u, NEW k, NEW both, NEW L, BalanceOf(changed, T, n, u, k, both, L),
         NEW n1, NEW u1, NEW k1,
         \A c \in Columns : StillCompares(T[c], n[c], u[c], k[c], n1[c], u1[c], k1[c])
  PROVE BalanceOf(changed, T, n1, u1, k1, both, L)
<1>1. "requests" \in Columns BY DEF Columns
<1>2. StillCompares(T["requests"], n["requests"], u["requests"], k["requests"], n1["requests"], u1["requests"], k1["requests"])
  BY <1>1
<1>3. ASSUME changed = {}, NEW c \in Columns PROVE T[c] = n1[c] + u1[c] /\ n1[c] = k1[c]
  <2>1. T[c] = n[c] + u[c] /\ n[c] = k[c] BY <1>3 DEF BalanceOf
  <2> QED BY <2>1 DEF StillCompares
<1> QED BY <1>2, <1>3 DEF BalanceOf, StillCompares

LEMMA OneModelCounted ==
  ASSUME NEW s, NEW t, NEW L, LedgerRows(L), HalfDone(s, L), NEW m, NEW mine, NextModel(s, t, L, m, mine)
  PROVE HalfDone(t, L)
<1> DEFINE b == Breakdown(mine)
           old == s.by_model
           longer == t.by_model
<1>1. LedgerRows(mine) BY RowsOfPart DEF NextModel
<1>2. Partitioned(b) /\ \A c \in Columns : b[c] \in Nat BY <1>1, BreakdownParts, BreakdownNat
<1>3. IsTable(old) BY DEF HalfDone
<1>4. LongerBy(longer, old, m, b) BY DEF NextModel
<1> HIDE DEF b, old, longer
<1>5. IsTable(longer) /\ DOMAIN longer = {m} \cup DOMAIN old BY <1>2, <1>3, <1>4, SumOverMore
<1>6. ASSUME NEW c \in Columns PROVE SumOver(longer, c) = SumOver(old, c) + b[c]
  <2>1. SumsMore(longer, old, b) BY <1>2, <1>3, <1>4, SumOverMore
  <2> QED BY <2>1 DEF SumsMore
<1>7. ASSUME AllNamed(t), Balance(s, L) PROVE Balance(t, L)
  <2>1. m # "" BY <1>5, <1>7 DEF AllNamed, longer
  <2>2. /\ MoveOver(mine, L, Uncounted(s, L), Uncounted(t, L), Counted(s, L), Counted(t, L))
        /\ Uncounted(s, L) \cup Counted(s, L) = Uncounted(t, L) \cup Counted(t, L)
    <3>1. HalfDone(s, L) /\ NextModel(s, t, L, m, mine) OBVIOUS
    <3>2. MoveOver(mine, L, Uncounted(s, L), Uncounted(t, L), Counted(s, L), Counted(t, L))
      BY <2>1, <3>1, ModelMovesOver
    <3>3. Uncounted(s, L) \cup Counted(s, L) = Uncounted(t, L) \cup Counted(t, L)
      BY <3>2 DEF MoveOver
    <3> QED BY <3>2, <3>3
  <2> DEFINE T == s.total
             u == Uncounted(s, L)
             v == Uncounted(t, L)
             k == Counted(s, L)
             l == Counted(t, L)
  <2>3. T = t.total /\ t.changed = s.changed /\ \A c \in Columns : T[c] \in Nat BY DEF NextModel, HalfDone
  <2>4. BalanceOf(s.changed, T, ColumnSums(old), Breakdown(u), Breakdown(k), u \cup k, L)
    BY <1>7, BalanceIs DEF old
  <2> HIDE DEF T, u, v, k, l
  <2>5. ASSUME NEW c \in Columns
        PROVE StillCompares(T[c], ColumnSums(old)[c], Breakdown(u)[c], Breakdown(k)[c],
                    ColumnSums(longer)[c], Breakdown(v)[c], Breakdown(l)[c])
    <3>1. ColumnSums(old)[c] = SumOver(old, c) /\ ColumnSums(longer)[c] = SumOver(longer, c) BY DEF ColumnSums
    <3>2. T[c] \in Nat /\ SumOver(old, c) \in Nat BY <1>3, <2>3, SumOverNat
    <3>3. SumOver(longer, c) = SumOver(old, c) + Breakdown(mine)[c] BY <1>6 DEF b
    <3>4. MoveOver(mine, L, u, v, k, l) BY <2>2 DEF u, v, k, l
    <3> QED BY <3>1, <3>2, <3>3, <3>4, MovesOver
  <2>6. BalanceOf(s.changed, T, ColumnSums(longer), Breakdown(v), Breakdown(l), u \cup k, L)
    BY <2>4, <2>5, AlikeBalance
  <2>7. u \cup k = v \cup l BY <2>2 DEF u, v, k, l
  <2> QED BY <2>3, <2>6, <2>7, BalanceIs DEF v, l, longer
<1>8. AllNamed(t) => AllNamed(s) BY <1>5 DEF AllNamed, longer, old
<1>9. t.todo \cap DOMAIN longer = {} BY <1>5 DEF HalfDone, NextModel, old
<1> QED BY <1>5, <1>7, <1>8, <1>9 DEF HalfDone, NextModel, old, longer

LEMMA QueryModelStep == ASSUME UsageInv, QueryModel PROVE UsageInv'
<1>1. /\ stats # <<>> /\ stats.pc = "model" /\ ledger' = ledger /\ calls' = calls /\ today' = today
  BY DEF QueryModel, Query
<1>2. IsReport(stats) /\ HalfDone(stats, ledger) /\ LedgerRows(ledger) BY <1>1 DEF UsageInv
<1>3. CASE stats.todo = {} /\ stats' = [stats EXCEPT !.pc = "days"]
  <2>1. stats' = [scene |-> stats.scene, pc |-> "days", todo |-> stats.todo, total |-> stats.total,
                  by_model |-> stats.by_model, by_day |-> stats.by_day, entries |-> stats.entries,
                  changed |-> stats.changed]
    BY <1>2, <1>3 DEF IsReport
  <2>2. /\ stats'.pc = "days" /\ stats'.todo = stats.todo /\ stats'.total = stats.total
        /\ stats'.by_model = stats.by_model /\ stats'.by_day = stats.by_day /\ stats'.changed = stats.changed
        /\ IsReport(stats') /\ stats' # <<>>
    BY <2>1 DEF IsReport
  <2>3. Uncounted(stats', ledger) = Uncounted(stats, ledger)
    <3>1. Uncounted(stats', ledger) = OfModels(ledger, stats.todo) BY <2>2 DEF Uncounted
    <3>2. Uncounted(stats, ledger) = OfModels(ledger, stats.todo) BY <1>1 DEF Uncounted
    <3> QED BY <3>1, <3>2
  <2>4. AllNamed(stats') <=> AllNamed(stats) BY <2>2 DEF AllNamed
  <2>5. Balance(stats, ledger) => Balance(stats', ledger) BY <2>2, <2>3, SameBalance
  <2>6. HalfDone(stats', ledger) BY <1>2, <1>3, <2>2, <2>4, <2>5 DEF HalfDone
  <2> QED BY <1>1, <2>2, <2>6 DEF UsageInv
<1>4. CASE \E m \in stats.todo :
             stats' = [stats EXCEPT !.todo = @ \ {m},
                         !.by_model = [n \in {m} \cup DOMAIN @ |-> IF n = m THEN Breakdown(OfModel(m)) ELSE @[n]]]
  <2>1. PICK m \in stats.todo :
          stats' = [stats EXCEPT !.todo = @ \ {m},
                      !.by_model = [n \in {m} \cup DOMAIN @ |-> IF n = m THEN Breakdown(OfModel(m)) ELSE @[n]]]
    BY <1>4
  <2> DEFINE mine == OfModel(m)
             old == stats.by_model
             table == [n \in {m} \cup DOMAIN old |-> IF n = m THEN Breakdown(mine) ELSE old[n]]
  <2>2. mine \in SUBSET ledger /\ (m # "" => mine = OfModels(ledger, {m})) BY DEF OfModel, OfModels
  <2>3. stats' = [stats EXCEPT !.todo = stats.todo \ {m}, !.by_model = table] BY <2>1
  <2> HIDE DEF table, mine
  <2>4. stats' = [scene |-> stats.scene, pc |-> stats.pc, todo |-> stats.todo \ {m}, total |-> stats.total,
                  by_model |-> table, by_day |-> stats.by_day, entries |-> stats.entries,
                  changed |-> stats.changed]
    BY <1>2, <2>3 DEF IsReport
  <2>5. /\ stats'.pc = "model" /\ stats'.todo = stats.todo \ {m} /\ stats'.total = stats.total
        /\ stats'.by_model = table /\ stats'.by_day = stats.by_day /\ stats'.changed = stats.changed
        /\ IsReport(stats') /\ stats' # <<>>
    BY <1>1, <2>4 DEF IsReport
  <2>6. m \notin DOMAIN old BY <1>2 DEF HalfDone
  <2>7. LongerBy(table, old, m, Breakdown(mine)) BY <2>6 DEF LongerBy, table
  <2>8. NextModel(stats, stats', ledger, m, mine) BY <1>1, <2>2, <2>5, <2>7 DEF NextModel
  <2>9. HalfDone(stats', ledger') BY <1>1, <1>2, <2>8, OneModelCounted
  <2> QED BY <1>1, <2>5, <2>9 DEF UsageInv
<1> QED BY <1>3, <1>4 DEF QueryModel

DaysOf(L) == {r.row.day : r \in L}

ListedDays(L) == {d \in DaysOf(L) : Cardinality({e \in DaysOf(L) : e > d}) < MaxDays}

ByDay(L) == [d \in ListedDays(L) |-> Breakdown({r \in L : r.row.day = d})]

LEMMA DaysFinite == ASSUME NEW L, LedgerRows(L) PROVE IsFiniteSet(DaysOf(L)) /\ DaysOf(L) \in SUBSET Nat
<1> DEFINE key == [r \in L |-> r.row.day]
           days == DaysOf(L)
<1>1. IsFiniteSet(L) BY DEF LedgerRows
<1>2. \A r \in L : r.row.day \in Nat BY DEF LedgerRows, GoodRow
<1>3. days \in SUBSET Nat BY <1>2 DEF DaysOf
<1>4. key = [r \in L |-> key[r]] /\ \A r \in L : key[r] \in days BY DEF DaysOf
<1>5. \A d \in days : \E r \in L : key[r] = d BY DEF DaysOf
<1> HIDE DEF key, days
<1>6. key \in [L -> days] BY <1>4
<1>7. key \in Surjection(L, days) BY <1>5, <1>6 DEF Surjection
<1>8. IsFiniteSet(days) BY <1>1, <1>7, FS_Surjection
<1> QED BY <1>3, <1>8 DEF days

\* The days of all rows, when they are not cut off.
LEMMA DaysSum ==
  ASSUME NEW L, LedgerRows(L), NEW c \in Columns, Cardinality(DOMAIN ByDay(L)) < MaxDays
  PROVE SumOver(ByDay(L), c) = Breakdown(L)[c]
<1> DEFINE days == DaysOf(L)
           listed == ListedDays(L)
<1>1. IsFiniteSet(days) /\ days \in SUBSET Nat BY DaysFinite
<1>2. listed = {d \in days : Cardinality({e \in days : e > d}) < MaxDays} BY DEF ListedDays
<1>3. Cardinality(listed) < MaxDays /\ MaxDays \in Nat BY UsageAssumption DEF UsageAssumption, ByDay
<1>4. days = {r.row.day : r \in L} BY DEF DaysOf
<1> HIDE DEF days, listed
<1>5. listed = days BY <1>1, <1>2, <1>3, AllDaysListed
<1>6. SumOver(ByDay(L), c) = SumFunction([d \in days |-> Breakdown({r \in L : r.row.day = d})[c]])
  <2>1. ByDay(L) = [d \in days |-> Breakdown({r \in L : r.row.day = d})] BY <1>5 DEF ByDay, listed
  <2>2. [k \in DOMAIN ByDay(L) |-> ByDay(L)[k][c]] = [d \in days |-> Breakdown({r \in L : r.row.day = d})[c]]
    BY <2>1
  <2> QED BY <2>2 DEF SumOver
<1> QED BY <1>4, <1>6, TableOfDays

LEMMA DaysPartitioned ==
  ASSUME NEW L, LedgerRows(L) PROVE \A b \in Range(ByDay(L)) : Partitioned(b)
<1>1. ASSUME NEW d \in DOMAIN ByDay(L) PROVE Partitioned(ByDay(L)[d])
  <2> DEFINE mine == {r \in L : r.row.day = d}
  <2>1. ByDay(L)[d] = Breakdown(mine) BY DEF ByDay
  <2>2. mine \in SUBSET L OBVIOUS
  <2> HIDE DEF mine
  <2>3. LedgerRows(mine) BY <2>2, RowsOfPart
  <2> QED BY <2>1, <2>3, BreakdownParts
<1> HIDE DEF ByDay
<1> QED BY <1>1 DEF Range

\* When nothing is left to count.
LEMMA AllCounted ==
  ASSUME NEW s, NEW L, LedgerRows(L), HalfDone(s, L), s.pc = "days", AllNamed(s)
  PROVE /\ "delete" \notin s.changed =>
             /\ s.total["requests"] <= SumOver(s.by_model, "requests")
             /\ SumOver(s.by_model, "requests") <= Breakdown(L)["requests"]
        /\ "insert" \notin s.changed =>
             /\ s.total["requests"] >= SumOver(s.by_model, "requests")
             /\ SumOver(s.by_model, "requests") >= Breakdown(L)["requests"]
        /\ s.changed = {} =>
             \A c \in Columns : SumOver(s.by_model, c) = s.total[c] /\ Breakdown(L)[c] = s.total[c]
<1> DEFINE k == Counted(s, L)
           n == ColumnSums(s.by_model)
           t == s.total
<1>0. \A c \in Columns : n[c] = SumOver(s.by_model, c) BY DEF ColumnSums
<1>1. Uncounted(s, L) = {} BY DEF HalfDone, Uncounted, OfModels
<1>2. k \in SUBSET L BY DEF Counted, OfModels
<1>3. \A c \in Columns : Breakdown(Uncounted(s, L))[c] = 0 BY <1>1, BreakdownOfNone
<1>4. Balance(s, L) BY DEF HalfDone
<1>5. "requests" \in Columns BY DEF Columns
<1>6. \A c \in Columns : n[c] \in Nat /\ t[c] \in Nat BY <1>0, SumOverNat DEF HalfDone
<1>7. /\ Breakdown(k)["requests"] <= Breakdown(L)["requests"]
      /\ Breakdown(k)["requests"] \in Nat /\ Breakdown(L)["requests"] \in Nat
  BY <1>2, MoreRows
<1>8. "insert" \notin s.changed => L = k BY <1>1, <1>4 DEF Balance
<1>9. /\ "delete" \notin s.changed =>
           t["requests"] <= n["requests"] + 0 /\ n["requests"] <= Breakdown(k)["requests"]
      /\ "insert" \notin s.changed =>
           t["requests"] >= n["requests"] + 0 /\ n["requests"] >= Breakdown(k)["requests"]
  BY <1>0, <1>3, <1>4, <1>5 DEF Balance
<1>10. s.changed = {} => \A c \in Columns : t[c] = n[c] + 0 /\ n[c] = Breakdown(k)[c]
  BY <1>0, <1>3, <1>4 DEF Balance
<1> HIDE DEF k, n, t
<1> DEFINE q == "requests"
           tq == t[q]
           nq == n[q]
           kq == Breakdown(k)[q]
           lq == Breakdown(L)[q]
<1>11. /\ "delete" \notin s.changed => tq <= nq + 0 /\ nq <= kq
       /\ "insert" \notin s.changed => tq >= nq + 0 /\ nq >= kq
       /\ "insert" \notin s.changed => kq = lq
       /\ kq <= lq /\ kq \in Nat /\ lq \in Nat /\ nq \in Nat /\ tq \in Nat
  BY <1>5, <1>6, <1>7, <1>8, <1>9
<1> HIDE DEF tq, nq, kq, lq
<1>12. /\ "delete" \notin s.changed => tq <= nq /\ nq <= lq
       /\ "insert" \notin s.changed => tq >= nq /\ nq >= lq
  BY <1>11
<1>13. ASSUME s.changed = {}, NEW c \in Columns PROVE n[c] = t[c] /\ Breakdown(L)[c] = t[c]
  <2>1. Breakdown(L)[c] = Breakdown(k)[c]
    <3>1. L = k BY <1>8, <1>13
    <3> QED BY <3>1
  <2>2. t[c] = n[c] + 0 /\ n[c] = Breakdown(k)[c] BY <1>10, <1>13
  <2>3. n[c] \in Nat BY <1>6
  <2>4. n[c] = t[c] BY <2>2, <2>3
  <2> QED BY <2>1, <2>2, <2>4
<1> QED BY <1>0, <1>5, <1>12, <1>13 DEF t, tq, nq, lq

LEMMA QueryDaysStep == ASSUME UsageInv, QueryDays PROVE UsageInv'
<1> DEFINE table == ByDay(ledger)
<1>1. /\ stats # <<>> /\ stats.pc = "days" /\ ledger' = ledger /\ calls' = calls /\ today' = today
      /\ stats' = [stats EXCEPT !.pc = "entries", !.by_day = table]
  BY DEF QueryDays, Query, ByDay, ListedDays, DaysOf
<1>2. IsReport(stats) /\ HalfDone(stats, ledger) /\ LedgerRows(ledger) BY <1>1 DEF UsageInv
<1>3. \A b \in Range(table) : Partitioned(b) BY <1>2, DaysPartitioned
<1>4. ASSUME NEW c \in Columns, Cardinality(DOMAIN table) < MaxDays
      PROVE SumOver(table, c) = Breakdown(ledger)[c]
  BY <1>2, <1>4, DaysSum
<1> HIDE DEF table
<1>5. stats' = [scene |-> stats.scene, pc |-> "entries", todo |-> stats.todo, total |-> stats.total,
                by_model |-> stats.by_model, by_day |-> table, entries |-> stats.entries,
                changed |-> stats.changed]
  BY <1>1, <1>2 DEF IsReport
<1>6. /\ stats'.pc = "entries" /\ stats'.total = stats.total /\ stats'.by_model = stats.by_model
      /\ stats'.by_day = table /\ stats'.changed = stats.changed /\ IsReport(stats') /\ stats' # <<>>
  BY <1>5 DEF IsReport
<1>7. \A b \in {stats.total} \cup Range(stats.by_model) \cup Range(table) : Partitioned(b)
  <2>1. \A b \in Range(stats.by_model) : Partitioned(b) BY <1>2 DEF HalfDone, IsTable, Range
  <2> QED BY <1>2, <1>3, <2>1 DEF HalfDone
<1>8. ASSUME AllNamed(stats), Cardinality(DOMAIN table) < MaxDays
      PROVE /\ "delete" \notin stats.changed =>
                 /\ stats.total["requests"] <= SumOver(stats.by_model, "requests")
                 /\ SumOver(stats.by_model, "requests") <= SumOver(table, "requests")
            /\ "insert" \notin stats.changed =>
                 /\ stats.total["requests"] >= SumOver(stats.by_model, "requests")
                 /\ SumOver(stats.by_model, "requests") >= SumOver(table, "requests")
            /\ stats.changed = {} =>
                 \A c \in DOMAIN stats.total : /\ SumOver(stats.by_model, c) = stats.total[c]
                                                /\ SumOver(table, c) = stats.total[c]
  <2>1. \A c \in Columns : SumOver(table, c) = Breakdown(ledger)[c] BY <1>4, <1>8
  <2>2. "requests" \in Columns /\ DOMAIN stats.total = Columns BY <1>2 DEF Columns, HalfDone
  <2> QED BY <1>1, <1>2, <1>8, <2>1, <2>2, AllCounted
<1>9. TablesAgree' BY <1>6, <1>7, <1>8 DEF TablesAgree, Complete, AllNamed
<1> QED BY <1>1, <1>6, <1>9 DEF UsageInv

LEMMA QueryEntriesStep == ASSUME UsageInv, QueryEntries PROVE UsageInv'
<1>1. /\ stats # <<>> /\ stats.pc = "entries" /\ ledger' = ledger /\ calls' = calls /\ today' = today
  BY DEF QueryEntries, Query
<1>2. PICK last \in SUBSET ledger :
        stats' = [stats EXCEPT !.pc = "done",
                    !.entries = {r \in last : stats.scene.filter \in {AnyProtocol, r.row.protocol}}]
  BY DEF QueryEntries
<1> DEFINE entries == {r \in last : stats.scene.filter \in {AnyProtocol, r.row.protocol}}
<1>3. stats' = [stats EXCEPT !.pc = "done", !.entries = entries] BY <1>2
<1> HIDE DEF entries
<1>4. IsReport(stats) /\ TablesAgree BY <1>1 DEF UsageInv
<1>5. stats' = [scene |-> stats.scene, pc |-> "done", todo |-> stats.todo, total |-> stats.total,
                by_model |-> stats.by_model, by_day |-> stats.by_day, entries |-> entries,
                changed |-> stats.changed]
  BY <1>3, <1>4 DEF IsReport
<1>6. /\ stats'.pc = "done" /\ stats'.total = stats.total /\ stats'.by_model = stats.by_model
      /\ stats'.by_day = stats.by_day /\ stats'.changed = stats.changed /\ IsReport(stats') /\ stats' # <<>>
  BY <1>5 DEF IsReport
<1>7. TablesAgree' BY <1>4, <1>6, AgreeStays
<1> QED BY <1>1, <1>6, <1>7 DEF UsageInv

LEMMA QueryFailsStep == ASSUME UsageInv, QueryFails PROVE UsageInv'
<1>1. /\ stats # <<>> /\ stats' = [stats EXCEPT !.pc = "failed"]
      /\ ledger' = ledger /\ calls' = calls /\ today' = today
  BY DEF QueryFails
<1>2. IsReport(stats) BY <1>1 DEF UsageInv
<1>3. stats' = [scene |-> stats.scene, pc |-> "failed", todo |-> stats.todo, total |-> stats.total,
                by_model |-> stats.by_model, by_day |-> stats.by_day, entries |-> stats.entries,
                changed |-> stats.changed]
  BY <1>1, <1>2 DEF IsReport
<1>4. stats'.pc = "failed" /\ IsReport(stats') /\ stats' # <<>> BY <1>3 DEF IsReport
<1> QED BY <1>1, <1>4 DEF UsageInv

LEMMA NextUsage == ASSUME UsageInv, [RequestNext]_<<request, kept>> PROVE UsageInv'
<1>1. ASSUME UNCHANGED usageVars PROVE UsageInv'
  <2>1. TablesAgree' = TablesAgree BY <1>1 DEF usageVars, TablesAgree, Complete
  <2> QED BY <1>1, <2>1 DEF usageVars, UsageInv
<1>2. CASE UNCHANGED <<request, kept>> BY <1>1, <1>2 DEF kept, usageVars
<1>3. CASE UNCHANGED kept BY <1>1, <1>3 DEF kept, usageVars
<1>4. CASE \E i \in DOMAIN calls : AnswerCall(i) \/ RecordRequest(i) \/ RecordIsLost(i)
  BY <1>4, AnswerCallStep, RecordRequestStep, RecordIsLostStep
<1>5. CASE NextDay \/ DeleteOld BY <1>5, NextDayStep, DeleteOldStep
<1>6. CASE QueryTotal \/ QueryModels \/ QueryModel
  BY <1>6, QueryTotalStep, QueryModelsStep, QueryModelStep
<1>7. CASE QueryDays \/ QueryEntries \/ QueryFails
  BY <1>7, QueryDaysStep, QueryEntriesStep, QueryFailsStep
<1>8. CASE UNCHANGED usageVars BY <1>1, <1>8
<1>9. UNCHANGED <<request, kept>> \/ UNCHANGED kept \/ UNCHANGED usageVars
      \/ (\E i \in DOMAIN calls : AnswerCall(i) \/ RecordRequest(i) \/ RecordIsLost(i))
      \/ NextDay \/ DeleteOld \/ QueryTotal \/ QueryModels \/ QueryModel
      \/ QueryDays \/ QueryEntries \/ QueryFails
  BY DEF RequestNext, besides, kept
<1> QED BY <1>2, <1>3, <1>4, <1>5, <1>6, <1>7, <1>8, <1>9

\* The report adds up, for any number of models and days and whatever rows come, or go, between its
\* queries (meter/db.rs:336): every request is counted under one outcome, and the table of the models
\* and that of the days have the total's sums if nothing changed in between.
THEOREM TablesAddUp == RequestSpec => []StatsAddUp
<1>1. UsageInv => StatsAddUp BY DEF UsageInv, StatsAddUp, Reported
<1> QED BY <1>1, InitUsage, NextUsage, PTL DEF RequestSpec
=============================================================================
