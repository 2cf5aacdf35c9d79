----------------------------- MODULE TxFlowProofs -----------------------------
(***************************************************************************)
(* Proofs about the client's transactions: what the commands assemble      *)
(* (TxAssembly), the loop of the split command (UtxoSplit), and what       *)
(* happens to it between the clients, the node and the endorser (TxFlow),  *)
(* for any clients, jobs, outputs and gas.                                 *)
(*                                                                         *)
(* The argument about TxFlow: InitIInv and NextIInv show that IInv is      *)
(* inductive.  Every step is one of four kinds, each with a lemma: a client*)
(* moves (QuietStep), assembles (MakeStep), has a transaction accepted     *)
(* (SubmitStep), or a lock ends (ExpiryStep); the lemma of an action says  *)
(* which kind it is and that its client stays consistent (Client).         *)
(*                                                                         *)
(* The sums SumOf and SumOfSeq are folds, recursive functions on the       *)
(* subsets of a finite set.  That such a function exists is proved by the  *)
(* least cardinality at which it would not (FoldExists), and only then is  *)
(* its definition used.                                                    *)
(***************************************************************************)
EXTENDS TxFlow, Commands, UtxoSplit, FiniteSetTheorems, WellFoundedInduction, TLAPS


---------------------------------------------------------------------------
(* Sums over the subsets of a finite set.                                  *)

\* A set of natural numbers that is not empty has a least element.
LEMMA LeastNat ==
    ASSUME NEW T, T \subseteq Nat, T # {}
    PROVE  \E x \in T : \A y \in T : x <= y
<1>1. IsWellFoundedOn(OpToRel(<, Nat), Nat)
  BY NatLessThanWellFounded
<1>2. PICK x \in T : \A y \in T : ~(<<y, x>> \in OpToRel(<, Nat))
  BY <1>1, WFMin
<1>3. \A y \in T : <<y, x>> \in Nat \X Nat /\ <<y, x>>[1] = y /\ <<y, x>>[2] = x
  OBVIOUS
<1>4. \A y \in T : ~(y < x)
  BY <1>2, <1>3, Zenon DEF OpToRel
<1> QED  BY <1>4

\* the element a fold takes next
Pick(s) == CHOOSE x \in s : TRUE

\* it is the fold of the values of f over the subsets of S that are in D
IsFold(it, f, D) ==
    /\ it \in [D -> Int]
    /\ \A s \in D : it[s] = IF s = {} THEN 0 ELSE f[Pick(s)] + it[s \ {Pick(s)}]

\* the subsets with at most n elements
Small(S, n) == {s \in SUBSET S : Cardinality(s) <= n}

\* Taking an element out of a small subset leaves a smaller one.
LEMMA SmallFacts ==
    ASSUME NEW S, IsFiniteSet(S), NEW n \in Nat, NEW s \in Small(S, n)
    PROVE  /\ s \subseteq S /\ IsFiniteSet(s) /\ Cardinality(s) \in Nat
           /\ s = {} <=> Cardinality(s) = 0
           /\ s # {} => /\ Pick(s) \in s
                        /\ Cardinality(s \ {Pick(s)}) = Cardinality(s) - 1
                        /\ s \ {Pick(s)} \in Small(S, n)
                        /\ n > 0
                        /\ s \ {Pick(s)} \in Small(S, n - 1)
<1>1. s \subseteq S /\ IsFiniteSet(s) /\ Cardinality(s) \in Nat /\ Cardinality(s) <= n
  BY FS_Subset, FS_CardinalityType DEF Small
<1>2. s = {} <=> Cardinality(s) = 0
  BY <1>1, FS_EmptySet
<1>3. ASSUME s # {} 
      PROVE Pick(s) \in s /\ Cardinality(s \ {Pick(s)}) = Cardinality(s) - 1
  <2>1. Pick(s) \in s
    BY <1>3 DEF Pick
  <2> QED  BY <1>1, <2>1, FS_RemoveElement
<1> QED  BY <1>1, <1>2, <1>3 DEF Small

\* The fold over the subsets with at most m elements exists.
LEMMA FoldExistsUpTo ==
    ASSUME NEW S, IsFiniteSet(S), NEW f, \A x \in S : f[x] \in Int, NEW m \in Nat
    PROVE  \E it : IsFold(it, f, Small(S, m))
<1> DEFINE Bad == {n \in Nat : ~ \E it : IsFold(it, f, Small(S, n))}
<1>1. SUFFICES ASSUME Bad # {} PROVE FALSE
  OBVIOUS
<1>2. PICK n \in Bad : \A k \in Bad : n <= k
  BY <1>1, LeastNat
<1>3. n \in Nat
  OBVIOUS
<1>4. CASE n = 0
  <2>1. ASSUME NEW s \in Small(S, 0) PROVE s = {}
    <3>1. Cardinality(s) \in Nat /\ (s = {} <=> Cardinality(s) = 0)
      BY SmallFacts
    <3>2. Cardinality(s) <= 0
      BY DEF Small
    <3> QED  BY <3>1, <3>2
  <2>2. IsFold([s \in Small(S, 0) |-> 0], f, Small(S, 0))
    BY <2>1 DEF IsFold
  <2> QED  BY <1>4, <2>2
<1>5. CASE n # 0
  <2>1. n - 1 \in Nat /\ n - 1 \notin Bad
    BY <1>2, <1>3, <1>5
  <2>2. PICK it : IsFold(it, f, Small(S, n - 1))
    BY <2>1
  <2> DEFINE more == [s \in Small(S, n) |-> IF s = {} THEN 0 ELSE f[Pick(s)] + it[s \ {Pick(s)}]]
  <2>3. \A s \in Small(S, n) : s # {} => f[Pick(s)] \in Int /\ it[s \ {Pick(s)}] \in Int
    <3> TAKE s \in Small(S, n)
    <3> HAVE s # {}
    <3>1. Pick(s) \in S /\ s \ {Pick(s)} \in Small(S, n - 1)
      BY <1>3, SmallFacts
    <3> QED  BY <2>2, <3>1 DEF IsFold
  <2>4. more \in [Small(S, n) -> Int]
    BY <2>3
  <2>5. ASSUME NEW s \in Small(S, n), s # {}
        PROVE  more[s] = f[Pick(s)] + more[s \ {Pick(s)}]
    <3> DEFINE r == s \ {Pick(s)}
    <3>1. r \in Small(S, n - 1) /\ r \in Small(S, n)
      BY <1>3, <2>5, SmallFacts
    <3> HIDE DEF r
    <3>2. it[r] = IF r = {} THEN 0 ELSE f[Pick(r)] + it[r \ {Pick(r)}]
      BY <2>2, <3>1 DEF IsFold
    <3>3. more[r] = it[r]
      BY <3>1, <3>2
    <3>4. more[s] = f[Pick(s)] + it[r]
      BY <2>5 DEF r
    <3> QED  BY <3>3, <3>4 DEF r
  <2>6. \A s \in Small(S, n) : s = {} => more[s] = 0
    OBVIOUS
  <2> HIDE DEF more
  <2>7. IsFold(more, f, Small(S, n))
    BY <2>4, <2>5, <2>6 DEF IsFold
  <2> QED  BY <2>7
<1> QED  BY <1>4, <1>5

\* The fold over all subsets of a finite set exists.
LEMMA FoldExists ==
    ASSUME NEW S, IsFiniteSet(S), NEW f, \A x \in S : f[x] \in Int
    PROVE  \E it : IsFold(it, f, SUBSET S)
<1>1. Cardinality(S) \in Nat
  BY FS_CardinalityType
<1>2. \A s \in SUBSET S : Cardinality(s) <= Cardinality(S)
  BY FS_Subset
<1>3. Small(S, Cardinality(S)) = SUBSET S
  BY <1>2 DEF Small
<1>4. \E it : IsFold(it, f, Small(S, Cardinality(S)))
  BY <1>1, FoldExistsUpTo
<1> QED  BY <1>3, <1>4

\* A set of subsets that holds the empty one, and every subset from which one
\* element can be taken out to land in it, holds them all.
LEMMA SubsetInduction ==
    ASSUME NEW S, IsFiniteSet(S), NEW T, {} \in T,
           \A s \in SUBSET S : s # {} /\ Pick(s) \in s /\ s \ {Pick(s)} \in T => s \in T
    PROVE  \A s \in SUBSET S : s \in T
<1> DEFINE Bad == {n \in Nat : \E s \in SUBSET S : Cardinality(s) = n /\ s \notin T}
<1>0. \A s \in SUBSET S : IsFiniteSet(s) /\ Cardinality(s) \in Nat
  BY FS_Subset, FS_CardinalityType
<1>1. SUFFICES ASSUME Bad # {} PROVE FALSE
  BY <1>0
<1>2. PICK n \in Bad : \A k \in Bad : n <= k
  BY <1>1, LeastNat
<1>3. PICK s \in SUBSET S : Cardinality(s) = n /\ s \notin T
  OBVIOUS
<1>4. s # {} /\ Pick(s) \in s
  BY <1>3 DEF Pick
<1>5. s \ {Pick(s)} \in SUBSET S /\ s \ {Pick(s)} \notin T
  BY <1>3, <1>4
<1>6. Cardinality(s \ {Pick(s)}) = n - 1 /\ Cardinality(s \ {Pick(s)}) \in Nat
  BY <1>0, <1>3, <1>4, <1>5, FS_RemoveElement
<1>7. n - 1 \in Bad
  BY <1>5, <1>6
<1> QED  BY <1>2, <1>6, <1>7

\* SumOf is a fold of the amounts.
LEMMA SumOfIsFold ==
    ASSUME NEW S, IsFiniteSet(S), \A u \in S : u.amount \in Int
    PROVE  \E it : IsFold(it, [u \in S |-> u.amount], SUBSET S) /\ SumOf(S) = it[S]
<1> DEFINE f == [u \in S |-> u.amount]
           iter == CHOOSE it : it = [s \in SUBSET S |-> IF s = {} THEN 0
           ELSE (CHOOSE x \in s : TRUE).amount + it[s \ {CHOOSE x \in s : TRUE}]]
<1>1. PICK it : IsFold(it, f, SUBSET S)
  BY FoldExists
<1>2. it = [s \in SUBSET S |-> IF s = {} THEN 0 ELSE (CHOOSE x \in s : TRUE).amount
      + it[s \ {CHOOSE x \in s : TRUE}]]
  BY <1>1 DEF IsFold, Pick
<1>3. iter = [s \in SUBSET S |-> IF s = {} THEN 0 ELSE (CHOOSE x \in s : TRUE).amount
      + iter[s \ {CHOOSE x \in s : TRUE}]]
  BY <1>2, Zenon
<1>4. SumOf(S) = iter[S]
  BY Zenon DEF SumOf, MapThenSumSet, MapThenFoldSet
<1>5. iter[S] \in Int /\ \A s \in SUBSET S : iter[s] = it[s]
  <2> DEFINE T == {s \in SUBSET S : iter[s] = it[s]}
  <2> HIDE DEF iter
  <2>1. {} \in T
    BY <1>1, <1>3 DEF IsFold
  <2>2. ASSUME NEW s \in SUBSET S, s # {}, Pick(s) \in s, s \ {Pick(s)} \in T PROVE s \in T
    <3>1. iter[s] = (CHOOSE x \in s : TRUE).amount + iter[s \ {CHOOSE x \in s : TRUE}]
      BY <1>3, <2>2
    <3>2. it[s] = (CHOOSE x \in s : TRUE).amount + it[s \ {CHOOSE x \in s : TRUE}]
      BY <1>2, <2>2
    <3> QED  BY <2>2, <3>1, <3>2 DEF Pick
  <2>3. \A s \in SUBSET S : s \in T
    <3> HIDE DEF T
    <3> QED  BY <2>1, <2>2, SubsetInduction
  <2> QED  BY <1>1, <2>3 DEF IsFold
<1> QED  BY <1>1, <1>4, <1>5

\* SumOfSeq is a fold of the elements.
LEMMA SumOfSeqIsFold ==
    ASSUME NEW f, IsFiniteSet(DOMAIN f), \A x \in DOMAIN f : f[x] \in Int
    PROVE  \E it : IsFold(it, f, SUBSET DOMAIN f) /\ SumOfSeq(f) = it[DOMAIN f]
<1> DEFINE S == DOMAIN f
           iter == CHOOSE it : it = [s \in SUBSET S |-> IF s = {} THEN 0
           ELSE f[CHOOSE x \in s : TRUE] + it[s \ {CHOOSE x \in s : TRUE}]]
<1>1. PICK it : IsFold(it, f, SUBSET S)
  BY FoldExists
<1>2. it = [s \in SUBSET S |-> IF s = {} THEN 0 ELSE f[CHOOSE x \in s : TRUE]
      + it[s \ {CHOOSE x \in s : TRUE}]]
  BY <1>1 DEF IsFold, Pick
<1>3. iter = [s \in SUBSET S |-> IF s = {} THEN 0 ELSE f[CHOOSE x \in s : TRUE]
      + iter[s \ {CHOOSE x \in s : TRUE}]]
  BY <1>2, Zenon
<1>4. SumOfSeq(f) = iter[S]
  BY Zenon DEF SumOfSeq, FoldSeq, FoldFunction, FoldFunctionOnSet, MapThenFoldSet
<1>5. \A s \in SUBSET S : iter[s] = it[s]
  <2> DEFINE T == {s \in SUBSET S : iter[s] = it[s]}
  <2> HIDE DEF iter
  <2>1. {} \in T
    BY <1>1, <1>3 DEF IsFold
  <2>2. ASSUME NEW s \in SUBSET S, s # {}, Pick(s) \in s, s \ {Pick(s)} \in T PROVE s \in T
    <3>1. iter[s] = f[CHOOSE x \in s : TRUE] + iter[s \ {CHOOSE x \in s : TRUE}]
      BY <1>3, <2>2
    <3>2. it[s] = f[CHOOSE x \in s : TRUE] + it[s \ {CHOOSE x \in s : TRUE}]
      BY <1>2, <2>2
    <3> QED  BY <2>2, <3>1, <3>2 DEF Pick
  <2>3. \A s \in SUBSET S : s \in T
    <3> HIDE DEF T
    <3> QED  BY <2>1, <2>2, SubsetInduction
  <2> QED  BY <2>3
<1> QED  BY <1>1, <1>4, <1>5

\* The fold of nothing and of one element.
LEMMA FoldOne ==
    ASSUME NEW S, NEW it, NEW f, IsFold(it, f, SUBSET S)
    PROVE  /\ it[{}] = 0
           /\ \A x \in S : f[x] \in Int => it[{x}] = f[x]
<1>1. it[{}] = 0
  <2>1. {} \in SUBSET S
    OBVIOUS
  <2> QED  BY <2>1 DEF IsFold
<1>2. ASSUME NEW x \in S, f[x] \in Int PROVE it[{x}] = f[x]
  <2>1. Pick({x}) = x
    BY DEF Pick
  <2>2. {x} \in SUBSET S /\ {x} \ {x} = {} /\ {x} # {}
    OBVIOUS
  <2>3. it[{x}] = f[x] + it[{}]
    BY <2>1, <2>2 DEF IsFold
  <2> QED  BY <1>1, <1>2, <2>3
<1> QED  BY <1>1, <1>2

\* The sum of no coin and of one coin.
LEMMA SumOfFacts ==
    /\ SumOf({}) = 0
    /\ \A u : u.amount \in Int => SumOf({u}) = u.amount
<1>1. SumOf({}) = 0
  <2>1. PICK it : IsFold(it, [u \in {} |-> u.amount], SUBSET {}) /\ SumOf({}) = it[{}]
    BY FS_EmptySet, SumOfIsFold
  <2> QED  BY <2>1 DEF IsFold
<1>2. ASSUME NEW u, u.amount \in Int PROVE SumOf({u}) = u.amount
  <2> DEFINE f == [w \in {u} |-> w.amount]
  <2>1. PICK it : IsFold(it, f, SUBSET {u}) /\ SumOf({u}) = it[{u}]
    BY <1>2, FS_Singleton, SumOfIsFold
  <2>2. f[u] = u.amount
    OBVIOUS
  <2> HIDE DEF f
  <2>3. u \in {u} /\ f[u] \in Int
    BY <1>2, <2>2
  <2>4. it[{u}] = f[u]
    <3> DEFINE S == {u}
    <3>1. IsFold(it, f, SUBSET S) /\ u \in S
      BY <2>1
    <3> HIDE DEF S
    <3>2. \A x \in S : f[x] \in Int => it[{x}] = f[x]
      BY <3>1, FoldOne
    <3> QED  BY <2>3, <3>1, <3>2
  <2> QED  BY <2>1, <2>2, <2>4
<1> QED  BY <1>1, <1>2

\* A sum of natural amounts is natural.
LEMMA SumOfNat ==
    ASSUME NEW S, IsFiniteSet(S), \A u \in S : u.amount \in Nat
    PROVE  SumOf(S) \in Nat
<1> DEFINE f == [u \in S |-> u.amount]
<1>1. PICK it : IsFold(it, f, SUBSET S) /\ SumOf(S) = it[S]
  BY SumOfIsFold
<1> DEFINE T == {s \in SUBSET S : it[s] \in Nat}
<1>2. {} \in T
  <2>1. it[{}] = 0
    BY <1>1, FoldOne
  <2> QED  BY <2>1
<1>3. ASSUME NEW s \in SUBSET S, s # {}, Pick(s) \in s, s \ {Pick(s)} \in T PROVE s \in T
  <2>1. it[s] = f[Pick(s)] + it[s \ {Pick(s)}]
    BY <1>1, <1>3 DEF IsFold
  <2>2. f[Pick(s)] \in Nat
    BY <1>3
  <2> QED  BY <1>3, <2>1, <2>2
<1>4. \A s \in SUBSET S : s \in T
  <2> HIDE DEF T
  <2> QED  BY <1>2, <1>3, SubsetInduction
<1> QED  BY <1>1, <1>4

\* The sum of one output.
LEMMA SumOfOne ==
    ASSUME NEW n \in Int
    PROVE  SumOfSeq(<<n>>) = n
<1>1. ASSUME NEW f, DOMAIN f = {1}, f[1] = n PROVE SumOfSeq(f) = n
  <2>1. IsFiniteSet(DOMAIN f) /\ \A i \in DOMAIN f : f[i] \in Int
    BY <1>1, FS_Singleton
  <2>2. PICK it : IsFold(it, f, SUBSET DOMAIN f) /\ SumOfSeq(f) = it[DOMAIN f]
    BY <2>1, SumOfSeqIsFold
  <2>3. \A s \in SUBSET DOMAIN f : it[s] = IF s = {} THEN 0 ELSE f[Pick(s)] + it[s \ {Pick(s)}]
    BY <2>2 DEF IsFold
  <2>4. Pick({1}) = 1 /\ {1} \ {1} = {} /\ {1} # {} /\ {} \in SUBSET DOMAIN f
        /\ {1} \in SUBSET DOMAIN f
    BY <1>1 DEF Pick
  <2>5. it[{1}] = f[1] + it[{}] /\ it[{}] = 0
    BY <2>3, <2>4
  <2> QED  BY <1>1, <2>2, <2>5
<1>2. DOMAIN <<n>> = {1} /\ <<n>>[1] = n
  OBVIOUS
<1> QED  BY <1>1, <1>2

\* k copies of a, then r and d: what SplitTx gives back
LEMMA SumOfCopies ==
    ASSUME NEW k \in Nat, NEW a \in Int, NEW r \in Int, NEW d \in Int, NEW f,
           DOMAIN f = 1..(k + 2), \A i \in 1..k : f[i] = a, f[k + 1] = r, f[k + 2] = d
    PROVE  SumOfSeq(f) = k * a + r + d
<1> DEFINE S == 1..(k + 2)
           C(s) == Cardinality(s \ {k + 1, k + 2})
           R(s) == IF k + 1 \in s THEN r ELSE 0
           D(s) == IF k + 2 \in s THEN d ELSE 0
<1>1. IsFiniteSet(S)
  BY FS_Interval
<1>2. \A i \in S : f[i] \in Int
  <2> TAKE i \in S
  <2>1. i \in 1..k \/ i = k + 1 \/ i = k + 2
    OBVIOUS
  <2> QED  BY <2>1
<1>3. PICK it : IsFold(it, f, SUBSET S) /\ SumOfSeq(f) = it[S]
  BY <1>1, <1>2, SumOfSeqIsFold
<1>4. ASSUME NEW s \in SUBSET S PROVE IsFiniteSet(s \ {k + 1, k + 2}) /\ C(s) \in Nat
  BY <1>1, FS_Subset, FS_Difference, FS_CardinalityType
<1> DEFINE T == {s \in SUBSET S : it[s] = C(s) * a + R(s) + D(s)}
<1>5. {} \in T
  <2>1. it[{}] = 0
    BY <1>3 DEF IsFold
  <2>2. C({}) = 0
    <3>1. {} \ {k + 1, k + 2} = {}
      OBVIOUS
    <3> QED  BY <3>1, FS_EmptySet
  <2> HIDE DEF C
  <2> QED  BY <2>1, <2>2
<1>6. ASSUME NEW s \in SUBSET S, s # {}, Pick(s) \in s, s \ {Pick(s)} \in T PROVE s \in T
  <2> DEFINE x == Pick(s)
             q == s \ {x}
  <2>1. it[s] = f[x] + it[q]
    BY <1>3, <1>6 DEF IsFold
  <2>2. it[q] = C(q) * a + R(q) + D(q) /\ q \in SUBSET S /\ x \in s
    BY <1>6
  <2>3. x \in 1..k \/ x = k + 1 \/ x = k + 2
    <3>1. x \in S
      BY <1>6
    <3> HIDE DEF x
    <3> QED  BY <3>1
  <2> HIDE DEF x
  <2>4. CASE x \in 1..k
    <3>1. x # k + 1 /\ x # k + 2
      BY <2>4
    <3>2. q \ {k + 1, k + 2} = (s \ {k + 1, k + 2}) \ {x} /\ x \in s \ {k + 1, k + 2}
      BY <2>2, <3>1
    <3>3. C(q) = C(s) - 1
      <4> DEFINE w == s \ {k + 1, k + 2}
      <4>1. IsFiniteSet(w)
        BY <1>4
      <4>2. q \ {k + 1, k + 2} = w \ {x} /\ x \in w
        BY <3>2
      <4>3. Cardinality(w \ {x}) = Cardinality(w) - 1
        <5> HIDE DEF w
        <5> QED  BY <4>1, <4>2, FS_RemoveElement
      <4> QED  BY <4>2, <4>3
    <3>4. R(q) = R(s) /\ D(q) = D(s)
      BY <3>1
    <3>5. f[x] = a
      BY <2>4
    <3>6. C(s) \in Nat
      BY <1>4
    <3> HIDE DEF C, R, D, q
    <3>7. C(s) * a = (C(s) - 1) * a + a
      BY <3>6
    <3>8. R(s) \in Int /\ D(s) \in Int /\ (C(s) - 1) * a \in Int
      BY <3>6 DEF R, D
    <3>9. it[s] = C(s) * a + R(s) + D(s)
      BY <2>1, <2>2, <3>3, <3>4, <3>5, <3>7, <3>8
    <3> QED  BY <3>9
  <2>5. CASE x = k + 1
    <3>1. q \ {k + 1, k + 2} = s \ {k + 1, k + 2}
      BY <2>5
    <3>2. C(q) = C(s) /\ C(s) \in Nat
      BY <1>4, <3>1
    <3>3. R(q) = 0 /\ R(s) = r /\ D(q) = D(s)
      BY <2>2, <2>5
    <3>4. f[x] = r
      BY <2>5
    <3> HIDE DEF C, R, D, q
    <3>5. D(s) \in Int /\ C(s) * a \in Int
      BY <3>2 DEF D
    <3>6. it[s] = C(s) * a + R(s) + D(s)
      BY <2>1, <2>2, <3>2, <3>3, <3>4, <3>5
    <3> QED  BY <3>6
  <2>6. CASE x = k + 2
    <3>1. q \ {k + 1, k + 2} = s \ {k + 1, k + 2}
      BY <2>6
    <3>2. C(q) = C(s) /\ C(s) \in Nat
      BY <1>4, <3>1
    <3>3. D(q) = 0 /\ D(s) = d /\ R(q) = R(s)
      BY <2>2, <2>6
    <3>4. f[x] = d
      BY <2>6
    <3> HIDE DEF C, R, D, q
    <3>5. R(s) \in Int /\ C(s) * a \in Int
      BY <3>2 DEF R
    <3>6. it[s] = C(s) * a + R(s) + D(s)
      BY <2>1, <2>2, <3>2, <3>3, <3>4, <3>5
    <3> QED  BY <3>6
  <2> QED  BY <2>3, <2>4, <2>5, <2>6
<1>7. S \in T
  <2> HIDE DEF T
  <2>1. \A s \in SUBSET S : s \in T
    <3> HIDE DEF S
    <3> QED  BY <1>1, <1>5, <1>6, SubsetInduction
  <2> QED  BY <2>1
<1>8. C(S) = k
  <2>1. S \ {k + 1, k + 2} = 1..k
    OBVIOUS
  <2>2. Cardinality(1..k) = k
    BY FS_Interval
  <2> QED  BY <2>1, <2>2
<1>9. R(S) = r /\ D(S) = d
  OBVIOUS
<1> QED  BY <1>3, <1>7, <1>8, <1>9

\* The sum of two outputs.
LEMMA SumOfTwo ==
    ASSUME NEW x \in Int, NEW y \in Int
    PROVE  SumOfSeq(<<x, y>>) = x + y
<1> DEFINE f == <<x, y>>
           k == 0
<1>1. k \in Nat /\ DOMAIN f = 1..(k + 2) /\ f[k + 1] = x /\ f[k + 2] = y /\ \A i \in 1..k : f[i] = 0
  OBVIOUS
<1> HIDE DEF f, k
<1>2. SumOfSeq(f) = k * 0 + x + y
  BY <1>1, SumOfCopies
<1>3. SumOfSeq(f) = x + y
  BY <1>1, <1>2 DEF k
<1> QED  BY <1>3 DEF f

---------------------------------------------------------------------------
(* What the commands assemble.                                             *)

\* The commands the theorems are about.
Command(t) ==
    /\ t.to \in BOOLEAN
    /\ t.feeAddr \in BOOLEAN
    /\ t.amount \in Strings
    /\ t.fee \in Strings

\* What a transaction with one output to the payer pays out in all.
PaidOut(tx) == tx.pay + tx.fee + tx.service + tx.back[1]

\* Strings carry an integer, 0 when there is none; a sum within int64 does not
\* wrap.
LEMMA StringVal ==
    ASSUME NEW s \in Strings
    PROVE  /\ s.val \in Int
           /\ s.kind # "num" => s.val = 0
           /\ Absent(s) => s.val = 0
           /\ s = Empty \/ s.kind \in {"bad", "num"}
  BY DEF Strings, Empty, NotANumber, Num, Absent

\* Integers within int64 are left alone by Wrap.
LEMMA NoWrap ==
    ASSUME NEW n \in -Int64Half..(Int64Half - 1)
    PROVE  Wrap(n) = n
<1>1. Int64Half \in Nat /\ n + Int64Half \in 0..(2 * Int64Half - 1)
  BY TxAssemblyAssumption
<1>2. (n + Int64Half) % (2 * Int64Half) = n + Int64Half
  BY <1>1
<1> QED
  BY <1>1, <1>2 DEF Wrap

\* A command that is not refused needs no negative sum.
LEMMA NeedIsNat ==
    ASSUME NEW t, Command(t), t.to => Valid(t.amount), Absent(t.fee) \/ Valid(t.fee)
    PROVE  Pay(t) \in Nat /\ Fee(t) \in Nat /\ TotalNeed(t) \in Nat
  BY StringVal DEF Command, Valid, Pay, Fee, TotalNeed

\* GenRawTx: whatever a SelectUTXO that covers totalNeed selects, a command that
\* GenTxOutputs does not refuse spends exactly what it pays out, and pays no
\* negative amount.
THEOREM RawTxBalanced ==
    ASSUME NEW t, Command(t), NEW gasUsed \in Int, ~GenTxOutputsError(t, gasUsed),
           NEW selected \in Nat, selected >= TotalNeed(t)
    PROVE  /\ PaidOut(GenRawTx(t, selected)) = selected
           /\ GenRawTx(t, selected).back[1] \in Nat
<1>1. Pay(t) \in Nat /\ Fee(t) \in Nat /\ TotalNeed(t) = Pay(t) + Fee(t)
  BY NeedIsNat DEF GenTxOutputsError, TotalNeed
<1> QED
  BY <1>1 DEF GenRawTx, PaidOut, Delta

\* The transfer command (assembleTxSupportAccount): the same, with a receiver
\* and without gas.
THEOREM TransferBalanced ==
    ASSUME NEW t, Command(t), t.to, ~AssembleError(t),
           NEW selected \in Nat, selected >= TotalNeed(t)
    PROVE  PaidOut(GenRawTx(t, selected)) = selected
<1>1. ~GenTxOutputsError(t, 0)
  BY DEF AssembleError, GenTxOutputsError, FeeRefused
<1> QED
  BY <1>1, RawTxBalanced

\* The fee output covers the gas: "You need add fee" and "Fee not enough" leave
\* no other command, also when the fee exceeds int64 and ParseInt's error is
\* ignored.
THEOREM GasCovered ==
    ASSUME NEW t, Command(t), NEW gasUsed \in 0..(Int64Half - 1),
           ~GenTxOutputsError(t, gasUsed)
    PROVE  Fee(t) >= gasUsed
<1>1. t.fee.val \in Int /\ Fee(t) \in Nat
  BY StringVal, NeedIsNat DEF Command, GenTxOutputsError
<1>2. CASE gasUsed = 0
  BY <1>1, <1>2
<1>3. CASE gasUsed > 0
  <2>1. ~Absent(t.fee) /\ ParseInt(t.fee) >= gasUsed
    <3>1. ParseInt(t.fee) \in Int
      BY <1>1, TxAssemblyAssumption DEF ParseInt
    <3> QED
      BY <1>3, <3>1, TxAssemblyAssumption DEF GenTxOutputsError, FeeRefused
  <2>2. ParseInt(t.fee) <= t.fee.val \/ t.fee.val < 0
    BY <1>1, TxAssemblyAssumption DEF ParseInt
  <2>3. t.fee.val = Fee(t)
    BY <2>1 DEF Fee
  <2> QED
    BY <1>1, <2>1, <2>2, <2>3, TxAssemblyAssumption DEF ParseInt
<1> QED
  BY <1>1, <1>2, <1>3, TxAssemblyAssumption

\* The compliance path: with a fee address, an amount that is not negative and
\* sums within int64, both transactions balance: the fee transaction against the
\* selection, the real one against the change of the fee transaction.
THEOREM ComplianceBalanced ==
    ASSUME NEW t, Command(t), t.feeAddr, NEW gasUsed \in 0..(Int64Half - 1),
           ~ReqError(t), ~GenRealTxError(t), t.amount.val >= 0,
           ServiceFee + t.fee.val + t.amount.val + gasUsed < Int64Half,
           NEW selected \in Nat, selected >= TotalAmount(t, gasUsed)
    PROVE  /\ PaidOut(GenComplianceCheckTx(t, selected)) = selected
           /\ PaidOut(GenRealTx(t, GenComplianceCheckTx(t, selected).back[1]))
                = GenComplianceCheckTx(t, selected).back[1]
<1>1. t.fee.val \in Nat /\ t.amount.val \in Nat /\ Fee(t) = t.fee.val
  BY StringVal DEF Command, GenRealTxError, Valid, Fee
<1>2. TotalAmount(t, gasUsed) = ServiceFee + t.fee.val + t.amount.val + gasUsed
  <2>1. ExtraAmount(t) = ServiceFee + t.fee.val + t.amount.val
    BY <1>1, NoWrap, TxAssemblyAssumption DEF ExtraAmount
  <2> QED
    BY <1>1, <2>1, NoWrap, TxAssemblyAssumption DEF TotalAmount
<1> DEFINE change == GenComplianceCheckTx(t, selected).back[1]
<1>3. change = selected - ServiceFee /\ change >= t.fee.val + t.amount.val
  BY <1>1, <1>2, TxAssemblyAssumption DEF GenComplianceCheckTx, Delta
<1>4. PaidOut(GenComplianceCheckTx(t, selected)) = selected
  BY <1>3, TxAssemblyAssumption DEF GenComplianceCheckTx, PaidOut
<1>5. PaidOut(GenRealTx(t, change)) = change
  <2> HIDE DEF change
  <2>1. change \in Int
    BY <1>3, TxAssemblyAssumption
  <2> QED
    BY <1>1, <1>3, <2>1 DEF GenRealTx, PaidOut, Bytes
<1> QED
  BY <1>4, <1>5

---------------------------------------------------------------------------
(* The loop of the split command.                                          *)

\* The loop's invariant: splitI - 1 equal outputs are made, and splitRest is the
\* balance less what they hold.
LoopInv ==
    splitPc = "loop" =>
        /\ splitNum \in 1..splitTotal
        /\ splitI <= splitNum
        /\ splitRest = splitTotal - (splitI - 1) * amount
        /\ txOutputs = [j \in 1..(splitI - 1) |-> amount]

SplitInv ==
    /\ SplitTypes
    /\ splitPc = "start" => splitRest = splitTotal /\ splitI = 1 /\ txOutputs = <<>>
    /\ LoopInv
    /\ SplitExact

\* Integer division as the loop uses it: the quotient of a balance no smaller
\* than num is at least 1, and num times it does not exceed the balance.
LEMMA Quotient ==
    ASSUME NEW t \in Nat, NEW n \in 1..t
    PROVE  /\ t \div n \in Nat \ {0}
           /\ n * (t \div n) <= t
  OBVIOUS

\* A product grows with its first factor.
LEMMA Monotone ==
    ASSUME NEW m \in Nat, NEW n \in Nat, NEW a \in Nat, m <= n
    PROVE  m * a <= n * a
  OBVIOUS

\* (k + 1) a = k a + a
LEMMA OneMore ==
    ASSUME NEW k \in Int, NEW a \in Int
    PROVE  (k + 1) * a = k * a + a
  OBVIOUS

\* Appending b to k copies of a.
LEMMA AppendCopies ==
    ASSUME NEW k \in Nat, NEW a \in Nat, NEW b \in Nat
    PROVE  Append([j \in 1..k |-> a], b)
             = [j \in 1..(k + 1) |-> IF j < k + 1 THEN a ELSE b]
<1> DEFINE s == [j \in 1..k |-> a]
           r == [j \in 1..(k + 1) |-> IF j < k + 1 THEN a ELSE b]
<1>1. s \in Seq(Nat) /\ Len(s) = k
  OBVIOUS
<1>2. Append(s, b) = [j \in 1..(Len(s) + 1) |-> IF j <= Len(s) THEN s[j] ELSE b]
  BY <1>1
<1> QED
  BY <1>1, <1>2

\* In the loop, while i < num more than one part is left: the second condition
\* of the for loop holds whenever the first does.
LEMMA EnoughLeft ==
    ASSUME SplitTypes, LoopInv, splitPc = "loop", splitI < splitNum
    PROVE  splitRest > amount
<1> DEFINE a == splitTotal \div splitNum
<1>1. splitTotal \in Nat /\ splitNum \in 1..splitTotal /\ splitI \in Nat \ {0}
  BY SplitAssumption DEF SplitTypes, LoopInv
<1>2. a \in Nat \ {0} /\ splitNum * a <= splitTotal
  BY <1>1, Quotient
<1> HIDE DEF a
<1>3. (splitI + 1) * a <= splitNum * a
  BY <1>1, <1>2, Monotone
<1>4. (splitI + 1) * a = (splitI - 1) * a + a + a
  BY <1>1, <1>2, OneMore, splitI + 1 = splitI - 1 + 1 + 1
<1>5. splitRest = splitTotal - (splitI - 1) * a
  BY DEF LoopInv, amount, a
<1>6. (splitI - 1) * a \in Int /\ splitNum * a \in Int
  BY <1>1, <1>2
<1>7. splitRest > a
  BY <1>1, <1>2, <1>3, <1>4, <1>5, <1>6
<1> QED
  BY <1>7 DEF amount, a

\* The initial states satisfy the invariant.
LEMMA SplitInitInv == SplitInit => SplitInv
  BY SplitAssumption DEF SplitInit, SplitInv, SplitTypes, LoopInv, SplitExact

\* Entering or refusing to enter the loop keeps the invariant.
LEMMA SplitStartStep == SplitInv /\ (Refuse \/ Enter) => SplitInv'
<1> SUFFICES ASSUME SplitInv, Refuse \/ Enter PROVE SplitInv'
  OBVIOUS
<1>1. splitTotal \in Nat /\ splitNum \in Int /\ splitRest = splitTotal /\ splitI = 1
      /\ txOutputs = <<>>
  BY SplitAssumption DEF SplitInv, SplitTypes, Refuse, Enter
<1>2. CASE Refuse
  BY <1>2 DEF SplitInv, SplitTypes, LoopInv, SplitExact, Refuse, amount
<1>3. CASE Enter
  <2>1. splitNum \in 1..splitTotal
    BY <1>1, <1>3 DEF Enter, SplitRefused
  <2>2. 0 * amount = 0
    BY <1>1, <2>1, Quotient DEF amount
  <2>3. LoopInv'
    BY <1>1, <1>3, <2>1, <2>2 DEF Enter, LoopInv, amount
  <2> QED
    BY <1>1, <1>3, <2>1, <2>3 DEF SplitInv, SplitTypes, SplitExact, Enter
<1> QED
  BY <1>2, <1>3

\* One pass of the loop keeps the invariant.
LEMMA SplitIterateStep == SplitInv /\ Iterate => SplitInv'
<1> SUFFICES ASSUME SplitInv, Iterate PROVE SplitInv'
  OBVIOUS
<1> DEFINE a == splitTotal \div splitNum
<1>1. splitTotal \in Nat /\ splitNum \in 1..splitTotal /\ splitI \in Nat \ {0}
      /\ splitI < splitNum /\ splitRest \in Nat
  BY SplitAssumption DEF SplitInv, SplitTypes, LoopInv, Iterate, Continues
<1>2. a \in Nat \ {0} /\ a' = a /\ amount = a /\ amount' = a
  BY <1>1, Quotient DEF Iterate, amount
<1> HIDE DEF a
<1>3. splitRest' = splitRest - a /\ splitRest > a /\ splitI' = splitI + 1
      /\ txOutputs' = Append(txOutputs, a)
      /\ UNCHANGED <<splitTotal, splitNum, splitPc>> /\ splitPc = "loop"
  BY <1>2 DEF Iterate, Continues
<1>4. splitRest = splitTotal - (splitI - 1) * a /\ txOutputs = [j \in 1..(splitI - 1) |-> a]
  BY <1>2, <1>3 DEF SplitInv, LoopInv
<1>5. splitI * a = (splitI - 1) * a + a
  BY <1>1, <1>2, OneMore, splitI = splitI - 1 + 1
<1>6. splitRest' = splitTotal - (splitI' - 1) * a
  <2>1. (splitI - 1) * a \in Int
    BY <1>1, <1>2
  <2>2. splitI' - 1 = splitI
    BY <1>1, <1>3
  <2> QED
    BY <1>1, <1>2, <1>3, <1>4, <1>5, <2>1, <2>2
<1>7. txOutputs' = [j \in 1..(splitI' - 1) |-> a]
  <2>1. Append([j \in 1..(splitI - 1) |-> a], a)
          = [j \in 1..((splitI - 1) + 1) |-> IF j < (splitI - 1) + 1 THEN a ELSE a]
    BY <1>1, <1>2, AppendCopies
  <2>2. (splitI - 1) + 1 = splitI' - 1
    BY <1>1, <1>3
  <2> QED
    BY <1>3, <1>4, <2>1, <2>2
<1>8. LoopInv'
  BY <1>1, <1>2, <1>3, <1>6, <1>7 DEF LoopInv
<1>9. SplitTypes'
  <2>1. splitRest' \in Nat /\ splitI' \in 1..splitNum
    BY <1>1, <1>2, <1>3
  <2>2. txOutputs' \in Seq(Nat)
    BY <1>2, <1>3 DEF SplitInv, SplitTypes
  <2> QED
    BY <1>3, <2>1, <2>2 DEF SplitInv, SplitTypes
<1> QED
  BY <1>3, <1>8, <1>9 DEF SplitInv, SplitExact

\* Leaving the loop happens at i = num, with the rest as the last output.
LEMMA SplitFinishStep == SplitInv /\ Finish => SplitInv'
<1> SUFFICES ASSUME SplitInv, Finish PROVE SplitInv'
  OBVIOUS
<1> DEFINE a == splitTotal \div splitNum
<1>1. splitTotal \in Nat /\ splitNum \in 1..splitTotal /\ splitI \in 1..splitNum
      /\ splitRest \in Nat /\ splitPc = "loop"
  BY SplitAssumption DEF SplitInv, SplitTypes, LoopInv, Finish
<1>2. a \in Nat \ {0} /\ amount = a
  BY <1>1, Quotient DEF amount
<1>3. splitI = splitNum
  BY <1>1, EnoughLeft DEF SplitInv, Finish, Continues
<1>4. splitRest = splitTotal - (splitNum - 1) * a /\ txOutputs = [j \in 1..(splitNum - 1) |-> a]
  BY <1>1, <1>2, <1>3 DEF SplitInv, LoopInv
<1>5. SplitOutputs(splitTotal, splitNum) = [j \in 1..splitNum |-> IF j < splitNum THEN a
      ELSE splitTotal - (splitNum - 1) * a]
  BY DEF SplitOutputs
<1> HIDE DEF a
<1>6. Append([j \in 1..(splitNum - 1) |-> a], splitRest)
        = [j \in 1..((splitNum - 1) + 1) |-> IF j < (splitNum - 1) + 1 THEN a ELSE splitRest]
  BY <1>1, <1>2, AppendCopies
<1>7. (splitNum - 1) + 1 = splitNum
  BY <1>1
<1>8. txOutputs' = SplitOutputs(splitTotal, splitNum)
  BY <1>4, <1>5, <1>6, <1>7 DEF Finish
<1>9. SplitExact'
  BY <1>8 DEF SplitExact, Finish, SplitOutputs
<1>10. SplitTypes'
  BY <1>1 DEF SplitInv, SplitTypes, Finish
<1> QED
  BY <1>9, <1>10 DEF SplitInv, LoopInv, Finish

\* For every balance and every num, what genSplitOutputs returns is the closed
\* form TxFlow uses: exactly num outputs that add up to the balance.
THEOREM SplitIsExact == SplitSpec => []SplitExact
<1>1. SplitInit => SplitInv
  BY SplitInitInv
<1>2. SplitInv /\ [SplitNext]_splitVars => SplitInv'
  <2>1. SplitInv /\ UNCHANGED splitVars => SplitInv'
    BY DEF SplitInv, SplitTypes, LoopInv, SplitExact, splitVars, amount
  <2> QED
    BY <2>1, SplitStartStep, SplitIterateStep, SplitFinishStep DEF SplitNext
<1>3. SplitInv => SplitExact
  BY DEF SplitInv
<1> QED
  BY <1>1, <1>2, <1>3, PTL DEF SplitSpec

---------------------------------------------------------------------------
(* The transactions of the commands: typed, balanced, and what they cost.  *)

CoinSet == [src : Clients \cup {"genesis"}, kind : Kinds, ix : Nat, amount : Nat \ {0}]
Transactions == [ins : SUBSET CoinSet, pay : Nat, fee : Nat, service : Nat, back : Seq(Nat)]
Places == {"lookup", "start", "select", "preexec", "endorse", "waiting", "post"} \cup Ended

Tx(ins, outs) == [ins |-> ins, pay |-> outs.pay, fee |-> outs.fee, service |-> outs.service,
back |-> outs.back]
Cost(tx) == tx.pay + tx.fee + tx.service

\* A job is a command in the sense of the theorems on TxAssembly.
LEMMA JobIsCommand == ASSUME NEW t, JobOK(t) PROVE Command(t)
<1>1. ASSUME NEW s \in {t.amount, t.fee} PROVE s \in Strings
  <2>1. s \in [kind : {"empty", "bad", "num"}, val : Int] /\ (s.kind # "num" => s.val = 0)
    BY DEF JobOK
  <2>2. s = [kind |-> s.kind, val |-> s.val]
    BY <2>1
  <2> QED  BY <2>1, <2>2 DEF Strings, Empty, NotANumber, Num
<1> QED  BY <1>1 DEF JobOK, Command

\* The outputs a transaction creates are finitely many coins of that transaction.
LEMMA CoinsFacts ==
    ASSUME NEW src \in Clients \cup {"genesis"}, NEW kind \in Kinds, NEW back \in Seq(Nat)
    PROVE  /\ Coins(src, kind, back) \subseteq CoinSet
           /\ IsFiniteSet(Coins(src, kind, back))
           /\ \A u \in Coins(src, kind, back) : u.src = src /\ u.kind = kind
<1> DEFINE C == Coins(src, kind, back)
<1>1. ASSUME NEW u \in C
      PROVE  u \in CoinSet /\ u.src = src /\ u.kind = kind /\ u.ix \in DOMAIN back
             /\ u.amount = back[u.ix]
  <2>1. PICK i \in DOMAIN back : back[i] > 0 /\ u = [src |-> src, kind |-> kind, ix |-> i,
             amount |-> back[i]]
    BY DEF Coins, Coin
  <2>2. i \in Nat /\ back[i] \in Nat \ {0}
    BY <2>1
  <2> QED  BY <2>1, <2>2 DEF CoinSet
<1>2. IsFiniteSet(DOMAIN back)
  <2>1. DOMAIN back = 1..Len(back) /\ Len(back) \in Nat
    OBVIOUS
  <2> QED  BY <2>1, FS_Interval
<1>3. IsFiniteSet(C)
  <2> DEFINE f == [u \in C |-> u.ix]
  <2>1. \A u, v \in C : u.ix = v.ix => u = v
    <3> TAKE u \in C, v \in C
    <3> HAVE u.ix = v.ix
    <3>1. u = [src |-> u.src, kind |-> u.kind, ix |-> u.ix, amount |-> u.amount]
      BY <1>1 DEF CoinSet
    <3>2. v = [src |-> v.src, kind |-> v.kind, ix |-> v.ix, amount |-> v.amount]
      BY <1>1 DEF CoinSet
    <3>3. u.src = v.src /\ u.kind = v.kind /\ u.amount = v.amount
      BY <1>1
    <3> QED  BY <3>1, <3>2, <3>3
  <2>2. f \in [C -> DOMAIN back]
    BY <1>1
  <2>3. f \in Injection(C, DOMAIN back)
    BY <2>1, <2>2 DEF Injection, IsInjective
  <2> HIDE DEF C, f
  <2> QED  BY <1>2, <2>3, FS_Injection
<1> QED  BY <1>1, <1>3

\* One output to the payer is worth its amount, also when it is zero and not kept.
LEMMA CoinsSum ==
    ASSUME NEW src, NEW kind, NEW n \in Nat
    PROVE  SumOf(Coins(src, kind, <<n>>)) = n
<1>1. CASE n = 0
  <2>1. Coins(src, kind, <<n>>) = {}
    BY <1>1 DEF Coins
  <2> QED  BY <1>1, <2>1, SumOfFacts
<1>2. CASE n > 0
  <2>1. Coins(src, kind, <<n>>) = {Coin(src, kind, 1, n)}
    BY <1>2 DEF Coins, Coin
  <2>2. Coin(src, kind, 1, n).amount = n
    BY DEF Coin
  <2> QED  BY <2>1, <2>2, SumOfFacts
<1> QED  BY <1>1, <1>2

\* The sum of a finite set of coins is natural.
LEMMA CoinSetSum ==
    ASSUME NEW S, S \subseteq CoinSet, IsFiniteSet(S)
    PROVE  SumOf(S) \in Nat
  BY SumOfNat DEF CoinSet

\* GenRawTx, by GenTxInputs
LEMMA RawTx ==
    ASSUME NEW t, JobOK(t), NEW g \in Int, ~GenTxOutputsError(t, g),
           NEW S, S \subseteq CoinSet, IsFiniteSet(S), SumOf(S) >= TotalNeed(t)
    PROVE  LET tx == Tx(S, GenRawTx(t, SumOf(S)))
           IN  tx \in Transactions /\ Balanced(tx) /\ Cost(tx) = Pay(t) + Fee(t)
<1> DEFINE sel == SumOf(S)
           dl == Delta(sel, TotalNeed(t))
           tx == Tx(S, GenRawTx(t, sel))
<1>1. Command(t) /\ sel \in Nat
  BY JobIsCommand, CoinSetSum
<1>2. Pay(t) \in Nat /\ Fee(t) \in Nat /\ TotalNeed(t) = Pay(t) + Fee(t)
  BY <1>1, NeedIsNat DEF GenTxOutputsError, TotalNeed
<1> HIDE DEF sel
<1>3. dl = sel - TotalNeed(t) /\ dl \in Nat
  BY <1>1, <1>2 DEF Delta, sel
<1>4. tx.ins = S /\ tx.pay = Pay(t) /\ tx.fee = Fee(t) /\ tx.service = 0 /\ tx.back = <<dl>>
  BY DEF Tx, GenRawTx
<1>5. tx \in Transactions
  BY <1>2, <1>3 DEF Tx, GenRawTx, Transactions
<1> HIDE DEF tx, dl
<1>6. SumOfSeq(tx.back) = dl
  BY <1>3, <1>4, SumOfOne
<1>7. Balanced(tx) /\ Cost(tx) = Pay(t) + Fee(t)
  BY <1>1, <1>2, <1>3, <1>4, <1>6 DEF Balanced, Cost, sel
<1> QED  BY <1>5, <1>7 DEF tx, sel

\* A sequence of one element and one more.
LEMMA AppendOne ==
    ASSUME NEW m \in Nat, NEW n \in Nat
    PROVE  Append(<<m>>, n) = <<m, n>>
<1> DEFINE s == <<m>>
           f == Append(s, n)
<1>1. s \in Seq(Nat) /\ Len(s) = 1 /\ s[1] = m
  OBVIOUS
<1>2. f = [j \in 1..(Len(s) + 1) |-> IF j <= Len(s) THEN s[j] ELSE n]
  BY <1>1
<1> HIDE DEF s
<1>3. f[1] = m /\ f[2] = n /\ DOMAIN f = 1..2 /\ f = [j \in 1..2 |-> f[j]]
  BY <1>1, <1>2
<1> HIDE DEF f
<1>4. \A j \in 1..2 : f[j] = <<m, n>>[j]
  <2>1. \A j \in 1..2 : j = 1 \/ j = 2
    OBVIOUS
  <2> QED  BY <1>3, <2>1
<1>5. <<m, n>> = [j \in 1..2 |-> <<m, n>>[j]]
  OBVIOUS
<1>6. f = <<m, n>>
  BY <1>3, <1>4, <1>5
<1> QED  BY <1>6 DEF f, s

\* The fields of a record after the vote's two assignments.
LEMMA SelfFields ==
    ASSUME NEW p, NEW f, NEW b, NEW c, NEW r, r = [pay |-> p, fee |-> f, service |-> 0, back |-> b]
    PROVE  LET e == [r EXCEPT !.pay = 0, !.back = c]
           IN  e.pay = 0 /\ e.back = c /\ e.fee = f /\ e.service = 0
<1>1. r.fee = f /\ r.service = 0 /\ DOMAIN r = {"pay", "fee", "service", "back"}
  OBVIOUS
<1> QED  BY <1>1

\* assembleTxSupportAccount
LEMMA TransferTx ==
    ASSUME NEW t, JobOK(t), t.cmd = "transfer", ~AssembleError(t),
           NEW S, S \subseteq CoinSet, IsFiniteSet(S), SumOf(S) >= TotalNeed(t)
    PROVE  LET tx == Tx(S, TransferOutputs(t, SumOf(S)))
           IN  tx \in Transactions /\ Balanced(tx) /\ Cost(tx) = Price(t)
<1> DEFINE sel == SumOf(S)
           tx == Tx(S, TransferOutputs(t, sel))
           raw == Tx(S, GenRawTx(t, sel))
<1>1. ~GenTxOutputsError(t, 0) /\ t.to /\ ~t.compliance /\ t.to \in BOOLEAN
  BY DEF AssembleError, GenTxOutputsError, FeeRefused, JobOK
<1>2. raw \in Transactions /\ Balanced(raw) /\ Cost(raw) = Pay(t) + Fee(t)
  BY <1>1, RawTx
<1>3. CASE ~t.self
  <2>1. tx = raw
    BY <1>3 DEF TransferOutputs
  <2>2. Price(t) = Pay(t) + Fee(t)
    BY <1>1, <1>3 DEF Price
  <2> QED  BY <1>2, <2>1, <2>2
<1>4. CASE t.self
  <2> DEFINE dl == Delta(sel, TotalNeed(t))
  <2>1. sel \in Nat /\ Command(t)
    BY CoinSetSum, JobIsCommand
  <2>2. Pay(t) \in Nat /\ Fee(t) \in Nat /\ TotalNeed(t) = Pay(t) + Fee(t)
    BY <1>1, <2>1, NeedIsNat DEF GenTxOutputsError, TotalNeed
  <2>3. dl = sel - TotalNeed(t) /\ dl \in Nat
    BY <2>1, <2>2 DEF Delta
  <2> HIDE DEF dl
  <2>4. GenRawTx(t, sel) = [pay |-> Pay(t), fee |-> Fee(t), service |-> 0, back |-> <<dl>>]
    BY DEF GenRawTx, dl
  <2>5. Append(<<dl>>, Pay(t)) = <<dl, Pay(t)>>
    BY <2>2, <2>3, AppendOne
  <2> DEFINE outs == GenRawTx(t, sel)
             e == TransferOutputs(t, sel)
  <2>6. e.pay = 0 /\ e.back = <<dl, Pay(t)>> /\ e.fee = Fee(t) /\ e.service = 0
    <3>1. e = [outs EXCEPT !.pay = 0, !.back = Append(outs.back, outs.pay)]
      BY <1>4 DEF TransferOutputs
    <3>2. outs.back = <<dl>> /\ outs.pay = Pay(t)
      BY <2>4
    <3>3. e = [outs EXCEPT !.pay = 0, !.back = <<dl, Pay(t)>>]
      BY <2>5, <3>1, <3>2
    <3>4. outs = [pay |-> Pay(t), fee |-> Fee(t), service |-> 0, back |-> <<dl>>]
      BY <2>4
    <3> HIDE DEF outs, e
    <3> QED  BY <3>3, <3>4, SelfFields
  <2>7. tx = [ins |-> S, pay |-> 0, fee |-> Fee(t), service |-> 0, back |-> <<dl, Pay(t)>>]
    BY <2>6 DEF Tx
  <2>8. tx \in Transactions
    BY <2>2, <2>3, <2>7 DEF Transactions
  <2>9. SumOfSeq(<<dl, Pay(t)>>) = dl + Pay(t)
    BY <2>2, <2>3, SumOfTwo
  <2>10. Price(t) = Fee(t)
    BY <1>1, <1>4 DEF Price
  <2>11. tx.ins = S /\ tx.pay = 0 /\ tx.fee = Fee(t) /\ tx.service = 0 /\ tx.back = <<dl, Pay(t)>>
    BY <2>7
  <2> HIDE DEF tx
  <2>12. Balanced(tx) /\ Cost(tx) = Price(t)
    BY <2>1, <2>2, <2>3, <2>9, <2>10, <2>11 DEF Balanced, Cost, sel
  <2> QED  BY <2>8, <2>12 DEF tx, sel
<1> QED  BY <1>3, <1>4 DEF JobOK

\* GenTxInputsWithMergeUTXO
LEMMA MergeMade ==
    ASSUME NEW S, S \subseteq CoinSet, IsFiniteSet(S)
    PROVE  LET tx == Tx(S, MergeTx(SumOf(S)))
           IN  tx \in Transactions /\ Balanced(tx) /\ Cost(tx) = 0
<1> DEFINE tx == Tx(S, MergeTx(SumOf(S)))
<1>1. SumOf(S) \in Nat
  BY CoinSetSum
<1>2. tx.ins = S /\ tx.pay = 0 /\ tx.fee = 0 /\ tx.service = 0 /\ tx.back = <<SumOf(S)>>
  BY DEF Tx, MergeTx
<1>3. tx \in Transactions
  BY <1>1 DEF Tx, MergeTx, Transactions
<1> HIDE DEF tx
<1>4. Balanced(tx) /\ Cost(tx) = 0
  BY <1>1, <1>2, SumOfOne DEF Balanced, Cost
<1> QED  BY <1>3, <1>4 DEF tx

\* genSplitOutputs and the change of GenTxInputs
LEMMA SplitMade ==
    ASSUME NEW S, S \subseteq CoinSet, IsFiniteSet(S), NEW total \in Nat, NEW num \in 1..total,
           SumOf(S) >= total
    PROVE  LET tx == Tx(S, SplitTx(SumOf(S), total, num))
           IN  tx \in Transactions /\ Balanced(tx) /\ Cost(tx) = 0
<1> DEFINE sel == SumOf(S)
           dl == Delta(sel, total)
           a == total \div num
           k == num - 1
           r == total - k * a
           back == SplitTx(sel, total, num).back
           tx == Tx(S, SplitTx(sel, total, num))
<1>1. sel \in Nat /\ dl = sel - total /\ dl \in Nat
  BY CoinSetSum DEF Delta
<1>2. a \in Nat /\ num * a <= total /\ k \in Nat /\ num = k + 1
  OBVIOUS
<1> HIDE DEF a
<1>3. num * a = k * a + a /\ k * a \in Nat
  BY <1>2
<1>4. r \in Nat
  BY <1>2, <1>3
<1>5. back = [i \in 1..(num + 1) |-> IF i <= num THEN (IF i < num THEN a ELSE r) ELSE dl]
  BY <1>2 DEF SplitTx, SplitOutputs, a
<1> HIDE DEF back, dl, r, sel
<1>6. DOMAIN back = 1..(k + 2) /\ (\A i \in 1..k : back[i] = a) /\ back[k + 1] = r /\ back[k + 2] = dl
  BY <1>2, <1>5
<1> HIDE DEF k
<1>7. SumOfSeq(back) = k * a + r + dl
  <2>1. k \in Nat /\ a \in Int /\ r \in Int /\ dl \in Int
    BY <1>1, <1>2, <1>4
  <2> QED  BY <1>6, <2>1, SumOfCopies
<1>8. SumOfSeq(back) = sel
  BY <1>1, <1>3, <1>4, <1>7 DEF r
<1>9. back \in Seq(Nat)
  <2>1. \A i \in 1..(num + 1) : back[i] \in Nat
    BY <1>1, <1>2, <1>4, <1>5
  <2>2. back = [i \in 1..(num + 1) |-> back[i]] /\ num + 1 \in Nat
    BY <1>5
  <2> QED  BY <2>1, <2>2
<1>10. tx = [ins |-> S, pay |-> 0, fee |-> 0, service |-> 0, back |-> back]
  BY DEF Tx, SplitTx, back
<1>11. tx \in Transactions
  BY <1>9, <1>10 DEF Transactions
<1>12. tx.ins = S /\ tx.pay = 0 /\ tx.fee = 0 /\ tx.service = 0 /\ tx.back = back
  BY <1>10
<1> HIDE DEF tx
<1>13. Balanced(tx) /\ Cost(tx) = 0
  BY <1>1, <1>8, <1>12 DEF Balanced, Cost, sel
<1> QED  BY <1>11, <1>13 DEF tx, sel

BothMade(t, c, m) ==
    LET S == m["fee"].ins
        change == Coins(c, "fee", <<Delta(SumOf(S), ServiceFee)>>)
    IN  /\ m["fee"] = Tx(S, GenComplianceCheckTx(t, SumOf(S)))
        /\ m["main"] = Tx(change, GenRealTx(t, SumOf(change)))
        /\ S \subseteq CoinSet /\ IsFiniteSet(S) /\ SumOf(S) >= 1
        /\ ~ReqError(t) /\ ~GenRealTxError(t)
        /\ \E g \in Gas : SumOf(S) >= TotalAmount(t, g)
        /\ \A u \in S : ~(u.src = c /\ u.kind = "fee")

\* The fields of both transactions.
LEMMA BothFields ==
    ASSUME NEW t, JobOK(t), NEW c \in Clients, NEW m, BothMade(t, c, m),
           NEW sel, sel = SumOf(m["fee"].ins), NEW dl, dl = Delta(sel, ServiceFee)
    PROVE  /\ sel \in Nat /\ sel >= 1 /\ dl \in Nat
           /\ t.amount.val \in Int /\ t.fee.val \in Nat /\ Fee(t) = t.fee.val
           /\ m["fee"].pay = 0 /\ m["fee"].fee = 0
           /\ m["fee"].service = IF t.feeAddr THEN ServiceFee ELSE 0
           /\ m["fee"].back = <<dl>>
           /\ m["main"].ins = Coins(c, "fee", m["fee"].back)
           /\ SumOf(m["main"].ins) = dl
           /\ m["main"].pay = Bytes(t.amount.val) /\ m["main"].fee = t.fee.val
                /\ m["main"].service = 0
           /\ m["main"].back = <<Bytes(dl - (t.fee.val + t.amount.val))>>
<1> DEFINE S == m["fee"].ins
           change == Coins(c, "fee", <<dl>>)
<1>1. sel \in Nat /\ sel >= 1
  BY CoinSetSum DEF BothMade
<1>2. dl \in Nat
  BY <1>1, TxAssemblyAssumption DEF Delta
<1>3. t.amount.val \in Int /\ t.fee.val \in Nat /\ Fee(t) = t.fee.val
  <2>1. Command(t) /\ ~GenRealTxError(t)
    BY JobIsCommand DEF BothMade
  <2> QED  BY <2>1, StringVal DEF Command, GenRealTxError, Valid, Fee
<1>4. m["fee"] = Tx(S, GenComplianceCheckTx(t, sel))
  BY DEF BothMade
<1>5. m["fee"].pay = 0 /\ m["fee"].fee = 0 /\ m["fee"].service = (IF t.feeAddr THEN ServiceFee ELSE 0)
      /\ m["fee"].back = <<dl>>
  BY <1>4 DEF Tx, GenComplianceCheckTx
<1>6. SumOf(change) = dl
  BY <1>2, CoinsSum
<1>7. m["main"] = Tx(change, GenRealTx(t, dl))
  BY <1>6 DEF BothMade
<1> HIDE DEF change
<1>8. m["main"].ins = change /\ m["main"].pay = Bytes(t.amount.val) /\ m["main"].fee = Fee(t)
      /\ m["main"].service = 0 /\ m["main"].back = <<Bytes(dl - (t.fee.val + t.amount.val))>>
  BY <1>7 DEF Tx, GenRealTx
<1> QED  BY <1>1, <1>2, <1>3, <1>5, <1>6, <1>8 DEF change

\* Both are transactions.
LEMMA BothTyped ==
    ASSUME NEW t, JobOK(t), NEW c \in Clients, NEW m, BothMade(t, c, m)
    PROVE  m["fee"] \in Transactions /\ m["main"] \in Transactions
<1> DEFINE S == m["fee"].ins
           sel == SumOf(S)
           dl == Delta(sel, ServiceFee)
           x == Bytes(dl - (t.fee.val + t.amount.val))
           change == Coins(c, "fee", <<dl>>)
<1>1. /\ dl \in Nat /\ t.amount.val \in Int /\ t.fee.val \in Nat /\ Fee(t) = t.fee.val
      /\ SumOf(m["main"].ins) = dl /\ m["main"].ins = change
  <2> HIDE DEF dl, sel
  <2>1. sel = SumOf(m["fee"].ins) /\ dl = Delta(sel, ServiceFee)
    BY DEF dl, sel
  <2> QED  BY <2>1, BothFields
<1>2. S \subseteq CoinSet /\ change \subseteq CoinSet
  <2>1. <<dl>> \in Seq(Nat) /\ "fee" \in Kinds
    BY <1>1 DEF Kinds
  <2> QED  BY <2>1, CoinsFacts DEF BothMade
<1>3. x \in Nat /\ Bytes(t.amount.val) \in Nat
  BY <1>1 DEF Bytes
<1>4. m["fee"] = [ins |-> S, pay |-> 0, fee |-> 0, service |-> IF t.feeAddr THEN ServiceFee
      ELSE 0, back |-> <<dl>>]
  BY DEF BothMade, Tx, GenComplianceCheckTx
<1>5. m["main"] = [ins |-> change, pay |-> Bytes(t.amount.val), fee |-> t.fee.val, service |-> 0,
      back |-> <<x>>]
  <2>1. m["main"] = Tx(change, GenRealTx(t, SumOf(change)))
    BY DEF BothMade
  <2>2. SumOf(change) = dl
    BY <1>1
  <2> QED  BY <1>1, <2>1, <2>2 DEF Tx, GenRealTx
<1> HIDE DEF S, change, dl, x
<1>6. m["fee"] \in Transactions
  BY <1>1, <1>2, <1>4, TxAssemblyAssumption DEF Transactions
<1>7. m["main"] \in Transactions
  BY <1>1, <1>2, <1>3, <1>5 DEF Transactions
<1> QED  BY <1>6, <1>7

\* What the node accepts of them costs what it should.
LEMMA BothCost ==
    ASSUME NEW t, JobOK(t), NEW c \in Clients, NEW m, BothMade(t, c, m)
    PROVE  /\ Balanced(m["fee"]) => Cost(m["fee"]) = ServiceFee
           /\ Balanced(m["main"]) => Cost(m["main"]) = t.fee.val + t.amount.val
<1> DEFINE sel == SumOf(m["fee"].ins)
           dl == Delta(sel, ServiceFee)
           x == Bytes(dl - (t.fee.val + t.amount.val))
<1>1. sel = SumOf(m["fee"].ins) /\ dl = Delta(sel, ServiceFee)
  OBVIOUS
<1> HIDE DEF sel, dl
<1>2. /\ sel \in Nat /\ sel >= 1 /\ dl \in Nat
      /\ t.amount.val \in Int /\ t.fee.val \in Nat
      /\ m["fee"].pay = 0 /\ m["fee"].fee = 0
      /\ m["fee"].service = IF t.feeAddr THEN ServiceFee ELSE 0
      /\ m["fee"].back = <<dl>>
      /\ SumOf(m["main"].ins) = dl
      /\ m["main"].pay = Bytes(t.amount.val) /\ m["main"].fee = t.fee.val /\ m["main"].service = 0
      /\ m["main"].back = <<x>>
  BY <1>1, BothFields
<1>3. x \in Nat
  BY <1>2 DEF Bytes
<1>4. SumOfSeq(m["fee"].back) = dl /\ SumOfSeq(m["main"].back) = x
  <2> HIDE DEF x
  <2> QED  BY <1>2, <1>3, SumOfOne
<1>5. ASSUME Balanced(m["fee"]) PROVE Cost(m["fee"]) = ServiceFee
  <2>1. sel = (IF t.feeAddr THEN ServiceFee ELSE 0) + dl
    BY <1>1, <1>2, <1>4, <1>5, TxAssemblyAssumption DEF Balanced
  <2>2. Cost(m["fee"]) = IF t.feeAddr THEN ServiceFee ELSE 0
    BY <1>2, TxAssemblyAssumption DEF Cost
  <2> QED  BY <1>1, <1>2, <2>1, <2>2, TxAssemblyAssumption DEF Delta
<1>6. ASSUME Balanced(m["main"]) PROVE Cost(m["main"]) = t.fee.val + t.amount.val
  <2>1. dl = Bytes(t.amount.val) + t.fee.val + x
    BY <1>2, <1>3, <1>4, <1>6 DEF Balanced, Bytes
  <2>2. t.amount.val >= 0
    BY <1>2, <2>1 DEF Bytes
  <2> QED  BY <1>2, <2>2 DEF Cost, Bytes
<1> QED  BY <1>5, <1>6

\* They balance for a command whose amounts make sense.
LEMMA BothBalanced ==
    ASSUME NEW t, JobOK(t), NEW c \in Clients, NEW m, BothMade(t, c, m), t.compliance, Sound(t)
    PROVE  Balanced(m["fee"]) /\ Balanced(m["main"])
<1> DEFINE sel == SumOf(m["fee"].ins)
           dl == Delta(sel, ServiceFee)
           x == Bytes(dl - (t.fee.val + t.amount.val))
<1>1. sel = SumOf(m["fee"].ins) /\ dl = Delta(sel, ServiceFee)
  OBVIOUS
<1> HIDE DEF sel, dl
<1>2. /\ sel \in Nat /\ sel >= 1 /\ dl \in Nat
      /\ t.amount.val \in Int /\ t.fee.val \in Nat /\ Fee(t) = t.fee.val
      /\ m["fee"].pay = 0 /\ m["fee"].fee = 0
      /\ m["fee"].service = IF t.feeAddr THEN ServiceFee ELSE 0
      /\ m["fee"].back = <<dl>>
      /\ SumOf(m["main"].ins) = dl
      /\ m["main"].pay = Bytes(t.amount.val) /\ m["main"].fee = t.fee.val /\ m["main"].service = 0
      /\ m["main"].back = <<x>>
  BY <1>1, BothFields
<1>3. x \in Nat
  BY <1>2 DEF Bytes
<1>4. SumOfSeq(m["fee"].back) = dl /\ SumOfSeq(m["main"].back) = x
  <2> HIDE DEF x
  <2> QED  BY <1>2, <1>3, SumOfOne
<1>5. PICK g \in Gas : sel >= TotalAmount(t, g)
  BY <1>1 DEF BothMade
<1>6. t.feeAddr /\ t.amount.val >= 0 /\ ServiceFee + t.fee.val + t.amount.val + g < Int64Half
      /\ g \in Nat
  BY TxFlowAssumption DEF Sound
<1>7. TotalAmount(t, g) = ServiceFee + t.fee.val + t.amount.val + g
  <2>1. ExtraAmount(t) = ServiceFee + t.fee.val + t.amount.val
    BY <1>2, <1>6, NoWrap, TxAssemblyAssumption DEF ExtraAmount
  <2> QED  BY <1>2, <1>6, <2>1, NoWrap, TxAssemblyAssumption DEF TotalAmount
<1>8. dl = sel - ServiceFee /\ dl >= t.fee.val + t.amount.val
  BY <1>1, <1>2, <1>5, <1>6, <1>7, TxAssemblyAssumption DEF Delta
<1>9. Balanced(m["fee"])
  BY <1>1, <1>2, <1>4, <1>6, <1>8, TxAssemblyAssumption DEF Balanced
<1>10. Balanced(m["main"])
  BY <1>2, <1>3, <1>4, <1>6, <1>8 DEF Balanced, Bytes
<1> QED  BY <1>9, <1>10

---------------------------------------------------------------------------
(* The inductive invariant and the four kinds of steps.                    *)

Types ==
    /\ job \in [Clients -> Jobs]
    /\ pc \in [Clients -> Places]
    /\ balance \in [Clients -> Nat]
    /\ made \in [Clients -> [Kinds -> Transactions]]
    /\ utxo \subseteq CoinSet /\ IsFiniteSet(utxo)
    /\ locked \subseteq utxo
    /\ accepted \subseteq Clients \X Kinds
    /\ endorser \in [Clients -> {"idle", "called", "paid", "signed", "refused"}]

\* which command is where: t the job, p the place, e the endorser's handler
Control(t, p, e) ==
    /\ p = "select" => t.cmd \in {"invoke", "gen", "split"} /\ ~t.compliance
    /\ p = "preexec" => t.cmd \in {"transfer", "merge", "split"}
    /\ p = "post" => t.cmd \in {"invoke", "transfer", "merge", "split"}
    /\ p \in {"endorse", "waiting"} \/ e # "idle" => t.compliance
    /\ p \in {"lookup", "start", "select", "preexec", "endorse"} => e = "idle"
    /\ p \in {"post", "ok"} /\ t.compliance => e = "signed"

\* what a check before SelectUTXO has left
Checked(t, p) ==
    /\ p = "select" /\ t.cmd \in {"invoke", "gen"} => \E g \in Gas : ~GenTxOutputsError(t, g)
    /\ p = "select" /\ t.cmd = "split" => t.num > 0

\* whose transactions are on chain
OnChain(t, p, e, on) ==
    /\ p \in Places \ Ended => "main" \notin on
    /\ "fee" \in on => e \notin {"idle", "called"}
    /\ e \in {"paid", "signed"} => "fee" \in on
    /\ p = "ok" => "main" \in on
    /\ "main" \in on /\ t.compliance => "fee" \in on

Amounts(c, t, p, e, m, on) ==
    /\ ~t.compliance /\ p \in {"preexec", "post"} => Balanced(m["main"])
    /\ ~t.compliance /\ (p \in {"preexec", "post"} \/ "main" \in on) => Cost(m["main"]) = Price(t)
    /\ t.compliance /\ (p \in {"endorse", "waiting", "post"} \/ e # "idle") => BothMade(t, c, m)
    /\ "fee" \in on => Cost(m["fee"]) = ServiceFee
    /\ t.compliance /\ "main" \in on => Cost(m["main"]) = t.fee.val + t.amount.val

Client(c, t, p, e, m, on) ==
    Control(t, p, e) /\ Checked(t, p) /\ OnChain(t, p, e, on) /\ Amounts(c, t, p, e, m, on)

On(c) == {k \in Kinds : <<c, k>> \in accepted}

ClientInv(c) == Client(c, job[c], pc[c], endorser[c], made[c], On(c))

Known(u) == u.src = "genesis" \/ <<u.src, u.kind>> \in accepted
Spent(u) == \E d \in Clients : SpentBy(u, d)

Ledger ==
    /\ \A u \in utxo : Known(u)
    /\ \A d \in Clients, k \in Kinds :
          <<d, k>> \in accepted => \A u \in made[d][k].ins : Known(u) /\ u \notin utxo

Inputs(c) ==
    (job[c].compliance => <<c, "fee">> \in accepted) =>
        \A u \in made[c]["main"].ins : u \in utxo \/ Spent(u)

Holder(t, p) == t.cmd \in {"transfer", "merge"} /\ p \in {"preexec", "post"}
Holds(c) == Holder(job[c], pc[c])
Lost(u) == \E d \in Clients : SpentBy(u, d) /\ job[d].cmd \in {"invoke", "split"}

Locks(c) ==
    Holds(c) => \A u \in made[c]["main"].ins :
        /\ u \in locked \/ u \in lapsed \/ Lost(u)
        /\ \A d \in Clients \ {c} : Holds(d) /\ u \in made[d]["main"].ins => u \in lapsed

IInv ==
    /\ Types
    /\ Ledger
    /\ \A c \in Clients : ClientInv(c) /\ Inputs(c) /\ Locks(c)

\* Every lock that ends before its output is spent has lapsed.
LEMMA ExpiryStep == ASSUME IInv, LockExpires PROVE IInv'
<1> PICK x \in locked : locked' = locked \ {x} /\ lapsed' = lapsed \cup {x}
    /\ UNCHANGED <<job, pc, balance, made, utxo, accepted, endorser>>
  BY DEF LockExpires
<1>1. Types'
  BY DEF IInv, Types
<1>2. Ledger'
  BY DEF IInv, Ledger, Known
<1>3. ASSUME NEW c \in Clients PROVE ClientInv(c)' /\ Inputs(c)' /\ Locks(c)'
  <2>1. ClientInv(c)'
    BY DEF IInv, ClientInv, On
  <2>2. Inputs(c)'
    BY DEF IInv, Inputs, Spent, SpentBy
  <2>3. Locks(c)'
    BY DEF IInv, Locks, Lost, SpentBy, Holds
  <2> QED  BY <2>1, <2>2, <2>3
<1> QED  BY <1>1, <1>2, <1>3 DEF IInv

\* One client moves, its transactions and the chain stay.
LEMMA QuietStep ==
    ASSUME IInv, NEW c \in Clients, NEW p \in Places, NEW e,
           e \in {"idle", "called", "paid", "signed", "refused"},
           pc' = [pc EXCEPT ![c] = p], endorser' = [endorser EXCEPT ![c] = e],
           balance' \in [Clients -> Nat],
           locked \subseteq locked', locked' \subseteq utxo,
           UNCHANGED <<job, made, utxo, lapsed, accepted>>,
           Client(c, job[c], p, e, made[c], On(c)),
           Holder(job[c], p) => Holder(job[c], pc[c])
    PROVE  IInv'
<1>1. Types'
  BY DEF IInv, Types
<1>2. Ledger'
  BY DEF IInv, Ledger, Known
<1>3. /\ pc'[c] = p /\ endorser'[c] = e
      /\ \A d \in Clients \ {c} : pc'[d] = pc[d] /\ endorser'[d] = endorser[d]
      /\ \A d \in Clients : Holds(d)' => Holds(d)
  BY DEF IInv, Types, Holds
<1>4. ASSUME NEW d \in Clients PROVE ClientInv(d)' /\ Inputs(d)' /\ Locks(d)'
  <2>1. ClientInv(d)'
    <3>1. On(d)' = On(d)
      BY DEF On
    <3>2. CASE d = c
      BY <1>3, <3>1, <3>2 DEF ClientInv
    <3>3. CASE d # c
      BY <1>3, <3>1, <3>3 DEF IInv, ClientInv
    <3> QED  BY <3>2, <3>3
  <2>2. Inputs(d)'
    BY DEF IInv, Inputs, Spent, SpentBy
  <2>3. Locks(d)'
    <3>1. Locks(d)
      BY DEF IInv
    <3>2. \A u : Lost(u)' = Lost(u)
      BY DEF Lost, SpentBy
    <3> QED  BY <1>3, <3>1, <3>2 DEF Locks
  <2> QED  BY <2>1, <2>2, <2>3
<1> QED  BY <1>1, <1>2, <1>4 DEF IInv

\* A client assembles its transactions; none of them is on chain yet.
LEMMA MakeStep ==
    ASSUME IInv, NEW c \in Clients, NEW p \in Places, NEW m \in [Kinds -> Transactions],
           pc' = [pc EXCEPT ![c] = p], made' = [made EXCEPT ![c] = m],
           On(c) = {},
           locked \subseteq locked', locked' \subseteq utxo,
           UNCHANGED <<job, balance, utxo, lapsed, accepted, endorser>>,
           Client(c, job[c], p, endorser[c], m, {}),
           ~job[c].compliance => m["main"].ins \subseteq utxo,
           Holder(job[c], p) => m["main"].ins \subseteq (utxo \cap locked') \ locked
    PROVE  IInv'
<1>1. Types'
  BY DEF IInv, Types
<1>2. /\ pc'[c] = p /\ made'[c] = m
      /\ \A d \in Clients \ {c} : pc'[d] = pc[d] /\ made'[d] = made[d]
  BY DEF IInv, Types
<1>3. \A k \in Kinds : <<c, k>> \notin accepted
  BY DEF On
<1>4. \A u : \A d \in Clients : SpentBy(u, d)' = SpentBy(u, d)
  BY <1>2, <1>3 DEF SpentBy
<1>5. \A u : Lost(u)' = Lost(u) /\ Spent(u)' = Spent(u)
  BY <1>4 DEF Lost, Spent
<1>6. Ledger'
  BY <1>2, <1>3 DEF IInv, Ledger, Known
<1>7. ASSUME NEW d \in Clients PROVE ClientInv(d)' /\ Inputs(d)' /\ Locks(d)'
  <2>0. ClientInv(d) /\ Inputs(d) /\ Locks(d) /\ locked \subseteq utxo
    BY DEF IInv, Types
  <2>1. ClientInv(d)'
    <3>1. On(d)' = On(d)
      BY DEF On
    <3>2. CASE d = c
      BY <1>2, <3>1, <3>2 DEF ClientInv
    <3>3. CASE d # c
      BY <1>2, <2>0, <3>1, <3>3 DEF ClientInv
    <3> QED  BY <3>2, <3>3
  <2>2. Inputs(d)'
    <3>1. CASE d = c
      BY <1>2, <1>3, <3>1 DEF Inputs, Kinds
    <3>2. CASE d # c
      BY <1>2, <1>5, <2>0, <3>2 DEF Inputs
    <3> QED  BY <3>1, <3>2
  <2>3. Locks(d)'
    <3>0. SUFFICES ASSUME Holds(d)', NEW u \in made'[d]["main"].ins
                   PROVE  /\ u \in locked' \/ u \in lapsed \/ Lost(u)
                          /\ \A f \in Clients \ {d} : Holds(f)' /\ u \in made'[f]["main"].ins
                               => u \in lapsed
      BY <1>5 DEF Locks
    <3>1. ASSUME NEW f \in Clients \ {c}, Holds(f), NEW v \in made[f]["main"].ins, v \in utxo \ locked
          PROVE  v \in lapsed
      <4>1. v \in lapsed \/ Lost(v)
        BY <3>1 DEF IInv, Locks
      <4>2. ~Lost(v)
        BY <3>1 DEF IInv, Ledger, Lost, SpentBy
      <4> QED  BY <4>1, <4>2
    <3>2. \A f \in Clients \ {c} : Holds(f)' = Holds(f)
      BY <1>2 DEF Holds
    <3>3. Holds(c)' => m["main"].ins \subseteq (utxo \cap locked') \ locked
      BY <1>2 DEF Holds
    <3>4. CASE d = c
      BY <1>2, <3>0, <3>1, <3>2, <3>3, <3>4
    <3>5. CASE d # c
      <4>1. u \in made[d]["main"].ins /\ Holds(d)
        BY <1>2, <3>0, <3>2, <3>5
      <4>2. u \in locked' \/ u \in lapsed \/ Lost(u)
        BY <2>0, <4>1 DEF Locks
      <4>3. ASSUME NEW f \in Clients \ {d}, Holds(f)', u \in made'[f]["main"].ins PROVE u \in lapsed
        <5>1. CASE f = c
          BY <1>2, <3>1, <3>3, <3>5, <4>1, <4>3, <5>1
        <5>2. CASE f # c
          BY <1>2, <2>0, <3>2, <4>1, <4>3, <5>2 DEF Locks
        <5> QED  BY <5>1, <5>2
      <4> QED  BY <4>2, <4>3
    <3> QED  BY <3>4, <3>5
  <2> QED  BY <2>1, <2>2, <2>3
<1> QED  BY <1>1, <1>6, <1>7 DEF IInv

\* The node accepts a client's transaction.
LEMMA SubmitStep ==
    ASSUME IInv, NEW c \in Clients, NEW k \in Kinds, SubmitTx(c, k),
           NEW p \in Places, NEW e,
           e \in {"idle", "called", "paid", "signed", "refused"},
           pc' = [pc EXCEPT ![c] = p], endorser' = [endorser EXCEPT ![c] = e],
           UNCHANGED <<job, balance, made>>,
           Client(c, job[c], p, e, made[c], On(c) \cup {k}),
           k = "main" => pc[c] = "post" /\ p \in Ended,
           k = "fee" => job[c].compliance /\ BothMade(job[c], c, made[c]) /\ p = pc[c]
    PROVE  IInv'
<1> DEFINE tx == made[c][k]
           new == Coins(c, k, tx.back)
<1>1. /\ <<c, k>> \notin accepted /\ tx.ins \subseteq utxo
      /\ utxo' = (utxo \ tx.ins) \cup new /\ locked' = locked \ tx.ins
      /\ accepted' = accepted \cup {<<c, k>>} /\ lapsed' = lapsed
  BY DEF SubmitTx, Acceptable
<1>2. tx \in Transactions /\ tx.back \in Seq(Nat)
  <2>1. tx \in Transactions
    BY DEF IInv, Types
  <2> QED  BY <2>1 DEF Transactions
<1>3. new \subseteq CoinSet /\ IsFiniteSet(new) /\ \A u \in new : u.src = c /\ u.kind = k
  BY <1>2, CoinsFacts
<1> HIDE DEF tx, new
<1>4. Types'
  <2>1. IsFiniteSet(utxo \ tx.ins)
    BY FS_Subset DEF IInv, Types
  <2>2. IsFiniteSet(utxo')
    BY <1>1, <1>3, <2>1, FS_Union
  <2>3. utxo' \subseteq CoinSet /\ locked' \subseteq utxo' /\ accepted' \subseteq Clients \X Kinds
    BY <1>1, <1>3 DEF IInv, Types
  <2> QED  BY <2>2, <2>3 DEF IInv, Types
<1>5. /\ pc'[c] = p /\ endorser'[c] = e
      /\ \A d \in Clients \ {c} : pc'[d] = pc[d] /\ endorser'[d] = endorser[d]
  BY DEF IInv, Types
<1>6. \A u : Known(u) => Known(u)' /\ u \notin new
  BY <1>1, <1>3, TxFlowAssumption DEF Known
<1>7. \A u \in new : Known(u)'
  BY <1>1, <1>3 DEF Known
<1>8. Ledger'
  <2>1. \A u \in utxo' : Known(u)'
    BY <1>1, <1>6, <1>7 DEF IInv, Ledger
  <2>2. ASSUME NEW d \in Clients, NEW j \in Kinds, <<d, j>> \in accepted', NEW u \in made'[d][j].ins
        PROVE  Known(u)' /\ u \notin utxo'
    <3>1. CASE <<d, j>> \in accepted
      BY <1>1, <1>6, <2>2, <3>1 DEF IInv, Ledger
    <3>2. CASE <<d, j>> \notin accepted
      <4>1. u \in tx.ins
        BY <1>1, <2>2, <3>2 DEF tx
      <4> QED  BY <1>1, <1>6, <4>1 DEF IInv, Ledger
    <3> QED  BY <3>1, <3>2
  <2> QED  BY <2>1, <2>2 DEF Ledger
<1>9. \A u, d : SpentBy(u, d) => SpentBy(u, d)'
  BY <1>1 DEF SpentBy
<1>10. \A u \in tx.ins : SpentBy(u, c)'
  BY <1>1 DEF SpentBy, tx
<1>11. ASSUME NEW d \in Clients PROVE ClientInv(d)' /\ Inputs(d)' /\ Locks(d)'
  <2>0. ClientInv(d) /\ Inputs(d) /\ Locks(d)
    BY DEF IInv
  <2>1. ClientInv(d)'
    <3>1. CASE d = c
      <4>1. On(c)' = On(c) \cup {k}
        BY <1>1 DEF On
      <4> QED  BY <1>5, <3>1, <4>1 DEF ClientInv
    <3>2. CASE d # c
      <4>1. On(d)' = On(d)
        BY <1>1, <3>2 DEF On
      <4> QED  BY <1>5, <2>0, <3>2, <4>1 DEF ClientInv
    <3> QED  BY <3>1, <3>2
  <2>2. Inputs(d)'
    <3>1. \A u : u \in utxo \/ Spent(u) => u \in utxo' \/ Spent(u)'
      BY <1>1, <1>9, <1>10 DEF Spent
    <3>2. CASE d = c /\ k = "fee"
      <4>1. made[c]["main"].ins = Coins(c, "fee", made[c]["fee"].back)
        <5>1. JobOK(job[c])
          BY TxFlowAssumption DEF IInv, Types
        <5> QED  BY <3>2, <5>1, BothFields
      <4>2. made[c]["main"].ins \subseteq utxo'
        BY <1>1, <3>2, <4>1 DEF new, tx
      <4> QED  BY <3>2, <4>2 DEF Inputs
    <3>3. CASE ~(d = c /\ k = "fee")
      <4>1. <<d, "fee">> \in accepted' => <<d, "fee">> \in accepted
        BY <1>1, <3>3
      <4> QED  BY <2>0, <3>1, <4>1 DEF Inputs
    <3> QED  BY <3>2, <3>3
  <2>3. Locks(d)'
    <3>0. SUFFICES ASSUME Holds(d)', NEW u \in made[d]["main"].ins
                   PROVE  /\ u \in locked' \/ u \in lapsed \/ Lost(u)'
                          /\ \A f \in Clients \ {d} : Holds(f)' /\ u \in made[f]["main"].ins
                               => u \in lapsed
      BY <1>1 DEF Locks
    <3>1. \A f \in Clients : Holds(f)' => Holds(f)
      <4>1. CASE k = "fee"
        BY <1>5, <4>1 DEF Holds
      <4>2. CASE k = "main"
        BY <1>5, <4>2 DEF Holds, Holder, Ended
      <4> QED  BY <4>1, <4>2 DEF Kinds
    <3>2. ~Holds(c)'
      <4>1. CASE k = "fee"
        BY <3>1, <4>1, TxFlowAssumption DEF Holds, Holder, IInv, Types, JobOK
      <4>2. CASE k = "main"
        BY <1>5, <4>2 DEF Holds, Holder, Ended
      <4> QED  BY <4>1, <4>2 DEF Kinds
    <3>3. Holds(d) /\ d # c
      BY <3>0, <3>1, <3>2
    <3>4. u \in locked \/ u \in lapsed \/ Lost(u)
      BY <2>0, <3>3, <3>0 DEF Locks
    <3>5. ASSUME u \in tx.ins PROVE u \in lapsed \/ Lost(u)'
      <4>1. CASE job[c].cmd \in {"invoke", "split"}
        BY <1>10, <3>5, <4>1 DEF Lost
      <4>2. CASE job[c].cmd \notin {"invoke", "split"}
        <5>1. k = "main"
          BY <4>2, TxFlowAssumption DEF Kinds, IInv, Types, JobOK
        <5>2. Holds(c)
          BY <4>2, <5>1 DEF Holds, Holder, IInv, ClientInv, Client, Control
        <5> QED  BY <2>0, <3>0, <3>3, <3>5, <5>1, <5>2 DEF Locks, tx
      <4> QED  BY <4>1, <4>2
    <3>6. Lost(u) => Lost(u)'
      BY <1>9 DEF Lost
    <3> QED  BY <1>1, <2>0, <3>0, <3>1, <3>3, <3>4, <3>5, <3>6 DEF Locks
  <2> QED  BY <2>1, <2>2, <2>3
<1> QED  BY <1>4, <1>8, <1>11 DEF IInv

---------------------------------------------------------------------------
(* One lemma for each action.                                              *)

\* A command that ends without success leaves its client consistent.
LEMMA ClientEnds ==
    ASSUME NEW c, NEW t, NEW q \in Places, NEW e, NEW m, NEW on, Client(c, t, q, e, m, on),
           NEW p \in Ended \ {"ok"}
    PROVE  Client(c, t, p, e, m, on)
<1>1. Control(t, p, e)
  BY DEF Client, Control, Ended
<1>2. Checked(t, p)
  BY DEF Checked, Ended
<1>3. OnChain(t, p, e, on)
  BY DEF Client, OnChain, Ended
<1>4. Amounts(c, t, p, e, m, on)
  BY DEF Client, Amounts, Ended
<1> QED  BY <1>1, <1>2, <1>3, <1>4 DEF Client

\* QuietStep without the endorser.
LEMMA GotoStep ==
    ASSUME IInv, NEW c \in Clients, NEW p \in Places,
           pc' = [pc EXCEPT ![c] = p], balance' \in [Clients -> Nat],
           locked \subseteq locked', locked' \subseteq utxo,
           UNCHANGED <<job, made, utxo, lapsed, accepted, endorser>>,
           Client(c, job[c], p, endorser[c], made[c], On(c)),
           Holder(job[c], p) => Holder(job[c], pc[c])
    PROVE  IInv'
<1>1. endorser' = [endorser EXCEPT ![c] = endorser[c]]
      /\ endorser[c] \in {"idle", "called", "paid", "signed", "refused"}
  BY DEF IInv, Types
<1> QED  BY <1>1, QuietStep

\* A command ends without success.
LEMMA EndStep ==
    ASSUME IInv, NEW c \in Clients, NEW p \in Ended \ {"ok"},
           pc' = [pc EXCEPT ![c] = p],
           locked \subseteq locked', locked' \subseteq utxo,
           UNCHANGED <<job, balance, made, utxo, lapsed, accepted, endorser>>
    PROVE  IInv'
<1>1. Client(c, job[c], pc[c], endorser[c], made[c], On(c)) /\ pc[c] \in Places
  BY DEF IInv, ClientInv, Types
<1>2. Client(c, job[c], p, endorser[c], made[c], On(c))
  BY <1>1, ClientEnds
<1>3. ~Holder(job[c], p) /\ p \in Places /\ balance' \in [Clients -> Nat]
  BY DEF Holder, Ended, Places, IInv, Types
<1> QED  BY <1>2, <1>3, GotoStep

\* The facts of a client used by every step.
LEMMA ClientFacts ==
    ASSUME IInv, NEW c \in Clients
    PROVE  /\ JobOK(job[c]) /\ pc[c] \in Places
           /\ Client(c, job[c], pc[c], endorser[c], made[c], On(c))
           /\ pc[c] \in {"lookup", "start", "select", "preexec", "endorse"}
                => endorser[c] = "idle" /\ On(c) = {}
           /\ locked \subseteq utxo
<1>1. JobOK(job[c]) /\ pc[c] \in Places /\ locked \subseteq utxo
  BY TxFlowAssumption DEF IInv, Types
<1>2. Client(c, job[c], pc[c], endorser[c], made[c], On(c))
  BY DEF IInv, ClientInv
<1>3. ASSUME pc[c] \in {"lookup", "start", "select", "preexec",
             "endorse"} PROVE endorser[c] = "idle" /\ On(c) = {}
  <2>1. endorser[c] = "idle"
    BY <1>2, <1>3 DEF Client, Control
  <2>2. "main" \notin On(c) /\ "fee" \notin On(c)
    BY <1>2, <1>3, <2>1 DEF Client, OnChain, Places, Ended
  <2> QED  BY <2>1, <2>2 DEF On, Kinds
<1> QED  BY <1>1, <1>2, <1>3

\* What a selection is.
LEMMA Selected ==
    ASSUME IInv, NEW A, A \subseteq utxo, NEW S \in SUBSET A
    PROVE  S \subseteq CoinSet /\ IsFiniteSet(S) /\ S \subseteq utxo /\ SumOf(S) \in Nat
<1>1. S \subseteq CoinSet /\ IsFiniteSet(S) /\ S \subseteq utxo
  BY FS_Subset DEF IInv, Types
<1> QED  BY <1>1, CoinSetSum

\* Make, as one assignment to made[c].
LEMMA Made ==
    ASSUME IInv, NEW c \in Clients, NEW S, NEW outs, Make(c, "main", S, outs), Tx(S,
           outs) \in Transactions
    PROVE  \E m \in [Kinds -> Transactions] : made' = [made EXCEPT ![c] = m] /\ m["main"] = Tx(S,
           outs)
<1> DEFINE m == [made[c] EXCEPT !["main"] = Tx(S, outs)]
<1>1. made' = [made EXCEPT ![c]["main"] = Tx(S, outs)]
  BY DEF Make, Tx
<1>2. made' = [made EXCEPT ![c] = m]
  BY <1>1
<1>3. made[c] \in [Kinds -> Transactions] /\ "main" \in Kinds
  BY DEF IInv, Types, Kinds
<1>4. m \in [Kinds -> Transactions] /\ m["main"] = Tx(S, outs)
  BY <1>3
<1> QED  BY <1>2, <1>4

\* A command that is refused or does nothing ends.
LEMMA EndsAtOnceStep == ASSUME IInv, NEW c \in Clients, EndsAtOnce(c) PROVE IInv'
<1> DEFINE p == IF job[c].cmd = "refused" THEN "failed" ELSE "printed"
<1>1. p \in Ended \ {"ok"} /\ pc' = [pc EXCEPT ![c] = p]
  BY DEF EndsAtOnce, Goto, Ended
<1>2. locked' = locked /\ locked \subseteq utxo /\ UNCHANGED <<job, balance, made, utxo, lapsed,
      accepted, endorser>>
  BY ClientFacts DEF EndsAtOnce, nodeVars
<1> HIDE DEF p
<1> QED  BY <1>1, <1>2, EndStep

\* A call fails: the command ends.
LEMMA CallFailsStep == ASSUME IInv, NEW c \in Clients, CallFails(c) PROVE IInv'
<1>1. "failed" \in Ended \ {"ok"} /\ pc' = [pc EXCEPT ![c] = "failed"]
  BY DEF CallFails, Ended
<1>2. locked' = locked /\ locked \subseteq utxo /\ UNCHANGED <<job, balance, made, utxo, lapsed,
      accepted, endorser>>
  BY ClientFacts DEF CallFails, nodeVars
<1> QED  BY <1>1, <1>2, EndStep

\* The calls before a pre-execution.
LEMMA LookupStep == ASSUME IInv, NEW c \in Clients, Lookup(c) PROVE IInv'
<1>2. locked' = locked /\ locked \subseteq utxo /\ UNCHANGED <<job, balance, made, utxo, lapsed,
      accepted, endorser>>
  BY ClientFacts DEF Lookup, nodeVars
<1>3. ASSUME NEW p \in {"failed", "panicked"}, pc' = [pc EXCEPT ![c] = p] PROVE IInv'
  <2>1. p \in Ended \ {"ok"}
    BY DEF Ended
  <2> QED  BY <1>2, <1>3, <2>1, EndStep
<1>4. CASE Goto(c, "lookup", "start")
  <2>1. pc[c] = "lookup" /\ pc' = [pc EXCEPT ![c] = "start"]
    BY <1>4 DEF Goto
  <2>2. endorser[c] = "idle" /\ On(c) = {}
    BY <2>1, ClientFacts
  <2>3. Client(c, job[c], "start", endorser[c], made[c], On(c))
    BY <2>2 DEF Client, Control, Checked, OnChain, Amounts
  <2>4. "start" \in Places /\ ~Holder(job[c], "start") /\ balance' \in [Clients -> Nat]
    BY <1>2 DEF Places, Holder, IInv, Types
  <2> QED  BY <1>2, <2>1, <2>3, <2>4, GotoStep
<1> QED  BY <1>3, <1>4 DEF Lookup, Goto

\* GenPreExeRes and the checks of GenTxOutputs: what is left covers its gas.
LEMMA PreExecStep == ASSUME IInv, NEW c \in Clients, PreExec(c) PROVE IInv'
<1>1. locked' = locked /\ locked \subseteq utxo /\ UNCHANGED <<job, balance, made, utxo, lapsed,
      accepted, endorser>>
  BY ClientFacts DEF PreExec, nodeVars
<1>2. PICK p : /\ pc[c] = "start" /\ pc' = [pc EXCEPT ![c] = p]
               /\ \/ p \in {"printed", "failed", "panicked"}
                  \/ p = "select" /\ job[c].cmd \in {"invoke", "gen"}
                       /\ \E g \in Gas : ~GenTxOutputsError(job[c], g)
  <2>1. CASE Goto(c, "start", "panicked")
    BY <2>1 DEF Goto
  <2>2. ASSUME NEW g \in Gas, Goto(c, "start", IF job[c].cmd = "query" THEN "printed"
                                        ELSE IF GenTxOutputsError(job[c], g) THEN "failed"
                                        ELSE "select")
        PROVE \E p : /\ pc[c] = "start" /\ pc' = [pc EXCEPT ![c] = p]
               /\ \/ p \in {"printed", "failed", "panicked"}
                  \/ p = "select" /\ job[c].cmd \in {"invoke", "gen"}
                       /\ \E h \in Gas : ~GenTxOutputsError(job[c], h)
    <3>1. job[c].cmd \in {"invoke", "gen", "query"}
      BY DEF PreExec
    <3>2. CASE job[c].cmd = "query"
      BY <2>2, <3>2 DEF Goto
    <3>3. CASE job[c].cmd # "query" /\ GenTxOutputsError(job[c], g)
      BY <2>2, <3>3 DEF Goto
    <3>4. CASE job[c].cmd # "query" /\ ~GenTxOutputsError(job[c], g)
      BY <2>2, <3>1, <3>4 DEF Goto
    <3> QED  BY <3>2, <3>3, <3>4
  <2> QED  BY <2>1, <2>2 DEF PreExec
<1>3. CASE p \in {"printed", "failed", "panicked"}
  <2>1. p \in Ended \ {"ok"}
    BY <1>3 DEF Ended
  <2> QED  BY <1>1, <1>2, <2>1, EndStep
<1>4. CASE p = "select" /\ job[c].cmd \in {"invoke", "gen"}
           /\ \E g \in Gas : ~GenTxOutputsError(job[c], g)
  <2>1. endorser[c] = "idle" /\ On(c) = {} /\ ~job[c].compliance
    BY <1>2, ClientFacts DEF PreExec
  <2>2. Client(c, job[c], p, endorser[c], made[c], On(c))
    BY <1>4, <2>1 DEF Client, Control, Checked, OnChain, Amounts
  <2>3. p \in Places /\ ~Holder(job[c], p) /\ balance' \in [Clients -> Nat]
    BY <1>1, <1>4 DEF Places, Holder, IInv, Types
  <2> QED  BY <1>1, <1>2, <2>2, <2>3, GotoStep
<1> QED  BY <1>2, <1>3, <1>4

\* GenTxInputs selects without lock and GenRawTx assembles a balanced transaction.
LEMMA GenTxInputsStep == ASSUME IInv, NEW c \in Clients, GenTxInputs(c) PROVE IInv'
<1> DEFINE t == job[c]
           p == IF t.debug \/ t.cmd = "gen" THEN AtEnd(c, "printed") ELSE "post"
<1>1. PICK S \in Selections(TotalNeed(t), utxo) :
         Make(c, "main", S, GenRawTx(t, SumOf(S))) /\ Goto(c, "select", p)
  BY DEF GenTxInputs
<1>2. /\ t.cmd \in {"invoke", "gen"} /\ pc[c] = "select" /\ pc' = [pc EXCEPT ![c] = p]
      /\ UNCHANGED <<job, balance, utxo, locked, lapsed, accepted, endorser>>
  BY <1>1 DEF GenTxInputs, Goto, nodeVars
<1>3. /\ JobOK(t) /\ locked \subseteq utxo /\ endorser[c] = "idle" /\ On(c) = {} /\ ~t.compliance
      /\ ~t.self /\ t.compliance \in BOOLEAN
  BY <1>2, ClientFacts DEF Client, Control, JobOK
<1>4. S \subseteq CoinSet /\ IsFiniteSet(S) /\ S \subseteq utxo /\ SumOf(S) >= TotalNeed(t)
  BY Selected DEF Selections
<1> DEFINE tx == Tx(S, GenRawTx(t, SumOf(S)))
<1>5. tx \in Transactions /\ Balanced(tx) /\ Cost(tx) = Price(t) /\ tx.ins = S
  <2>1. PICK g \in Gas : ~GenTxOutputsError(t, g)
    BY <1>2, ClientFacts DEF Client, Checked
  <2>2. g \in Int
    BY TxFlowAssumption
  <2>3. tx \in Transactions /\ Balanced(tx) /\ Cost(tx) = Pay(t) + Fee(t)
    BY <1>3, <1>4, <2>1, <2>2, RawTx
  <2>4. Price(t) = Pay(t) + Fee(t)
    BY <1>2, <1>3 DEF Price
  <2>5. tx.ins = S
    BY DEF Tx
  <2> QED  BY <2>3, <2>4, <2>5
<1>6. PICK m \in [Kinds -> Transactions] : made' = [made EXCEPT ![c] = m] /\ m["main"] = tx
  BY <1>1, <1>5, Made
<1>7. p \in Places /\ p \in {"printed", "failed", "post"} /\ (p = "post" => t.cmd = "invoke")
  BY <1>2 DEF AtEnd, Places, Ended
<1> HIDE DEF p, tx, t
<1>8. Client(c, t, p, endorser[c], m, {})
  BY <1>3, <1>5, <1>6, <1>7 DEF Client, Control, Checked, OnChain, Amounts
<1>9. ~Holder(t, p)
  BY <1>2 DEF Holder
<1> QED  BY <1>2, <1>3, <1>4, <1>5, <1>6, <1>7, <1>8, <1>9, MakeStep DEF t

\* The total of preExecWithSelectUTXOReq and PreExecWithSelectUTXO is a number.
LEMMA TotalAmountInt ==
    ASSUME NEW t, JobOK(t), NEW g \in Gas
    PROVE  TotalAmount(t, g) \in Int
<1>1. ASSUME NEW n \in Int PROVE Wrap(n) \in Int
  <2>1. 2 * Int64Half \in Nat \ {0} /\ n + Int64Half \in Int
    BY TxAssemblyAssumption
  <2>2. (n + Int64Half) % (2 * Int64Half) \in Int
    BY <2>1
  <2> QED  BY <2>2, TxAssemblyAssumption DEF Wrap
<1>2. t.amount.val \in Int /\ Fee(t) \in Int
  BY JobIsCommand, StringVal DEF Command, Fee
<1>3. ExtraAmount(t) \in Int
  <2>1. ServiceFee + Fee(t) + t.amount.val \in Int
    BY <1>2, TxAssemblyAssumption
  <2> QED  BY <1>1, <2>1 DEF ExtraAmount
<1>4. ExtraAmount(t) + g \in Int
  BY <1>3, TxFlowAssumption
<1> QED  BY <1>1, <1>4 DEF TotalAmount

\* PreExecWithSelectUTXO: both transactions are made, or the command ends.
LEMMA ComplianceStep == ASSUME IInv, NEW c \in Clients, PreExecWithSelectUTXO(c) PROVE IInv'
<1> DEFINE t == job[c]
<1>1. /\ t.cmd = "invoke" /\ t.compliance /\ pc[c] = "start"
      /\ UNCHANGED <<job, balance, utxo, locked, lapsed, accepted, endorser>>
  BY DEF PreExecWithSelectUTXO, NothingSelected, Goto, nodeVars
<1>2. JobOK(t) /\ locked \subseteq utxo /\ endorser[c] = "idle" /\ On(c) = {}
  BY <1>1, ClientFacts
<1>3. ASSUME UNCHANGED made, NEW p \in {"failed", "panicked"}, pc' = [pc EXCEPT ![c] = p] PROVE IInv'
  <2>1. p \in Ended \ {"ok"}
    BY DEF Ended
  <2> QED  BY <1>1, <1>2, <1>3, <2>1, EndStep
<1>4. ASSUME NEW g \in Gas, NEW S \in Selections(TotalAmount(t, g), utxo), TotalAmount(t, g) >= 1,
             ~ReqError(t), ~GenRealTxError(t), pc' = [pc EXCEPT ![c] = "endorse"], GenBothTx(c, S)
      PROVE  IInv'
  <2>1. S \subseteq CoinSet /\ IsFiniteSet(S) /\ S \subseteq utxo /\ SumOf(S) >= TotalAmount(t, g)
        /\ SumOf(S) \in Nat
    BY <1>4, Selected DEF Selections
  <2> DEFINE feeTx == GenComplianceCheckTx(t, SumOf(S))
             change == Coins(c, "fee", feeTx.back)
             m == [fee |-> Tx(S, feeTx), main |-> Tx(change, GenRealTx(t, SumOf(change)))]
  <2>2. made' = [made EXCEPT ![c] = m]
    BY <1>4 DEF GenBothTx, Tx
  <2>3. m["fee"] = Tx(S, feeTx) /\ m["fee"].ins = S /\ m["main"] = Tx(change, GenRealTx(t,
        SumOf(change)))
    BY DEF Tx
  <2>4. feeTx.back = <<Delta(SumOf(S), ServiceFee)>>
    BY DEF GenComplianceCheckTx
  <2>5. \A u \in S : ~(u.src = c /\ u.kind = "fee")
    <3>1. <<c, "fee">> \notin accepted
      BY <1>2 DEF On, Kinds
    <3> QED  BY <2>1, <3>1, TxFlowAssumption DEF IInv, Ledger, Known
  <2>6. SumOf(S) >= 1
    <3>1. TotalAmount(t, g) \in Int
      BY <1>2, <1>4, TotalAmountInt
    <3> QED  BY <1>4, <2>1, <3>1
  <2>8. DOMAIN m = Kinds
    BY DEF Kinds
  <2> HIDE DEF m, feeTx
  <2>7. BothMade(t, c, m)
    BY <1>4, <2>1, <2>3, <2>4, <2>5, <2>6 DEF BothMade, feeTx
  <2>9. m \in [Kinds -> Transactions]
    <3>1. m["fee"] \in Transactions /\ m["main"] \in Transactions
      BY <1>2, <2>7, BothTyped
    <3>2. m = [k \in Kinds |-> m[k]]
      BY <2>8 DEF m
    <3> QED  BY <3>1, <3>2 DEF Kinds
  <2>10. Client(c, t, "endorse", endorser[c], m, {})
    BY <1>1, <1>2, <2>7 DEF Client, Control, Checked, OnChain, Amounts
  <2>11. ~Holder(t, "endorse") /\ "endorse" \in Places
    BY DEF Holder, Places
  <2> QED  BY <1>1, <1>2, <1>4, <2>2, <2>9, <2>10, <2>11, MakeStep
<1>5. CASE ReqError(t)
  BY <1>3, <1>5 DEF PreExecWithSelectUTXO, Goto
<1>6. CASE ~ReqError(t)
  <2>1. PICK g \in Gas :
          IF FeeRefused(t, g)
          THEN Goto(c, "start", "failed") /\ UNCHANGED made
          ELSE \/ NothingSelected(c, g)
               \/ /\ TotalAmount(t, g) >= 1
                  /\ \E S \in Selections(TotalAmount(t, g), utxo) :
                        IF GenRealTxError(t)
                        THEN Goto(c, "start", "failed") /\ UNCHANGED made
                        ELSE Goto(c, "start", "endorse") /\ GenBothTx(c, S)
    BY <1>6 DEF PreExecWithSelectUTXO
  <2>2. CASE Goto(c, "start", "failed") /\ UNCHANGED made
    BY <1>3, <2>2 DEF Goto
  <2>3. CASE NothingSelected(c, g)
    BY <1>3, <2>3 DEF Goto, NothingSelected
  <2>4. ASSUME TotalAmount(t, g) >= 1, NEW S \in Selections(TotalAmount(t, g), utxo),
               ~GenRealTxError(t),
               Goto(c, "start", "endorse"), GenBothTx(c, S)
        PROVE  IInv'
    BY <1>4, <1>6, <2>4 DEF Goto
  <2> HIDE DEF t
  <2> QED  BY <2>1, <2>2, <2>3, <2>4
<1> QED  BY <1>5, <1>6

\* ComplianceCheck sends both transactions to the endorser.
LEMMA ComplianceCheckStep == ASSUME IInv, NEW c \in Clients, ComplianceCheck(c) PROVE IInv'
<1>1. /\ pc[c] = "endorse" /\ pc' = [pc EXCEPT ![c] = "waiting"]
           /\ endorser' = [endorser EXCEPT ![c] = "called"]
      /\ UNCHANGED <<job, balance, made, utxo, locked, lapsed, accepted>>
  BY DEF ComplianceCheck, Goto, nodeVars
<1>2. On(c) = {} /\ Client(c, job[c], "endorse", endorser[c], made[c], On(c)) /\ locked \subseteq utxo
  BY <1>1, ClientFacts
<1>3. job[c].compliance /\ BothMade(job[c], c, made[c])
  BY <1>2, ClientFacts DEF Client, Control, Amounts, JobOK
<1>4. Client(c, job[c], "waiting", "called", made[c], On(c))
  BY <1>2, <1>3 DEF Client, Control, Checked, OnChain, Amounts
<1>5. "waiting" \in Places /\ ~Holder(job[c], "waiting") /\ balance' \in [Clients -> Nat]
  BY <1>1 DEF Places, Holder, IInv, Types
<1> QED  BY <1>1, <1>2, <1>4, <1>5, QuietStep

\* The client goes on only with the endorser's signature.
LEMMA EndorserReplyStep == ASSUME IInv, NEW c \in Clients, EndorserReply(c) PROVE IInv'
<1>1. /\ pc[c] = "waiting" /\ UNCHANGED <<job, balance, made, utxo, locked, lapsed, accepted,
           endorser>>
      /\ locked \subseteq utxo
  BY ClientFacts DEF EndorserReply, Goto, nodeVars
<1>2. CASE endorser[c] = "signed"
  <2>1. pc' = [pc EXCEPT ![c] = "post"]
    BY <1>2 DEF EndorserReply, Goto
  <2>2. Client(c, job[c], "waiting", "signed", made[c], On(c)) /\ JobOK(job[c])
    BY <1>1, <1>2, ClientFacts
  <2>3. Client(c, job[c], "post", "signed", made[c], On(c))
    BY <2>2 DEF Client, Control, Checked, OnChain, Amounts, JobOK, Places, Ended
  <2>4. "post" \in Places /\ ~Holder(job[c], "post") /\ balance' \in [Clients -> Nat]
    BY <1>1, <2>2 DEF Places, Holder, IInv, Types, Client, Control, JobOK
  <2> QED  BY <1>1, <1>2, <2>1, <2>3, <2>4, GotoStep
<1>3. CASE endorser[c] # "signed"
  <2>1. pc' = [pc EXCEPT ![c] = "failed"] /\ "failed" \in Ended \ {"ok"}
    BY <1>3 DEF EndorserReply, Goto, Ended
  <2> QED  BY <1>1, <2>1, EndStep
<1> QED  BY <1>2, <1>3

\* The client stops waiting; the handler goes on.
LEMMA EndorserTimeoutStep == ASSUME IInv, NEW c \in Clients, EndorserTimeout(c) PROVE IInv'
<1>1. /\ UNCHANGED <<job, balance, made, utxo, locked, lapsed, accepted, endorser>>
           /\ locked \subseteq utxo
      /\ pc' = [pc EXCEPT ![c] = "failed"] /\ "failed" \in Ended \ {"ok"}
  BY ClientFacts DEF EndorserTimeout, Goto, nodeVars, Ended
<1> QED  BY <1>1, EndStep

\* processFee: the fee transaction is accepted, or the handler ends.
LEMMA ProcessFeeStep == ASSUME IInv, NEW c \in Clients, ProcessFee(c) PROVE IInv'
<1> DEFINE t == job[c]
<1>1. endorser[c] = "called" /\ UNCHANGED <<job, pc, balance, made>>
  BY DEF ProcessFee
<1>2. JobOK(t) /\ Client(c, t, pc[c], "called", made[c], On(c)) /\ locked \subseteq utxo
      /\ pc[c] \in Places
  BY <1>1, ClientFacts
<1>3. t.compliance /\ BothMade(t, c, made[c]) /\ t.compliance \in BOOLEAN
  BY <1>2 DEF Client, Control, Amounts, JobOK
<1>4. pc' = [pc EXCEPT ![c] = pc[c]]
  BY <1>1 DEF IInv, Types
<1> HIDE DEF t
<1>5. CASE SubmitTx(c, "fee") /\ endorser' = [endorser EXCEPT ![c] = "paid"]
  <2>1. Cost(made[c]["fee"]) = ServiceFee
    BY <1>2, <1>3, <1>5, BothCost DEF SubmitTx, Acceptable
  <2>2. Client(c, t, pc[c], "paid", made[c], On(c) \cup {"fee"})
    BY <1>2, <1>3, <2>1 DEF Client, Control, Checked, OnChain, Amounts, Places, Ended
  <2>3. "fee" \in Kinds
    BY DEF Kinds
  <2> QED  BY <1>1, <1>2, <1>3, <1>4, <1>5, <2>2, <2>3, SubmitStep DEF t
<1>6. CASE endorser' = [endorser EXCEPT ![c] = "refused"] /\ UNCHANGED nodeVars
  <2>1. Client(c, t, pc[c], "refused", made[c], On(c))
    BY <1>2, <1>3 DEF Client, Control, Checked, OnChain, Amounts, Places, Ended
  <2>2. UNCHANGED <<utxo, locked, lapsed, accepted>> /\ balance' \in [Clients -> Nat]
    BY <1>1, <1>6 DEF nodeVars, IInv, Types
  <2> QED  BY <1>1, <1>2, <1>4, <1>6, <2>1, <2>2, QuietStep DEF t
<1> QED  BY <1>5, <1>6 DEF ProcessFee

\* generateTxSign after the fee is paid.
LEMMA GenerateTxSignStep == ASSUME IInv, NEW c \in Clients, GenerateTxSign(c) PROVE IInv'
<1>1. endorser[c] = "paid" /\ UNCHANGED <<job, pc, balance, made, utxo, locked, lapsed, accepted>>
  BY DEF GenerateTxSign, nodeVars
<1>2. PICK r \in {"signed", "refused"} : endorser' = [endorser EXCEPT ![c] = r]
  BY DEF GenerateTxSign
<1>3. Client(c, job[c], pc[c], "paid", made[c], On(c)) /\ locked \subseteq utxo
      /\ pc[c] \in Places /\ JobOK(job[c])
  BY <1>1, ClientFacts
<1>4. Client(c, job[c], pc[c], r, made[c], On(c))
  BY <1>2, <1>3 DEF Client, Control, Checked, OnChain, Amounts, Places, Ended, JobOK
<1>5. pc' = [pc EXCEPT ![c] = pc[c]] /\ balance' \in [Clients -> Nat]
  BY <1>1 DEF IInv, Types
<1> QED  BY <1>1, <1>2, <1>3, <1>4, <1>5, QuietStep

\* assembleTxSupportAccount selects with lock.
LEMMA AssembleTransferStep == ASSUME IInv, NEW c \in Clients, AssembleTransfer(c) PROVE IInv'
<1> DEFINE t == job[c]
<1>1. /\ t.cmd = "transfer" /\ UNCHANGED <<job, balance, utxo, lapsed, accepted, endorser>>
      /\ pc[c] = "start"
  BY DEF AssembleTransfer, Goto
<1>2. JobOK(t) /\ locked \subseteq utxo /\ endorser[c] = "idle" /\ On(c) = {} /\ ~t.compliance
  BY <1>1, ClientFacts DEF JobOK
<1>3. ASSUME pc' = [pc EXCEPT ![c] = "failed"], UNCHANGED made, locked \subseteq locked',
             locked' \subseteq utxo
      PROVE  IInv'
  <2>1. "failed" \in Ended \ {"ok"}
    BY DEF Ended
  <2> QED  BY <1>1, <1>3, <2>1, EndStep
<1>4. CASE Goto(c, "start", "failed") /\ UNCHANGED <<made, locked>>
  BY <1>2, <1>3, <1>4 DEF Goto
<1>5. ASSUME ~AssembleError(t), NEW S \in Selections(TotalNeed(t), utxo \ locked),
             locked' = locked \cup S,
             Goto(c, "start", "preexec"), Make(c, "main", S, TransferOutputs(t, SumOf(S)))
      PROVE  IInv'
  <2>1. S \subseteq utxo \ locked /\ S \in SUBSET utxo /\ SumOf(S) >= TotalNeed(t)
    BY DEF Selections
  <2>2. S \subseteq CoinSet /\ IsFiniteSet(S)
    BY <2>1, Selected
  <2> DEFINE tx == Tx(S, TransferOutputs(t, SumOf(S)))
  <2>3. tx \in Transactions /\ Balanced(tx) /\ Cost(tx) = Price(t) /\ tx.ins = S
    <3>1. tx.ins = S
      BY DEF Tx
    <3> QED  BY <1>1, <1>2, <1>5, <2>1, <2>2, <3>1, TransferTx
  <2>4. PICK m \in [Kinds -> Transactions] : made' = [made EXCEPT ![c] = m] /\ m["main"] = tx
    BY <1>5, <2>3, Made
  <2> HIDE DEF tx, t
  <2>5. Client(c, t, "preexec", endorser[c], m, {})
    BY <1>1, <1>2, <2>3, <2>4 DEF Client, Control, Checked, OnChain, Amounts
  <2>6. "preexec" \in Places /\ pc' = [pc EXCEPT ![c] = "preexec"]
    BY <1>5 DEF Places, Goto
  <2>7. /\ m["main"].ins \subseteq (utxo \cap locked') \ locked /\ m["main"].ins \subseteq utxo
        /\ locked \subseteq locked' /\ locked' \subseteq utxo
    BY <1>2, <1>5, <2>1, <2>3, <2>4
  <2> QED  BY <1>1, <1>2, <2>4, <2>5, <2>6, <2>7, MakeStep DEF t
<1>6. ASSUME NEW S \in Selections(TotalNeed(t), utxo \ locked), locked' = locked \cup S,
             Goto(c, "start", "failed"), UNCHANGED made
      PROVE  IInv'
  <2>1. locked \subseteq locked' /\ locked' \subseteq utxo
    BY <1>2, <1>6 DEF Selections
  <2> QED  BY <1>3, <1>6, <2>1 DEF Goto
<1> HIDE DEF t
<1> QED  BY <1>4, <1>5, <1>6 DEF AssembleTransfer, t

\* GenTxInputsWithMergeUTXO selects with lock.
LEMMA SelectMergeStep == ASSUME IInv, NEW c \in Clients, SelectMerge(c) PROVE IInv'
<1> DEFINE t == job[c]
<1>1. /\ t.cmd = "merge" /\ UNCHANGED <<job, balance, utxo, lapsed, accepted, endorser>>
      /\ pc[c] = "start"
  BY DEF SelectMerge, Goto
<1>2. JobOK(t) /\ locked \subseteq utxo /\ endorser[c] = "idle" /\ On(c) = {} /\ ~t.compliance
  BY <1>1, ClientFacts DEF JobOK
<1>3. ASSUME pc' = [pc EXCEPT ![c] = "failed"], UNCHANGED made, locked \subseteq locked',
             locked' \subseteq utxo
      PROVE  IInv'
  <2>1. "failed" \in Ended \ {"ok"}
    BY DEF Ended
  <2> QED  BY <1>1, <1>3, <2>1, EndStep
<1>4. CASE Goto(c, "start", "failed") /\ UNCHANGED <<made, locked>>
  BY <1>2, <1>3, <1>4 DEF Goto
<1>5. ASSUME NEW S \in SUBSET (utxo \ locked), locked' = locked \cup S,
             Goto(c, "start", "preexec"), Make(c, "main", S, MergeTx(SumOf(S)))
      PROVE  IInv'
  <2>1. S \subseteq utxo \ locked /\ S \in SUBSET utxo
    OBVIOUS
  <2>2. S \subseteq CoinSet /\ IsFiniteSet(S)
    BY <2>1, Selected
  <2> DEFINE tx == Tx(S, MergeTx(SumOf(S)))
  <2>3. tx \in Transactions /\ Balanced(tx) /\ Cost(tx) = Price(t) /\ tx.ins = S
    <3>1. tx.ins = S
      BY DEF Tx
    <3>2. Price(t) = 0
      BY <1>1, <1>2 DEF Price, JobOK
    <3> QED  BY <2>2, <3>1, <3>2, MergeMade
  <2>4. PICK m \in [Kinds -> Transactions] : made' = [made EXCEPT ![c] = m] /\ m["main"] = tx
    BY <1>5, <2>3, Made
  <2> HIDE DEF tx, t
  <2>5. Client(c, t, "preexec", endorser[c], m, {})
    BY <1>1, <1>2, <2>3, <2>4 DEF Client, Control, Checked, OnChain, Amounts
  <2>6. "preexec" \in Places /\ pc' = [pc EXCEPT ![c] = "preexec"]
    BY <1>5 DEF Places, Goto
  <2>7. /\ m["main"].ins \subseteq (utxo \cap locked') \ locked /\ m["main"].ins \subseteq utxo
        /\ locked \subseteq locked' /\ locked' \subseteq utxo
    BY <1>2, <1>5, <2>1, <2>3, <2>4
  <2> QED  BY <1>1, <1>2, <2>4, <2>5, <2>6, <2>7, MakeStep DEF t
<1>6. ASSUME NEW S \in SUBSET (utxo \ locked), locked' = locked \cup S, Goto(c, "start",
             "failed"), UNCHANGED made
      PROVE  IInv'
  <2>1. locked \subseteq locked' /\ locked' \subseteq utxo
    BY <1>2, <1>6
  <2> QED  BY <1>3, <1>6, <2>1 DEF Goto
<1> QED  BY <1>4, <1>5, <1>6 DEF SelectMerge

\* The split command asks for the balance.
LEMMA GetBalanceStep == ASSUME IInv, NEW c \in Clients, GetBalance(c) PROVE IInv'
<1>1. /\ job[c].cmd = "split" /\ pc[c] = "start"
      /\ UNCHANGED <<job, made, endorser, utxo, locked, lapsed, accepted>>
  BY DEF GetBalance, Goto, nodeVars
<1>2. /\ JobOK(job[c]) /\ locked \subseteq utxo /\ endorser[c] = "idle" /\ On(c) = {}
           /\ ~job[c].compliance
      /\ Client(c, job[c], "start", endorser[c], made[c], On(c))
  BY <1>1, ClientFacts DEF JobOK
<1>3. balance' \in [Clients -> Nat]
  <2>1. SumOf(utxo) \in Nat
    BY CoinSetSum DEF IInv, Types
  <2> QED  BY <2>1 DEF GetBalance, IInv, Types
<1> DEFINE p == IF job[c].num <= 0 THEN "failed" ELSE "select"
<1>4. pc' = [pc EXCEPT ![c] = p] /\ p \in Places /\ (p = "failed" \/ (p = "select" /\ job[c].num > 0))
  <2>1. job[c].num \in Int
    BY <1>2 DEF JobOK
  <2>2. pc' = [pc EXCEPT ![c] = p]
    BY DEF GetBalance, Goto
  <2>3. p = "failed" \/ (p = "select" /\ job[c].num > 0)
    BY <2>1
  <2> HIDE DEF p
  <2> QED  BY <2>2, <2>3 DEF Places, Ended
<1> HIDE DEF p
<1>5. Client(c, job[c], p, endorser[c], made[c], On(c))
  BY <1>1, <1>2, <1>4 DEF Client, Control, Checked, OnChain, Amounts
<1>6. ~Holder(job[c], p)
  BY <1>1 DEF Holder
<1> QED  BY <1>1, <1>2, <1>3, <1>4, <1>5, <1>6, GotoStep

\* The split command selects without lock what the balance was.
LEMMA SelectSplitStep == ASSUME IInv, NEW c \in Clients, SelectSplit(c) PROVE IInv'
<1> DEFINE t == job[c]
<1>1. /\ t.cmd = "split" /\ pc[c] = "select"
      /\ UNCHANGED <<job, balance, endorser, utxo, locked, lapsed, accepted>>
  BY DEF SelectSplit, Goto, nodeVars
<1>2. /\ JobOK(t) /\ locked \subseteq utxo /\ endorser[c] = "idle" /\ On(c) = {} /\ ~t.compliance
      /\ t.num \in Int /\ t.num > 0 /\ balance[c] \in Nat
  BY <1>1, ClientFacts DEF JobOK, Client, Checked, IInv, Types
<1>3. PICK S \in Selections(balance[c], utxo) :
              IF t.num > balance[c] \/ ~t.named
              THEN Goto(c, "select", "failed") /\ UNCHANGED made
              ELSE /\ Goto(c, "select", "preexec")
                   /\ Make(c, "main", S, SplitTx(SumOf(S), balance[c], t.num))
  BY DEF SelectSplit
<1>4. CASE t.num > balance[c] \/ ~t.named
  <2>1. "failed" \in Ended \ {"ok"} /\ pc' = [pc EXCEPT ![c] = "failed"] /\ UNCHANGED made
    BY <1>3, <1>4 DEF Ended, Goto
  <2> QED  BY <1>1, <1>2, <2>1, EndStep
<1>5. CASE ~(t.num > balance[c] \/ ~t.named)
  <2>1. S \in SUBSET utxo /\ SumOf(S) >= balance[c]
    BY DEF Selections
  <2>2. S \subseteq CoinSet /\ IsFiniteSet(S)
    BY <2>1, Selected
  <2> DEFINE tx == Tx(S, SplitTx(SumOf(S), balance[c], t.num))
  <2>3. tx \in Transactions /\ Balanced(tx) /\ Cost(tx) = Price(t) /\ tx.ins = S
    <3>1. tx.ins = S
      BY DEF Tx
    <3>2. Price(t) = 0
      BY <1>1, <1>2 DEF Price, JobOK
    <3>3. t.num \in 1..balance[c]
      BY <1>2, <1>5
    <3> QED  BY <1>2, <2>1, <2>2, <3>1, <3>2, <3>3, SplitMade
  <2>4. PICK m \in [Kinds -> Transactions] : made' = [made EXCEPT ![c] = m] /\ m["main"] = tx
    BY <1>3, <1>5, <2>3, Made
  <2>5. "preexec" \in Places /\ pc' = [pc EXCEPT ![c] = "preexec"]
    BY <1>3, <1>5 DEF Places, Goto
  <2> HIDE DEF tx, t
  <2>6. Client(c, t, "preexec", endorser[c], m, {}) /\ ~Holder(t, "preexec")
    BY <1>1, <1>2, <2>3, <2>4 DEF Client, Control, Checked, OnChain, Amounts, Holder
  <2>7. m["main"].ins \subseteq utxo
    BY <2>1, <2>3, <2>4
  <2> QED  BY <1>1, <1>2, <2>4, <2>5, <2>6, <2>7, MakeStep DEF t
<1> QED  BY <1>4, <1>5

\* The pre-execution without requests.
LEMMA PreExecEmptyStep == ASSUME IInv, NEW c \in Clients, PreExecEmpty(c) PROVE IInv'
<1>1. pc[c] = "preexec" /\ UNCHANGED <<job, balance, made, utxo, locked, lapsed, accepted, endorser>>
  BY DEF PreExecEmpty, Goto, nodeVars
<1>2. /\ Client(c, job[c], "preexec", endorser[c], made[c], On(c)) /\ JobOK(job[c])
      /\ locked \subseteq utxo /\ On(c) = {} /\ endorser[c] = "idle"
  BY <1>1, ClientFacts
<1>3. CASE job[c].debug
  <2>1. pc' = [pc EXCEPT ![c] = "printed"] /\ "printed" \in Ended \ {"ok"}
    BY <1>3 DEF PreExecEmpty, Goto, Ended
  <2> QED  BY <1>1, <1>2, <2>1, EndStep
<1>4. CASE ~job[c].debug
  <2>1. pc' = [pc EXCEPT ![c] = "post"] /\ "post" \in Places /\ balance' \in [Clients -> Nat]
    BY <1>1, <1>4 DEF PreExecEmpty, Goto, Places, IInv, Types
  <2>2. job[c].cmd \in {"transfer", "merge", "split"} /\ ~job[c].compliance
    BY <1>2 DEF Client, Control, JobOK
  <2>3. Client(c, job[c], "post", endorser[c], made[c], On(c))
    BY <1>2, <2>2 DEF Client, Control, Checked, OnChain, Amounts
  <2>4. Holder(job[c], "post") => Holder(job[c], pc[c])
    BY <1>1 DEF Holder
  <2> QED  BY <1>1, <1>2, <2>1, <2>3, <2>4, GotoStep
<1> QED  BY <1>3, <1>4

\* postTx: the transaction is accepted and the command ends in any way.
LEMMA PostedStep ==
    ASSUME IInv, NEW c \in Clients, SubmitTx(c, "main"), NEW p \in {"ok", "failed"}, Goto(c,
           "post", p),
           UNCHANGED <<job, balance, made, endorser>>
    PROVE  IInv'
<1>1. pc[c] = "post" /\ pc' = [pc EXCEPT ![c] = p] /\ p \in Places /\ p \in Ended
  BY DEF Goto, Places, Ended
<1>2. Client(c, job[c], "post", endorser[c], made[c], On(c)) /\ JobOK(job[c])
  BY <1>1, ClientFacts
<1>3. Balanced(made[c]["main"]) /\ "main" \in Kinds
  BY DEF SubmitTx, Acceptable, Kinds
<1>4. endorser' = [endorser EXCEPT ![c] = endorser[c]] /\ endorser[c] \in {"idle", "called",
      "paid", "signed", "refused"}
  BY DEF IInv, Types
<1>5. CASE job[c].compliance
  <2>1. endorser[c] = "signed" /\ "fee" \in On(c) /\ BothMade(job[c], c, made[c])
    BY <1>2, <1>5 DEF Client, Control, OnChain, Amounts
  <2>2. Cost(made[c]["main"]) = job[c].fee.val + job[c].amount.val
    BY <1>2, <1>3, <2>1, BothCost
  <2>3. Client(c, job[c], p, endorser[c], made[c], On(c) \cup {"main"})
    BY <1>2, <1>5, <2>1, <2>2 DEF Client, Control, Checked, OnChain, Amounts, Places, Ended
  <2> QED  BY <1>1, <1>3, <1>4, <2>3, SubmitStep
<1>6. CASE ~job[c].compliance
  <2>1. Client(c, job[c], p, endorser[c], made[c], On(c) \cup {"main"})
    BY <1>2, <1>6 DEF Client, Control, Checked, OnChain, Amounts, Places, Ended
  <2> QED  BY <1>1, <1>3, <1>4, <2>1, SubmitStep
<1> QED  BY <1>5, <1>6

\* PostTx is answered.
LEMMA PostTxStep == ASSUME IInv, NEW c \in Clients, PostTx(c) PROVE IInv'
<1>1. UNCHANGED <<job, balance, made, endorser>> /\ locked \subseteq utxo
  BY ClientFacts DEF PostTx
<1>2. CASE SubmitTx(c, "main") /\ Goto(c, "post", AtEnd(c, "ok"))
  <2>1. AtEnd(c, "ok") \in {"ok", "failed"}
    BY DEF AtEnd
  <2> QED  BY <1>1, <1>2, <2>1, PostedStep
<1>3. CASE Goto(c, "post", "rejected") /\ UNCHANGED nodeVars
  <2>1. pc' = [pc EXCEPT ![c] = "rejected"] /\ "rejected" \in Ended \ {"ok"} /\ UNCHANGED <<utxo,
        locked, lapsed, accepted>>
    BY <1>3 DEF Goto, Ended, nodeVars
  <2> QED  BY <1>1, <2>1, EndStep
<1> QED  BY <1>2, <1>3 DEF PostTx

\* PostTx breaks off.
LEMMA PostTxBrokenStep == ASSUME IInv, NEW c \in Clients, PostTxBroken(c) PROVE IInv'
<1>1. UNCHANGED <<job, balance, made, endorser>> /\ locked \subseteq utxo /\ Goto(c, "post", "failed")
  BY ClientFacts DEF PostTxBroken
<1>2. CASE SubmitTx(c, "main")
  BY <1>1, <1>2, PostedStep
<1>3. CASE UNCHANGED nodeVars
  <2>1. pc' = [pc EXCEPT ![c] = "failed"] /\ "failed" \in Ended \ {"ok"} /\ UNCHANGED <<utxo,
        locked, lapsed, accepted>>
    BY <1>1, <1>3 DEF Goto, Ended, nodeVars
  <2> QED  BY <1>1, <2>1, EndStep
<1> QED  BY <1>2, <1>3 DEF PostTxBroken

---------------------------------------------------------------------------
(* The theorems.                                                           *)

\* The initial states satisfy the invariant.
LEMMA InitIInv == Init => IInv
<1> SUFFICES ASSUME Init PROVE IInv
  OBVIOUS
<1> USE DEF Init
<1>1. NoTx \in Transactions
  BY DEF NoTx, Transactions
<1>2. "genesis" \in Clients \cup {"genesis"} /\ "main" \in Kinds /\ Genesis \in Seq(Nat)
  BY TxFlowAssumption DEF Kinds
<1>3. utxo \subseteq CoinSet /\ IsFiniteSet(utxo) /\ \A u \in utxo : u.src = "genesis"
  BY <1>2, CoinsFacts
<1>4. Types
  BY <1>1, <1>3 DEF Types, Places
<1>5. Ledger
  BY <1>3 DEF Ledger, Known
<1>6. ASSUME NEW c \in Clients PROVE ClientInv(c) /\ Inputs(c) /\ Locks(c)
  <2>1. pc[c] \in {"start", "lookup"} /\ endorser[c] = "idle" /\ On(c) = {}
    BY DEF On
  <2>2. ClientInv(c)
    BY <2>1 DEF ClientInv, Client, Control, Checked, OnChain, Amounts
  <2>3. made[c]["main"].ins = {}
    BY DEF Kinds, NoTx
  <2> QED  BY <2>2, <2>3 DEF Inputs, Locks
<1> QED  BY <1>4, <1>5, <1>6 DEF IInv

\* Every step keeps it.
LEMMA NextIInv == IInv /\ [Next]_vars => IInv'
<1> SUFFICES ASSUME IInv, [Next]_vars PROVE IInv'
  OBVIOUS
<1>1. ASSUME NEW c \in Clients, ClientStep(c) PROVE IInv'
  BY <1>1, EndsAtOnceStep, LookupStep, CallFailsStep, PreExecStep, GenTxInputsStep, ComplianceStep,
     ComplianceCheckStep, EndorserReplyStep, EndorserTimeoutStep, AssembleTransferStep,
     SelectMergeStep,
     GetBalanceStep, SelectSplitStep, PreExecEmptyStep, PostTxStep, PostTxBrokenStep DEF ClientStep
<1>2. ASSUME NEW c \in Clients, EndorserStep(c) PROVE IInv'
  BY <1>2, ProcessFeeStep, GenerateTxSignStep DEF EndorserStep
<1>3. CASE LockExpires
  BY <1>3, ExpiryStep
<1>4. CASE UNCHANGED vars
  <2> USE <1>4 DEF vars
  <2>1. Types' /\ Ledger'
    BY DEF IInv, Types, Ledger, Known
  <2>2. ASSUME NEW c \in Clients PROVE ClientInv(c)' /\ Inputs(c)' /\ Locks(c)'
    <3>1. ClientInv(c)'
      BY DEF IInv, ClientInv, On
    <3>2. Inputs(c)'
      BY DEF IInv, Inputs, Spent, SpentBy
    <3>3. Locks(c)'
      BY DEF IInv, Locks, Lost, SpentBy, Holds
    <3> QED  BY <3>1, <3>2, <3>3
  <2> QED  BY <2>1, <2>2 DEF IInv
<1> QED  BY <1>1, <1>2, <1>3, <1>4 DEF Next

\* The inductive invariant of TxFlow.
THEOREM InvariantHolds == Spec => []IInv
  BY InitIInv, NextIInv, PTL DEF Spec

\* Types of TxFlow: amounts and outputs stay natural numbers, locks are on unspent
\* outputs.
THEOREM TypesHold == Spec => []TypeOK
<1>1. IInv => TypeOK
  <2> SUFFICES ASSUME IInv PROVE TypeOK
    OBVIOUS
  <2>1. ASSUME NEW c \in Clients, NEW k \in Kinds PROVE made[c][k] \in Transactions
    BY DEF IInv, Types
  <2> QED  BY <2>1 DEF IInv, Types, TypeOK, Transactions, Places
<1> QED  BY <1>1, InvariantHolds, PTL

\* The endorser signs only after the fee transaction is on chain, and a command
\* under compliance check posts only with that signature, for any interleaving of
\* clients, handlers and timeouts.
THEOREM SignedOnlyIfPaidHolds == Spec => []SignedOnlyIfPaid
<1>1. IInv => SignedOnlyIfPaid
  BY DEF IInv, ClientInv, Client, Control, OnChain, On, SignedOnlyIfPaid
<1> QED  BY <1>1, InvariantHolds, PTL

\* What a transaction costs is a number.
LEMMA CostNat == ASSUME NEW tx \in Transactions PROVE Cost(tx) \in Nat
<1>1. tx.pay \in Nat /\ tx.fee \in Nat /\ tx.service \in Nat
  BY DEF Transactions
<1> QED  BY <1>1 DEF Cost

\* A command costs its payer exactly its price, nothing, or the service fee alone,
\* whatever is lost or refused on the way, also for amounts that wrap around int64.
THEOREM ChargedExactlyHolds == Spec => []ChargedExactly
<1>1. IInv => ChargedExactly
  <2> SUFFICES ASSUME IInv, NEW c \in Clients
               PROVE  /\ pc[c] = "ok" => Charge(c) = Price(job[c])
                      /\ Charge(c) \in {0, Price(job[c])} \cup (IF job[c].compliance THEN {ServiceFee} ELSE {})
    BY DEF ChargedExactly
  <2> DEFINE t == job[c]
             fee == made[c]["fee"]
             main == made[c]["main"]
  <2>1. JobOK(t) /\ Client(c, t, pc[c], endorser[c], made[c], On(c))
    BY ClientFacts
  <2>2. /\ "fee" \in On(c) <=> <<c, "fee">> \in accepted
        /\ "main" \in On(c) <=> <<c, "main">> \in accepted
    BY DEF On, Kinds
  <2>3. Charge(c) = (IF <<c, "fee">> \in accepted THEN Cost(fee) ELSE 0) + (IF <<c,
        "main">> \in accepted THEN Cost(main) ELSE 0)
    BY DEF Charge, Cost
  <2>4. Cost(fee) \in Nat /\ Cost(main) \in Nat
    <3>1. fee \in Transactions /\ main \in Transactions
      BY DEF IInv, Types, Kinds
    <3> QED  BY <3>1, CostNat
  <2> HIDE DEF t, fee, main
  <2>5. CASE t.compliance
    <3>1. /\ pc[c] = "ok" => <<c, "main">> \in accepted
          /\ <<c, "main">> \in accepted => <<c, "fee">> \in accepted
          /\ <<c, "fee">> \in accepted => Cost(fee) = ServiceFee
          /\ <<c, "main">> \in accepted => Cost(main) = t.fee.val + t.amount.val
      BY <2>1, <2>2, <2>5 DEF Client, OnChain, Amounts, fee, main
    <3>2. Price(t) = ServiceFee + t.fee.val + t.amount.val
      <4>1. t.cmd = "invoke" /\ ~t.self
        BY <2>1, <2>5 DEF JobOK
      <4> QED  BY <2>5, <4>1 DEF Price
    <3>3. t.fee.val \in Int /\ t.amount.val \in Int
      BY <2>1, JobIsCommand, StringVal DEF Command
    <3> QED  BY <2>3, <2>4, <2>5, <3>1, <3>2, <3>3, TxAssemblyAssumption DEF t
  <2>6. CASE ~t.compliance
    <3>1. /\ pc[c] = "ok" => <<c, "main">> \in accepted
          /\ <<c, "fee">> \notin accepted
          /\ <<c, "main">> \in accepted => Cost(main) = Price(t)
      BY <2>1, <2>2, <2>6 DEF Client, Control, OnChain, Amounts, main
    <3> QED  BY <2>3, <2>4, <3>1 DEF t
  <2> QED  BY <2>5, <2>6
<1> QED  BY <1>1, InvariantHolds, PTL

\* The node refuses a transaction in one step only: PostTx.
LEMMA RejectedByPostTx ==
    ASSUME IInv, [Next]_vars, NEW c \in Clients, pc[c] = "post", pc'[c] = "rejected"
    PROVE  ~Acceptable(c, "main")
<1>1. \A d \in Clients : DOMAIN pc = Clients /\ pc[d] \in Places
  BY DEF IInv, Types
<1>2. pc' # pc
  OBVIOUS
<1>3. PICK d \in Clients : ClientStep(d)
  BY <1>2 DEF Next, vars, EndorserStep, ProcessFee, GenerateTxSign, LockExpires
<1>4. d = c
  <2> SUFFICES ASSUME d # c PROVE pc'[c] = pc[c]
    OBVIOUS
  <2>1. \E p : pc' = [pc EXCEPT ![d] = p]
    <3>1. CASE EndsAtOnce(d) \/ Lookup(d) \/ CallFails(d) \/ PreExec(d)
      BY <3>1 DEF EndsAtOnce, Lookup, CallFails, PreExec, Goto
    <3>2. CASE GenTxInputs(d) \/ PreExecWithSelectUTXO(d) \/ ComplianceCheck(d)
               \/ EndorserReply(d) \/ EndorserTimeout(d)
      BY <3>2 DEF GenTxInputs, PreExecWithSelectUTXO, NothingSelected, ComplianceCheck,
         EndorserReply, EndorserTimeout, Goto
    <3>3. CASE AssembleTransfer(d) \/ SelectMerge(d) \/ GetBalance(d) \/ SelectSplit(d)
               \/ PreExecEmpty(d)
      BY <3>3 DEF AssembleTransfer, SelectMerge, GetBalance, SelectSplit, PreExecEmpty, Goto
    <3>4. CASE PostTx(d) \/ PostTxBroken(d)
      BY <3>4 DEF PostTx, PostTxBroken, Goto
    <3> QED  BY <1>3, <3>1, <3>2, <3>3, <3>4 DEF ClientStep
  <2> QED  BY <2>1, <1>1
<1>5. PostTx(c) \/ PostTxBroken(c)
  <2>1. pc[c] \notin {"start", "lookup", "select", "preexec", "endorse", "waiting"}
    OBVIOUS
  <2>2. ~(EndsAtOnce(c) \/ Lookup(c) \/ CallFails(c) \/ PreExec(c))
    BY <2>1 DEF EndsAtOnce, Lookup, CallFails, PreExec, Goto
  <2>3. ~(GenTxInputs(c) \/ PreExecWithSelectUTXO(c) \/ ComplianceCheck(c) \/ EndorserReply(c)
        \/ EndorserTimeout(c))
    BY <2>1 DEF GenTxInputs, PreExecWithSelectUTXO, NothingSelected, ComplianceCheck,
       EndorserReply, EndorserTimeout, Goto
  <2>4. ~(AssembleTransfer(c) \/ SelectMerge(c) \/ GetBalance(c) \/ SelectSplit(c) \/ PreExecEmpty(c))
    BY <2>1 DEF AssembleTransfer, SelectMerge, GetBalance, SelectSplit, PreExecEmpty, Goto
  <2> QED  BY <1>3, <1>4, <2>2, <2>3, <2>4 DEF ClientStep
<1> QED  BY <1>1, <1>5 DEF PostTx, PostTxBroken, Goto, AtEnd

\* The inputs of a refused transaction: one of them is no longer unspent.
LEMMA RefusedInput ==
    ASSUME IInv, NEW c \in Clients, pc[c] = "post", ~Acceptable(c, "main"), Sound(job[c])
           \/ ~job[c].compliance
    PROVE  \E u \in made[c]["main"].ins : u \notin utxo /\ Spent(u)
<1>1. JobOK(job[c]) /\ Client(c, job[c], "post", endorser[c], made[c], On(c))
  BY ClientFacts
<1>2. <<c, "main">> \notin accepted
  BY <1>1 DEF Client, OnChain, On, Kinds, Places, Ended
<1>3. Balanced(made[c]["main"])
  <2>1. CASE job[c].compliance
    <3>1. BothMade(job[c], c, made[c]) /\ Sound(job[c])
      BY <1>1, <2>1 DEF Client, Amounts
    <3> QED  BY <1>1, <2>1, <3>1, BothBalanced
  <2>2. CASE ~job[c].compliance
    BY <1>1, <2>2 DEF Client, Amounts
  <2> QED  BY <2>1, <2>2
<1>4. PICK u \in made[c]["main"].ins : u \notin utxo
  BY <1>2, <1>3 DEF Acceptable
<1>5. job[c].compliance => <<c, "fee">> \in accepted
  BY <1>1 DEF Client, Control, OnChain, On, Kinds
<1> QED  BY <1>4, <1>5 DEF IInv, Inputs

\* The node refuses a well-formed command only because another client spent one of
\* its inputs in between.
THEOREM RejectedOnlyByConflictHolds == Spec => RejectedOnlyByConflict
<1> DEFINE Step == \A c \in Clients :
                     pc[c] = "post" /\ pc'[c] = "rejected" /\ Sound(job[c]) =>
                        \E u \in made[c]["main"].ins, d \in Clients \ {c} : SpentBy(u, d)
<1>1. IInv /\ [Next]_vars => Step
  <2> SUFFICES ASSUME IInv, [Next]_vars, NEW c \in Clients, pc[c] = "post", pc'[c] = "rejected",
                      Sound(job[c])
               PROVE  \E u \in made[c]["main"].ins, d \in Clients \ {c} : SpentBy(u, d)
    OBVIOUS
  <2>1. PICK u \in made[c]["main"].ins : u \notin utxo /\ Spent(u)
    BY RejectedByPostTx, RefusedInput
  <2>2. JobOK(job[c]) /\ Client(c, job[c], "post", endorser[c], made[c], On(c))
    BY ClientFacts
  <2>3. ~SpentBy(u, c)
    <3>1. <<c, "main">> \notin accepted
      BY <2>2 DEF Client, OnChain, On, Kinds, Places, Ended
    <3>2. ASSUME <<c, "fee">> \in accepted PROVE u \notin made[c]["fee"].ins
      <4>1. BothMade(job[c], c, made[c])
        <5>1. endorser[c] # "idle"
          BY <2>2, <3>2 DEF Client, OnChain, On, Kinds
        <5> QED  BY <2>2, <5>1 DEF Client, Control, Amounts
      <4>2. made[c]["main"].ins = Coins(c, "fee", made[c]["fee"].back)
        BY <2>2, <4>1, BothFields
      <4>3. u.src = c /\ u.kind = "fee"
        <5>1. made[c]["fee"] \in Transactions /\ "fee" \in Kinds
          BY DEF IInv, Types, Kinds
        <5>2. made[c]["fee"].back \in Seq(Nat)
          BY <5>1 DEF Transactions
        <5> QED  BY <2>1, <4>2, <5>1, <5>2, CoinsFacts
      <4> QED  BY <4>1, <4>3 DEF BothMade
    <3> QED  BY <3>1, <3>2 DEF SpentBy, Kinds
  <2> QED  BY <2>1, <2>3 DEF Spent
<1> QED  BY <1>1, InvariantHolds, PTL DEF Spec, RejectedOnlyByConflict

\* A command that selects with lock loses an input only to one that selects without,
\* or after its lock expired.
THEOREM LockProtectsHolds == Spec => LockProtects
<1> DEFINE Step == \A c \in Clients :
                     pc[c] = "post" /\ pc'[c] = "rejected" /\ job[c].cmd \in {"transfer", "merge"} =>
                        \E u \in made[c]["main"].ins :
                           \/ u \in lapsed
                           \/ \E d \in Clients : SpentBy(u, d) /\ job[d].cmd \in {"invoke", "split"}
<1>1. IInv /\ [Next]_vars => Step
  <2> SUFFICES ASSUME IInv, [Next]_vars, NEW c \in Clients, pc[c] = "post", pc'[c] = "rejected",
                      job[c].cmd \in {"transfer", "merge"}
               PROVE  \E u \in made[c]["main"].ins : u \in lapsed \/ Lost(u)
    BY DEF Lost
  <2>1. ~job[c].compliance
    BY ClientFacts DEF JobOK
  <2>2. PICK u \in made[c]["main"].ins : u \notin utxo
    BY <2>1, RejectedByPostTx, RefusedInput
  <2>3. u \notin locked /\ Holds(c)
    BY <2>2 DEF IInv, Types, Holds, Holder
  <2> QED  BY <2>2, <2>3 DEF IInv, Locks
<1> QED  BY <1>1, InvariantHolds, PTL DEF Spec, LockProtects

---------------------------------------------------------------------------
(* The jobs are those of the commands.                                     *)

CommandNames ==
    {"contract invoke", "contract deploy", "contract upgrade", "consensus invoke",
     "proposal propose", "proposal vote", "proposal thaw", "govern init", "govern transfer",
     "account new", "transfer", "vote", "utxo merge", "utxo split"}

CommandLine(l) ==
    /\ l.name \in CommandNames
    /\ l.amount \in Strings /\ l.fee \in Strings
    /\ {l.account, l.multi, l.debug, l.id} \subseteq BOOLEAN
    /\ l.num \in Int

JobRecords ==
    [cmd : {"invoke", "gen", "query", "transfer", "merge", "split", "refused", "nothing"},
     to : BOOLEAN, amount : Strings, fee : Strings, compliance : BOOLEAN, feeAddr : BOOLEAN,
     debug : BOOLEAN, self : BOOLEAN, named : BOOLEAN, num : Int, first : {"none", "acl", "status"}]


\* A job record is a job when its flags fit its command.
LEMMA RecordIsJob ==
    ASSUME NEW t \in JobRecords, t.compliance => t.cmd = "invoke", t.self => t.cmd = "transfer",
           t.cmd = "transfer" => t.to
    PROVE  JobOK(t)
<1>1. \A s \in {t.amount, t.fee} :
          s \in [kind : {"empty", "bad", "num"}, val : Int] /\ (s.kind # "num" => s.val = 0)
  <2>1. t.amount \in Strings /\ t.fee \in Strings
    BY DEF JobRecords
  <2> QED  BY <2>1 DEF Strings, Empty, NotANumber, Num
<1>2. {t.to, t.compliance, t.feeAddr, t.debug, t.self, t.named} \subseteq BOOLEAN
  BY DEF JobRecords
<1>3. /\ t.cmd \in {"invoke", "gen", "query", "transfer", "merge", "split", "refused", "nothing"}
      /\ t.num \in Int /\ t.first \in {"none", "acl", "status"}
  BY DEF JobRecords
<1> QED  BY <1>1, <1>2, <1>3 DEF JobOK

\* A job without amounts.
LEMMA IdleJob ==
    ASSUME NEW cmd \in {"invoke", "gen", "query", "transfer", "merge", "split", "refused", "nothing"}
    PROVE  /\ Idle(cmd) \in JobRecords /\ Idle(cmd).cmd = cmd /\ ~Idle(cmd).self
           /\ ~Idle(cmd).compliance /\ Idle(cmd).named /\ Idle(cmd).first = "none"
           /\ cmd # "transfer" => JobOK(Idle(cmd))
<1>1. Empty \in Strings
  BY DEF Strings
<1>2. Idle(cmd) \in JobRecords
  BY <1>1 DEF Idle, JobRecords
<1>3. Idle(cmd).cmd = cmd /\ ~Idle(cmd).self /\ ~Idle(cmd).compliance /\ Idle(cmd).named
      /\ Idle(cmd).first = "none"
  BY DEF Idle
<1> QED  BY <1>2, <1>3, RecordIsJob

\* A command that may lack a file.
LEMMA NeedsJob == ASSUME NEW l, NEW files, NEW t, JobOK(t) PROVE JobOK(Needs(l, files, t))
  BY IdleJob DEF Needs, Refused

\* What the commands that build a CommTrans start from.
LEMMA CommTransJob ==
    ASSUME NEW l, CommandLine(l), NEW ro \in BOOLEAN
    PROVE  /\ CommTrans(l, ro) \in JobRecords
           /\ CommTrans(l, ro).cmd = "invoke"
           /\ ~CommTrans(l, ro).self
           /\ JobOK(CommTrans(l, ro))
<1> DEFINE t == CommTrans(l, ro)
<1>1. Num(0) \in Strings /\ l.fee \in Strings
  BY DEF CommandLine, Strings, Num
<1>2. Idle("invoke") \in JobRecords /\ Idle("invoke").cmd = "invoke" /\ ~Idle("invoke").self
  BY IdleJob
<1>3. (ro /\ IsNeedComplianceCheck(l)) \in BOOLEAN /\ (ro /\ FeeAddr(l)) \in BOOLEAN
  OBVIOUS
<1>4. t \in JobRecords /\ t.cmd = "invoke" /\ ~t.self
  BY <1>1, <1>2, <1>3 DEF CommTrans, JobRecords
<1> QED  BY <1>4, RecordIsJob

\* A transaction written to a file, too.
LEMMA MultiJob ==
    ASSUME NEW t \in JobRecords, ~t.self
    PROVE  /\ Multi(t) \in JobRecords /\ JobOK(Multi(t)) /\ ~Multi(t).self
           /\ ~Multi(t).compliance /\ Multi(t).cmd = "gen"
<1>1. Multi(t) \in JobRecords /\ ~Multi(t).self /\ ~Multi(t).compliance /\ Multi(t).cmd = "gen"
  BY DEF Multi, JobRecords
<1> QED  BY <1>1, RecordIsJob

\* Either, by --isMulti.
LEMMA MultiOrJob ==
    ASSUME NEW l, NEW t \in JobRecords, ~t.self, JobOK(t)
    PROVE  JobOK(MultiOr(l, t))
<1>1. JobOK(Needs(l, {"addrs"}, Multi(t)))
  BY MultiJob, NeedsJob
<1> QED  BY <1>1 DEF MultiOr

\* The job of every command line is a job of TxFlow: CommandJob makes only jobs
\* that satisfy the assumption the theorems about TxFlow rest on.
THEOREM CommandsMakeJobs ==
    ASSUME NEW l, CommandLine(l)
    PROVE  JobOK(CommandJob(l))
<1>0. l.amount \in Strings /\ l.fee \in Strings /\ l.account \in BOOLEAN /\ l.multi \in BOOLEAN
      /\ l.debug \in BOOLEAN /\ l.num \in Int /\ l.name \in CommandNames
  BY DEF CommandLine
<1>1. JobOK(Refused) /\ JobOK(Nothing) /\ JobOK(Idle("merge"))
  BY IdleJob DEF Refused, Nothing
<1>2. \A ro \in BOOLEAN : /\ CommTrans(l, ro) \in JobRecords /\ CommTrans(l, ro).cmd = "invoke"
                          /\ ~CommTrans(l, ro).self /\ JobOK(CommTrans(l, ro))
  BY CommTransJob
<1>3. TRUE \in BOOLEAN /\ FALSE \in BOOLEAN
  OBVIOUS
<1>4. JobOK(ContractInvoke(l))
  <2> DEFINE t == [CommTrans(l, TRUE) EXCEPT !.to = l.amount # Empty, !.amount = l.amount,
             !.debug = l.debug]
  <2>1. t \in JobRecords /\ t.cmd = "invoke" /\ ~t.self
    BY <1>0, <1>2 DEF JobRecords
  <2> HIDE DEF t
  <2>2. JobOK(MultiOr(l, t))
    BY <2>1, RecordIsJob, MultiOrJob
  <2> QED  BY <2>2, NeedsJob DEF ContractInvoke, t
<1>5. JobOK(ContractDeploy(l)) /\ JobOK(ContractUpgrade(l))
  <2>1. JobOK(MultiOr(l, CommTrans(l, TRUE)))
    BY <1>2, MultiOrJob
  <2> QED  BY <2>1, NeedsJob DEF ContractDeploy, ContractUpgrade
<1>6. JobOK(ConsensusInvoke(l))
  <2>1. JobOK(Query(l))
    <3> DEFINE t == [CommTrans(l, FALSE) EXCEPT !.cmd = "query"]
    <3>1. t \in JobRecords /\ t.cmd = "query" /\ ~t.self /\ ~t.compliance
      <4>1. ~CommTrans(l, FALSE).compliance
        BY IdleJob DEF CommTrans, JobRecords
      <4> QED  BY <1>2, <4>1 DEF JobRecords
    <3> HIDE DEF t
    <3> QED  BY <3>1, RecordIsJob, NeedsJob DEF Query, t
  <2>2. JobOK(TdposInvoke(l))
    <3>1. JobOK(MultiOr(l, CommTrans(l, FALSE)))
      BY <1>2, MultiOrJob
    <3> QED  BY <2>1, <3>1, NeedsJob DEF TdposInvoke
  <2>3. JobOK(XpoaInvoke(l))
    <3> DEFINE u == Multi(CommTrans(l, FALSE))
               addrs == "addrs" \in l.has
               t == [u EXCEPT !.first = "acl", !.named = addrs]
               r == [Refused EXCEPT !.first = "acl"]
    <3>1. u \in JobRecords /\ ~u.self /\ ~u.compliance /\ u.cmd = "gen"
      BY <1>2, MultiJob
    <3>2. addrs \in BOOLEAN
      OBVIOUS
    <3> HIDE DEF u, addrs
    <3>3. t \in JobRecords /\ ~t.self /\ ~t.compliance /\ t.cmd = "gen"
      BY <3>1, <3>2 DEF JobRecords
    <3>4. r \in JobRecords /\ ~r.self /\ ~r.compliance /\ r.cmd = "refused"
      <4>1. Refused \in JobRecords /\ ~Refused.self /\ ~Refused.compliance /\ Refused.cmd = "refused"
        BY IdleJob DEF Refused
      <4> QED  BY <4>1 DEF JobRecords
    <3> HIDE DEF t, r
    <3>5. JobOK(t) /\ JobOK(r)
      BY <3>3, <3>4, RecordIsJob
    <3>6. XpoaInvoke(l) \in {Query(l), Refused, t, r}
      BY DEF XpoaInvoke, t, u, r, addrs
    <3> QED  BY <1>1, <2>1, <3>5, <3>6
  <2>4. CASE l.bucket \in {"tdpos", "xpos"}
    BY <2>2, <2>4 DEF ConsensusInvoke
  <2>5. CASE l.bucket \in {"poa", "xpoa"}
    BY <2>3, <2>5 DEF ConsensusInvoke
  <2>6. CASE l.bucket \notin {"tdpos", "xpos", "poa", "xpoa"}
    BY <1>1, <2>6 DEF ConsensusInvoke
  <2> QED  BY <2>4, <2>5, <2>6
<1>7. JobOK(ProposalPropose(l))
  <2> DEFINE t == [CommTrans(l, TRUE) EXCEPT !.first = "status"]
  <2>1. t \in JobRecords /\ t.cmd = "invoke" /\ ~t.self
    BY <1>2 DEF JobRecords
  <2> HIDE DEF t
  <2> QED  BY <2>1, RecordIsJob, NeedsJob DEF ProposalPropose, t
<1>8. JobOK(ProposalVote(l)) /\ JobOK(ProposalThaw(l)) /\ JobOK(GovernTokenInit(l))
      /\ JobOK(GovernTokenTransfer(l))
  BY <1>1, <1>2, NeedsJob DEF ProposalVote, ProposalThaw, GovernTokenInit, GovernTokenTransfer
<1>9. JobOK(AccountNew(l))
  <2> DEFINE t == [CommTrans(l, TRUE) EXCEPT !.debug = l.debug, !.named = l.account
             \/ "args" \in l.has]
  <2>1. t \in JobRecords /\ t.cmd = "invoke" /\ ~t.self
    BY <1>0, <1>2 DEF JobRecords
  <2> HIDE DEF t
  <2> QED  BY <2>1, RecordIsJob, NeedsJob DEF AccountNew, t
<1>10. JobOK(Transfer(l)) /\ JobOK(Vote(l))
  <2> DEFINE i == Idle("transfer")
             t == [i EXCEPT !.to = TRUE, !.amount = l.amount, !.fee = l.fee, !.debug = l.debug]
             v == [i EXCEPT !.to = TRUE, !.amount = l.amount, !.self = TRUE]
  <2>1. i \in JobRecords /\ i.cmd = "transfer" /\ ~i.compliance
    BY IdleJob
  <2> HIDE DEF i
  <2>2. t \in JobRecords /\ t.cmd = "transfer" /\ ~t.compliance /\ t.to
    BY <1>0, <2>1 DEF JobRecords
  <2>3. v \in JobRecords /\ v.cmd = "transfer" /\ ~v.compliance /\ v.to
    BY <1>0, <2>1 DEF JobRecords
  <2> HIDE DEF t, v
  <2>4. JobOK(t) /\ JobOK(v)
    BY <2>2, <2>3, RecordIsJob
  <2> QED  BY <2>4, NeedsJob DEF Transfer, Vote, t, v, i
<1>11. JobOK(MergeUtxo(l)) /\ JobOK(SplitUtxo(l))
  <2> DEFINE i == Idle("split")
             t == [i EXCEPT !.num = l.num, !.debug = l.multi, !.named = l.multi => "addrs" \in l.has]
  <2>1. i \in JobRecords /\ i.cmd = "split" /\ ~i.compliance /\ ~i.self
    BY IdleJob
  <2> HIDE DEF i
  <2>2. t \in JobRecords /\ t.cmd = "split" /\ ~t.compliance /\ ~t.self
    BY <1>0, <2>1 DEF JobRecords
  <2> HIDE DEF t
  <2> QED  BY <1>1, <2>2, RecordIsJob, NeedsJob DEF MergeUtxo, SplitUtxo, t, i
<1>12. CASE LoadConfigError(l)
  BY <1>1, <1>12 DEF CommandJob
<1>13. CASE ~LoadConfigError(l)
  BY <1>0, <1>4, <1>5, <1>6, <1>7, <1>8, <1>9, <1>10, <1>11, <1>13 DEF CommandJob, CommandNames
<1> QED  BY <1>12, <1>13

=============================================================================
