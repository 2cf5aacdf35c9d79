-------------------------- MODULE PruneLedgerProofs --------------------------
(***************************************************************************)
(* Proofs about pruneLedger, for any number of blocks and every shape of   *)
(* the block tree: its safety properties and those of the offline queries  *)
(* that read what it leaves.                                               *)
(***************************************************************************)
EXTENDS PruneLedger, FiniteSetTheorems, WellFoundedInduction, TLAPS

---------------------------------------------------------------------------
(* Induction over the natural numbers, as the existence of a least         *)
(* counterexample.                                                         *)

\* A set of natural numbers that is not empty has a least element.
LEMMA LeastNat ==
    ASSUME NEW T, T \subseteq Nat, T # {}
    PROVE  \E x \in T : \A y \in T : x <= y
<1>1. IsWellFoundedOn(OpToRel(<, Nat), Nat)
  BY NatLessThanWellFounded
<1>2. PICK x \in T : \A y \in T : ~(<<y, x>> \in OpToRel(<, Nat))
  BY <1>1, WFMin
<1>3. \A y \in T : <<y, x>> \in Nat \X Nat /\ <<y, x>>[1] = y /\ <<y, x>>[2] = x
  OBVIOUS
<1>4. \A y \in T : ~(y < x)
  BY <1>2, <1>3, Zenon DEF OpToRel
<1> QED  BY <1>4

\* A set of block numbers that is not empty has a greatest element.
LEMMA GreatestId ==
    ASSUME NEW T, T \subseteq Ids, T # {}
    PROVE  \E x \in T : \A y \in T : y <= x
<1> DEFINE U == {MaxBlock - x : x \in T}
<1>1. \A x \in T : MaxBlock - x \in Nat
  BY PruneAssumption DEF Ids
<1>2. U \subseteq Nat /\ U # {}
  BY <1>1
<1>3. PICK u \in U : \A v \in U : u <= v
  BY <1>2, LeastNat
<1>4. PICK x \in T : u = MaxBlock - x
  OBVIOUS
<1>5. \A y \in T : MaxBlock - y \in U
  OBVIOUS
<1> HIDE DEF U
<1> QED  BY <1>3, <1>4, <1>5, PruneAssumption DEF Ids

---------------------------------------------------------------------------
(* The block tree.  A block is confirmed on one that exists, so its number *)
(* is greater than its parent's; this makes the recursive definition of    *)
(* ancestors one that has a value.                                         *)

Tree(par) == par \in [Ids -> Ids] /\ \A b \in Ids \ {0} : par[b] < b

\* anc is the ancestor function of the tree up to block n
AncestorsUpTo(anc, par, n) ==
    /\ anc \in [0..n -> SUBSET Ids]
    /\ \A b \in 0..n : anc[b] = IF b = 0 THEN {0} ELSE {b} \cup anc[par[b]]

IsAncestors(anc, par) == AncestorsUpTo(anc, par, MaxBlock)

\* The ancestor function exists, up to any block: the first block it did not
\* exist for would have a parent for which it does.
LEMMA AncestorsExistUpTo ==
    ASSUME NEW par, Tree(par), NEW m \in Ids
    PROVE  \E anc : AncestorsUpTo(anc, par, m)
<1> DEFINE Bad == {n \in Ids : ~ \E anc : AncestorsUpTo(anc, par, n)}
<1>1. SUFFICES ASSUME Bad # {} PROVE FALSE
  OBVIOUS
<1>2. PICK n \in Bad : \A k \in Bad : n <= k
  <2>1. Bad \subseteq Nat
    BY PruneAssumption DEF Ids
  <2> QED  BY <1>1, <2>1, LeastNat
<1>3. CASE n = 0
  <2>1. AncestorsUpTo([b \in 0..0 |-> {0}], par, 0)
    BY PruneAssumption DEF AncestorsUpTo, Ids
  <2> QED  BY <1>3, <2>1
<1>4. CASE n # 0
  <2>1. n \in Ids /\ n - 1 \in Ids /\ n - 1 < n /\ par[n] \in 0..(n - 1)
    BY <1>4, PruneAssumption DEF Ids, Tree
  <2>2. n - 1 \notin Bad
    BY <1>2, <2>1, PruneAssumption DEF Ids
  <2>3. PICK anc : AncestorsUpTo(anc, par, n - 1)
    BY <2>1, <2>2
  <2> DEFINE more == [b \in 0..n |-> IF b = n THEN {n} \cup anc[par[n]] ELSE anc[b]]
  <2>4. more \in [0..n -> SUBSET Ids]
    BY <2>1, <2>3, PruneAssumption DEF AncestorsUpTo, Ids
  <2>5. ASSUME NEW b \in 0..n
        PROVE  more[b] = IF b = 0 THEN {0} ELSE {b} \cup more[par[b]]
    <3>1. CASE b = n
      BY <1>4, <2>1, <3>1 DEF Ids
    <3>2. CASE b = 0
      BY <1>4, <2>3, <2>1, <3>2, PruneAssumption DEF AncestorsUpTo, Ids
    <3>3. CASE b # n /\ b # 0
      <4>1. b \in 0..(n - 1) /\ b \in Ids \ {0}
        BY <2>1, <3>3, PruneAssumption DEF Ids
      <4>2. par[b] \in Ids /\ par[b] < b
        BY <4>1 DEF Tree
      <4>3. par[b] \in 0..n /\ par[b] # n
        BY <2>1, <4>1, <4>2, PruneAssumption DEF Ids
      <4>4. anc[b] = {b} \cup anc[par[b]]
        BY <2>3, <3>3, <4>1 DEF AncestorsUpTo
      <4> QED  BY <3>3, <4>3, <4>4
    <3> QED  BY <3>1, <3>2, <3>3
  <2> HIDE DEF more
  <2>6. AncestorsUpTo(more, par, n)
    BY <2>4, <2>5 DEF AncestorsUpTo
  <2> QED  BY <2>6
<1> QED  BY <1>3, <1>4

\* The definition of ancestors is satisfied by what it defines.  (Its expansion
\* is left to Zenon, which asks for the existence first.)
LEMMA AncestorsAre ==
    ASSUME Tree(parent)
    PROVE  IsAncestors(ancestors, parent)
<1>1. PICK anc : AncestorsUpTo(anc, parent, MaxBlock)
  <2>1. MaxBlock \in Ids
    BY PruneAssumption DEF Ids
  <2> QED  BY <2>1, AncestorsExistUpTo
<1>2. anc = [b \in Ids |-> IF b = 0 THEN {0} ELSE {b} \cup anc[parent[b]]]
  BY <1>1 DEF AncestorsUpTo, Ids
<1>3. \E a : a = [b \in Ids |-> IF b = 0 THEN {0} ELSE {b} \cup a[parent[b]]]
  BY <1>2, Zenon
<1>4. ancestors = [b \in Ids |-> IF b = 0 THEN {0} ELSE {b} \cup ancestors[parent[b]]]
  BY <1>3, Zenon DEF ancestors
<1> DEFINE Bad == {n \in Ids : ancestors[n] \notin SUBSET Ids}
<1>5. Bad = {}
  <2>1. SUFFICES ASSUME Bad # {} PROVE FALSE
    OBVIOUS
  <2>2. PICK n \in Bad : \A k \in Bad : n <= k
    <3>1. Bad \subseteq Nat
      BY PruneAssumption DEF Ids
    <3> QED  BY <2>1, <3>1, LeastNat
  <2>3. n \in Ids /\ ancestors[n] = IF n = 0 THEN {0} ELSE {n} \cup ancestors[parent[n]]
    BY <1>4
  <2>4. CASE n = 0
    BY <2>3, <2>4
  <2>5. CASE n # 0
    <3>1. parent[n] \in Ids /\ parent[n] < n
      BY <2>3, <2>5 DEF Tree
    <3>2. parent[n] \notin Bad
      BY <2>2, <2>3, <3>1, PruneAssumption DEF Ids
    <3> QED  BY <2>3, <2>5, <3>1, <3>2
  <2> QED  BY <2>4, <2>5
<1>6. \A b \in Ids : ancestors[b] = IF b = 0 THEN {0} ELSE {b} \cup ancestors[parent[b]]
  BY <1>4
<1>7. ancestors \in [Ids -> SUBSET Ids]
  <2>1. \A b \in Ids : ancestors[b] \in SUBSET Ids
    BY <1>5
  <2>2. ancestors = [b \in Ids |-> ancestors[b]]
    BY <1>4, Zenon
  <2> QED  BY <2>1, <2>2
<1> QED  BY <1>6, <1>7 DEF IsAncestors, AncestorsUpTo, Ids

---------------------------------------------------------------------------
(* Facts about a tree and its ancestor function.                           *)

\* What one step down the tree adds.
LEMMA AncestorStep ==
    ASSUME NEW par, NEW anc, Tree(par), IsAncestors(anc, par), NEW b \in Ids
    PROVE  /\ b \in Nat /\ b <= MaxBlock
           /\ anc[b] \subseteq Ids
           /\ b = 0 => anc[b] = {0}
           /\ b # 0 => par[b] \in Ids /\ par[b] < b /\ anc[b] = {b} \cup anc[par[b]]
  BY PruneAssumption DEF Tree, IsAncestors, AncestorsUpTo, Ids

\* What holds of the root, and of a block when it holds of its parent, holds of
\* every block.
LEMMA TreeInduction ==
    ASSUME NEW par, Tree(par), NEW T, 0 \in T,
           \A b \in Ids \ {0} : par[b] \in Ids /\ par[b] \in T => b \in T
    PROVE  \A b \in Ids : b \in T
<1> DEFINE Bad == Ids \ T
<1>1. SUFFICES ASSUME Bad # {} PROVE FALSE
  OBVIOUS
<1>2. PICK n \in Bad : \A k \in Bad : n <= k
  <2>1. Bad \subseteq Nat
    BY PruneAssumption DEF Ids
  <2> QED  BY <1>1, <2>1, LeastNat
<1>3. n \in Ids \ {0} /\ par[n] \in Ids /\ par[n] < n
  BY DEF Tree
<1>4. par[n] \notin T
  BY <1>3
<1> QED  BY <1>2, <1>3, <1>4 DEF Ids

\* A block is its own ancestor, the root is everybody's, and no other ancestor
\* has a greater number.
LEMMA AncestorBounds ==
    ASSUME NEW par, NEW anc, Tree(par), IsAncestors(anc, par), NEW m \in Ids
    PROVE  m \in anc[m] /\ 0 \in anc[m] /\ \A c \in anc[m] : c \in Ids /\ c <= m
<1> DEFINE T == {b \in Ids : b \in anc[b] /\ 0 \in anc[b] /\ \A c \in anc[b] : c <= b}
<1>1. 0 \in T
  <2>1. 0 \in Ids
    BY PruneAssumption DEF Ids
  <2> QED  BY <2>1, AncestorStep
<1>2. ASSUME NEW b \in Ids \ {0}, par[b] \in Ids, par[b] \in T PROVE b \in T
  <2>1. par[b] < b /\ anc[b] = {b} \cup anc[par[b]] /\ anc[par[b]] \subseteq Ids
    BY AncestorStep
  <2>2. \A c \in Ids : c \in Nat
    BY DEF Ids
  <2>3. \A c \in anc[par[b]] : c <= b
    BY <1>2, <2>1, <2>2
  <2> QED  BY <1>2, <2>1, <2>2, <2>3
<1>3. m \in T
  <2> HIDE DEF T
  <2> QED  BY <1>1, <1>2, TreeInduction
<1>4. anc[m] \subseteq Ids
  BY AncestorStep
<1> QED  BY <1>3, <1>4

\* An ancestor's ancestors are ancestors.
LEMMA AncestorTrans ==
    ASSUME NEW par, NEW anc, Tree(par), IsAncestors(anc, par),
           NEW m \in Ids, NEW c \in anc[m]
    PROVE  anc[c] \subseteq anc[m]
<1> DEFINE T == {b \in Ids : \A d \in anc[b] : anc[d] \subseteq anc[b]}
<1>1. 0 \in T
  <2>1. 0 \in Ids
    BY PruneAssumption DEF Ids
  <2> QED  BY <2>1, AncestorStep
<1>2. ASSUME NEW b \in Ids \ {0}, par[b] \in Ids, par[b] \in T PROVE b \in T
  <2>1. anc[b] = {b} \cup anc[par[b]]
    BY AncestorStep
  <2> QED  BY <1>2, <2>1
<1>3. m \in T
  <2> HIDE DEF T
  <2> QED  BY <1>1, <1>2, TreeInduction
<1> QED  BY <1>3

\* The ancestors of a block form a chain.
LEMMA AncestorChain ==
    ASSUME NEW par, NEW anc, Tree(par), IsAncestors(anc, par),
           NEW m \in Ids, NEW c \in anc[m], NEW d \in anc[m], c <= d
    PROVE  c \in anc[d]
<1> DEFINE T == {b \in Ids : \A x, y \in anc[b] : x <= y => x \in anc[y]}
<1>1. 0 \in T
  <2>1. 0 \in Ids
    BY PruneAssumption DEF Ids
  <2> QED  BY <2>1, AncestorStep
<1>2. ASSUME NEW b \in Ids \ {0}, par[b] \in Ids, par[b] \in T PROVE b \in T
  <2>1. anc[b] = {b} \cup anc[par[b]] /\ b \in Nat /\ par[b] \in Nat /\ par[b] < b
    BY AncestorStep
  <2>2. ASSUME NEW x \in anc[b], NEW y \in anc[b], x <= y PROVE x \in anc[y]
    <3>1. CASE y = b
      BY <3>1
    <3>2. CASE y # b
      <4>1. y \in anc[par[b]]
        BY <2>1, <3>2
      <4>2. y <= par[b] /\ y \in Nat
        BY <1>2, <4>1, AncestorBounds DEF Ids
      <4>3. x \in anc[par[b]]
        BY <2>1, <2>2, <4>2
      <4> QED  BY <1>2, <2>2, <4>1, <4>3
    <3> QED  BY <3>1, <3>2
  <2> QED  BY <2>2
<1>3. m \in T
  <2> HIDE DEF T
  <2> QED  BY <1>1, <1>2, TreeInduction
<1> QED  BY <1>3

\* Between a block and an ancestor of it there is a child of that ancestor.
LEMMA AncestorChild ==
    ASSUME NEW par, NEW anc, Tree(par), IsAncestors(anc, par),
           NEW m \in Ids, NEW c \in anc[m], c # m
    PROVE  \E d \in anc[m] : d # 0 /\ par[d] = c
<1> DEFINE T == {b \in Ids : \A x \in anc[b] : x # b => \E d \in anc[b] : d # 0 /\ par[d] = x}
<1>1. 0 \in T
  <2>1. 0 \in Ids
    BY PruneAssumption DEF Ids
  <2> QED  BY <2>1, AncestorStep
<1>2. ASSUME NEW b \in Ids \ {0}, par[b] \in Ids, par[b] \in T PROVE b \in T
  <2>1. anc[b] = {b} \cup anc[par[b]]
    BY AncestorStep
  <2>2. ASSUME NEW x \in anc[b], x # b PROVE \E d \in anc[b] : d # 0 /\ par[d] = x
    <3>1. CASE x = par[b]
      BY <2>1, <3>1
    <3>2. CASE x # par[b]
      BY <1>2, <2>1, <2>2, <3>2
    <3> QED  BY <3>1, <3>2
  <2> QED  BY <2>2
<1>3. m \in T
  <2> HIDE DEF T
  <2> QED  BY <1>1, <1>2, TreeInduction
<1> QED  BY <1>3

\* Trees that agree up to a block have the same ancestors up to it.
LEMMA AncestorsAgree ==
    ASSUME NEW par, NEW anc, Tree(par), IsAncestors(anc, par),
           NEW par2, NEW anc2, Tree(par2), IsAncestors(anc2, par2),
           NEW m \in Ids, \A b \in 1..m : par2[b] = par[b]
    PROVE  anc2[m] = anc[m]
<1> DEFINE T == {b \in Ids : b <= m => anc2[b] = anc[b]}
<1>0. m \in Nat
  BY DEF Ids
<1>1. 0 \in T
  <2>1. 0 \in Ids
    BY PruneAssumption DEF Ids
  <2>2. anc[0] = {0}
    BY <2>1, AncestorStep
  <2>3. anc2[0] = {0}
    BY <2>1, AncestorStep
  <2> QED  BY <2>1, <2>2, <2>3
<1>2. ASSUME NEW b \in Ids \ {0}, par[b] \in Ids, par[b] \in T PROVE b \in T
  <2>1. anc[b] = {b} \cup anc[par[b]] /\ b \in Nat /\ par[b] \in Nat /\ par[b] < b
    BY AncestorStep
  <2>2. anc2[b] = {b} \cup anc2[par2[b]]
    BY AncestorStep
  <2>3. b <= m => par2[b] = par[b] /\ par[b] <= m
    BY <1>0, <2>1
  <2> QED  BY <1>2, <2>1, <2>2, <2>3
<1>3. m \in T
  <2> HIDE DEF T
  <2> QED  BY <1>1, <1>2, TreeInduction
<1> QED  BY <1>0, <1>3

---------------------------------------------------------------------------
(* Heights.                                                                *)

HeightIn(anc, b) == Cardinality(anc[b]) - 1

\* A block is one higher than its parent.
LEMMA HeightStep ==
    ASSUME NEW par, NEW anc, Tree(par), IsAncestors(anc, par), NEW b \in Ids
    PROVE  /\ IsFiniteSet(anc[b])
           /\ HeightIn(anc, b) \in Nat
           /\ b = 0 => HeightIn(anc, b) = 0
           /\ b # 0 => HeightIn(anc, b) = HeightIn(anc, par[b]) + 1
<1>0. IsFiniteSet(Ids)
  BY FS_Interval, PruneAssumption DEF Ids
<1>1. \A x \in Ids : IsFiniteSet(anc[x]) /\ Cardinality(anc[x]) \in Nat
  <2> TAKE x \in Ids
  <2>1. anc[x] \subseteq Ids
    BY AncestorStep
  <2> QED  BY <1>0, <2>1, FS_Subset, FS_CardinalityType
<1>2. Cardinality(anc[b]) # 0
  <2>1. b \in anc[b]
    BY AncestorBounds
  <2> QED  BY <1>1, <2>1, FS_EmptySet
<1>3. ASSUME b = 0 PROVE HeightIn(anc, b) = 0
  <2>1. anc[b] = {0}
    BY <1>3, AncestorStep
  <2> QED  BY <2>1, FS_Singleton DEF HeightIn
<1>4. ASSUME b # 0 PROVE HeightIn(anc, b) = HeightIn(anc, par[b]) + 1
  <2>1. par[b] \in Ids /\ par[b] < b /\ anc[b] = {b} \cup anc[par[b]] /\ par[b] \in Nat /\ b \in Nat
    BY <1>4, AncestorStep DEF Ids
  <2>2. b \notin anc[par[b]]
    BY <2>1, AncestorBounds
  <2>3. Cardinality(anc[par[b]] \cup {b}) = Cardinality(anc[par[b]]) + 1
    BY <1>1, <2>1, <2>2, FS_AddElement
  <2>4. anc[b] = anc[par[b]] \cup {b}
    BY <2>1
  <2>5. Cardinality(anc[b]) = Cardinality(anc[par[b]]) + 1
    BY <2>3, <2>4
  <2>6. Cardinality(anc[par[b]]) \in Nat
    BY <1>1, <2>1
  <2> QED  BY <2>5, <2>6 DEF HeightIn
<1> QED  BY <1>1, <1>2, <1>3, <1>4 DEF HeightIn

\* On a chain the heights are strictly ordered.
LEMMA HeightBelow ==
    ASSUME NEW par, NEW anc, Tree(par), IsAncestors(anc, par),
           NEW b \in Ids, NEW c \in anc[b]
    PROVE  /\ c \in Ids
           /\ HeightIn(anc, c) <= HeightIn(anc, b)
           /\ HeightIn(anc, c) = HeightIn(anc, b) => c = b
<1>1. c \in Ids /\ c <= b /\ c \in Nat /\ b \in Nat
  BY AncestorBounds DEF Ids
<1>2. anc[c] \in SUBSET anc[b]
  BY AncestorTrans
<1>3. IsFiniteSet(anc[b]) /\ Cardinality(anc[b]) \in Nat
  BY HeightStep, FS_CardinalityType
<1>4. Cardinality(anc[c]) \in Nat
  BY <1>1, HeightStep, FS_CardinalityType
<1>5. /\ Cardinality(anc[c]) <= Cardinality(anc[b])
      /\ Cardinality(anc[b]) = Cardinality(anc[c]) => anc[b] = anc[c]
  BY <1>2, <1>3, FS_Subset
<1>6. anc[b] = anc[c] => b <= c
  BY <1>1, AncestorBounds
<1> QED  BY <1>1, <1>3, <1>4, <1>5, <1>6 DEF HeightIn

\* One ancestor at most for a height.
LEMMA HeightUnique ==
    ASSUME NEW par, NEW anc, Tree(par), IsAncestors(anc, par),
           NEW b \in Ids, NEW c \in anc[b], NEW d \in anc[b],
           HeightIn(anc, c) = HeightIn(anc, d)
    PROVE  c = d
<1>1. c \in Ids /\ d \in Ids /\ c \in Nat /\ d \in Nat
  BY AncestorBounds DEF Ids
<1>2. CASE c <= d
  <2>1. c \in anc[d]
    BY <1>2, AncestorChain
  <2> QED  BY <1>1, <2>1, HeightBelow
<1>3. CASE d <= c
  <2>1. d \in anc[c]
    BY <1>3, AncestorChain
  <2> QED  BY <1>1, <2>1, HeightBelow
<1> QED  BY <1>1, <1>2, <1>3

\* And one at least, up to the block's own.
LEMMA HeightCovered ==
    ASSUME NEW par, NEW anc, Tree(par), IsAncestors(anc, par),
           NEW m \in Ids, NEW k \in Nat, k <= HeightIn(anc, m)
    PROVE  \E c \in anc[m] : HeightIn(anc, c) = k
<1> DEFINE T == {b \in Ids : k <= HeightIn(anc, b) => \E c \in anc[b] : HeightIn(anc, c) = k}
<1>1. 0 \in T
  <2>1. 0 \in Ids
    BY PruneAssumption DEF Ids
  <2>2. HeightIn(anc, 0) = 0 /\ 0 \in anc[0]
    BY <2>1, HeightStep, AncestorBounds
  <2> QED  BY <2>1, <2>2
<1>2. ASSUME NEW b \in Ids \ {0}, par[b] \in Ids, par[b] \in T PROVE b \in T
  <2>1. anc[b] = {b} \cup anc[par[b]]
    BY AncestorStep
  <2>2. HeightIn(anc, b) = HeightIn(anc, par[b]) + 1 /\ HeightIn(anc, par[b]) \in Nat
    BY <1>2, HeightStep
  <2>3. CASE k <= HeightIn(anc, par[b])
    BY <1>2, <2>1, <2>3
  <2>4. CASE k = HeightIn(anc, b)
    BY <2>1, <2>4
  <2> QED  BY <2>2, <2>3, <2>4
<1>3. m \in T
  <2> HIDE DEF T
  <2> QED  BY <1>1, <1>2, TreeInduction
<1> QED  BY <1>3

---------------------------------------------------------------------------
(* The operators of the model.                                             *)

\* Height is that of the tree the ledger has.
LEMMA HeightIs == \A b : Height(b) = HeightIn(ancestors, b)
  BY DEF Height, HeightIn

\* GetCommonParentBlockid is the block where two branches part: all they share
\* is below it.
LEMMA CommonParent ==
    ASSUME Tree(parent), NEW a \in Ids, NEW b \in Ids
    PROVE  LET p == GetCommonParentBlockid(a, b)
           IN  /\ p \in ancestors[a] \cap ancestors[b]
               /\ ancestors[a] \cap ancestors[b] \subseteq ancestors[p]
<1> DEFINE C == ancestors[a] \cap ancestors[b]
           p == GetCommonParentBlockid(a, b)
<1>0. IsAncestors(ancestors, parent)
  BY AncestorsAre
<1>1. C \subseteq Ids /\ C # {}
  BY <1>0, AncestorBounds
<1>2. PICK g \in C : \A q \in C : q <= g
  BY <1>1, GreatestId
<1>3. \A q \in C : q \in ancestors[g]
  BY <1>0, <1>2, AncestorChain
<1>4. g \in Ids /\ \A q \in C : Height(q) <= Height(g)
  BY <1>0, <1>1, <1>3, HeightBelow, HeightIs
<1>5. p \in C /\ \A q \in C : Height(q) <= Height(p)
  BY <1>4 DEF GetCommonParentBlockid
<1>6. p \in Ids /\ Height(p) \in Nat /\ Height(g) \in Nat
  BY <1>0, <1>1, <1>4, <1>5, HeightStep, HeightIs
<1>7. Height(p) = Height(g)
  BY <1>4, <1>5, <1>6
<1>8. p = g
  BY <1>0, <1>3, <1>4, <1>5, <1>7, HeightBelow, HeightIs
<1> HIDE DEF p
<1> QED  BY <1>3, <1>5, <1>8 DEF p

\* In the next state too, the ancestors are those of the tree.
LEMMA AncestorsAreNext ==
    Tree(parent') => IsAncestors(ancestors', parent')
<1>1. Tree(parent) => IsAncestors(ancestors, parent)
  BY AncestorsAre
<1>2. (Tree(parent) => IsAncestors(ancestors, parent))'
  BY <1>1, PTL
<1> QED  BY <1>2

\* A step that leaves the tree alone leaves the ancestors alone.
LEMMA AncestorsKept ==
    ASSUME Tree(parent), parent' = parent
    PROVE  ancestors' = ancestors
<1>1. IsAncestors(ancestors, parent) /\ IsAncestors(ancestors', parent')
  BY AncestorsAre, AncestorsAreNext
<1>2. \A b \in Ids : ancestors'[b] = ancestors[b]
  BY <1>1, AncestorsAgree
<1>3. ancestors \in [Ids -> SUBSET Ids] /\ ancestors' \in [Ids -> SUBSET Ids]
  BY <1>1 DEF IsAncestors, AncestorsUpTo, Ids
<1> QED  BY <1>2, <1>3

---------------------------------------------------------------------------
(* The inductive invariant.                                                *)

Types ==
    /\ Tree(parent)
    /\ next \in Nat
    /\ \A b \in blocks \cup inTrunk : b \in Ids /\ b < next
    /\ tip \in Ids /\ stateTip \in Ids /\ target \in Ids

\* pruneLedger writes only after Walk has returned
WalkedToTarget == pc = "write" => stateTip = target

\* the blocks of a branch end at its record: none is built on it
LeafHeads == \A h \in heads : \A b \in blocks : h \in ancestors[b] => b = h

IInv ==
    /\ Types
    /\ WalkedToTarget
    /\ LeafHeads
    /\ StateBlockKept
    /\ LedgerConsistent
    /\ PrunedToTarget

\* After createChain.
LEMMA InitIInv == Init => IInv
<1> SUFFICES ASSUME Init PROVE IInv
  OBVIOUS
<1>1. 0 \in Ids
  BY PruneAssumption DEF Ids
<1>2. Tree(parent)
  BY <1>1 DEF Init, Tree, Ids
<1>3. ancestors[0] = {0}
  BY <1>1, <1>2, AncestorsAre, AncestorStep
<1>4. Types
  BY <1>1, <1>2 DEF Init, Types
<1>5. WalkedToTarget /\ PrunedToTarget
  BY DEF Init, WalkedToTarget, PrunedToTarget
<1>6. LeafHeads /\ StateBlockKept /\ LedgerConsistent
  BY <1>3 DEF Init, LeafHeads, StateBlockKept, LedgerConsistent
<1> QED  BY <1>4, <1>5, <1>6 DEF IInv

\* When a block is confirmed, no earlier block's ancestors change, and the new
\* block's are those of its parent and itself.
LEMMA ConfirmBlockAncestors ==
    ASSUME NEW par, NEW anc, Tree(par), IsAncestors(anc, par),
           NEW par2, NEW anc2, Tree(par2), IsAncestors(anc2, par2),
           NEW n \in Ids \ {0}, NEW p \in Ids, p < n,
           par2[n] = p, \A b \in Ids : b # n => par2[b] = par[b]
    PROVE  /\ \A b \in Ids : b < n => anc2[b] = anc[b]
           /\ anc2[n] = {n} \cup anc[p]
<1>1. ASSUME NEW b \in Ids, b < n PROVE anc2[b] = anc[b]
  <2>1. \A c \in 1..b : c \in Ids /\ c # n
    BY <1>1, PruneAssumption DEF Ids
  <2>2. \A c \in 1..b : par2[c] = par[c]
    BY <2>1
  <2> QED  BY <2>2, AncestorsAgree
<1>2. anc2[n] = {n} \cup anc2[par2[n]]
  BY AncestorStep
<1> QED  BY <1>1, <1>2

\* The node confirms a block.
LEMMA ConfirmBlockIInv == IInv /\ ConfirmBlock => IInv'
<1> SUFFICES ASSUME IInv, ConfirmBlock PROVE IInv'
  OBVIOUS
<1> USE DEF IInv
<1>0. blocks \subseteq Ids /\ heads \subseteq blocks
  BY DEF Types, LedgerConsistent
<1>1. PICK p \in blocks :
        /\ parent' = [parent EXCEPT ![next] = p]
        /\ heads' = (heads \ {p}) \cup {next}
        /\ LET higher == Height(p) + 1 > Height(tip)
           IN  /\ higher => ancestors[p] \subseteq blocks
               /\ tip' = IF higher THEN next ELSE tip
               /\ inTrunk' = IF higher THEN ancestors[p] \cup {next} ELSE inTrunk
  BY DEF ConfirmBlock
<1>2. next <= MaxBlock /\ blocks' = blocks \cup {next} /\ next' = next + 1
      /\ stateTip' = stateTip /\ pc' = pc /\ target' = target /\ pc = "node"
  BY DEF ConfirmBlock
<1>3. \A b \in Ids : b \in Nat
  BY DEF Ids
<1>4. IsAncestors(ancestors, parent) /\ Tree(parent)
  BY AncestorsAre DEF Types
<1>5. /\ Tree(parent') /\ next \in Ids \ {0}
      /\ \A b \in Ids : b < next => ancestors'[b] = ancestors[b]
      /\ ancestors'[next] = {next} \cup ancestors[p]
  <2>1. next \in Ids \ {0} /\ p \in Ids /\ p < next
    BY <1>2, PruneAssumption DEF Types, Ids
  <2>2. Tree(parent') /\ parent'[next] = p /\ \A b \in Ids : b # next => parent'[b] = parent[b]
    <3>1. parent \in [Ids -> Ids] /\ \A b \in Ids \ {0} : parent[b] < b
      BY <1>4 DEF Tree
    <3> QED  BY <1>1, <2>1, <3>1 DEF Tree
  <2>3. IsAncestors(ancestors', parent')
    BY <2>2, AncestorsAreNext
  <2> QED  BY <1>4, <2>1, <2>2, <2>3, ConfirmBlockAncestors
<1>6. \A b \in blocks : b \in Ids /\ b < next /\ ancestors'[b] = ancestors[b] /\ next \notin ancestors[b]
  <2> TAKE b \in blocks
  <2>1. b \in Ids /\ b < next /\ b \in Nat
    BY <1>3 DEF Types
  <2>2. next \notin ancestors[b]
    BY <1>4, <1>5, <2>1, AncestorBounds DEF Types, Ids
  <2> QED  BY <1>5, <2>1, <2>2
<1>7. stateTip \in blocks /\ tip \in blocks
  BY <1>4, AncestorBounds DEF Types, StateBlockKept, LedgerConsistent
<1>8. Types'
  <2>1. \A b \in ancestors[p] : b \in Ids /\ b < next
    BY <1>3, <1>4, <1>6, AncestorBounds DEF Types
  <2>2. \A b \in blocks' \cup inTrunk' : b \in Ids /\ b < next'
    <3> TAKE b \in blocks' \cup inTrunk'
    <3>1. b \in blocks \cup inTrunk \cup ancestors[p] \cup {next}
      BY <1>1, <1>2
    <3>2. b = next \/ (b \in Ids /\ b < next)
      BY <2>1, <3>1 DEF Types
    <3> QED  BY <1>2, <1>3, <1>5, <3>2
  <2>3. tip' \in Ids
    BY <1>1, <1>5 DEF Types
  <2> QED  BY <1>2, <1>5, <2>2, <2>3 DEF Types
<1>9. WalkedToTarget' /\ PrunedToTarget'
  BY <1>2 DEF WalkedToTarget, PrunedToTarget
<1>10. LeafHeads'
  <2> SUFFICES ASSUME NEW h \in heads', NEW b \in blocks', h \in ancestors'[b] PROVE b = h
    BY DEF LeafHeads
  <2>1. CASE b \in blocks
    <3>1. h \in heads
      BY <1>1, <1>6, <2>1
    <3> QED  BY <1>6, <2>1, <3>1 DEF LeafHeads
  <2>2. CASE b = next /\ h # next
    <3>1. h \in heads /\ h # p /\ h \in ancestors[p]
      BY <1>1, <1>5, <2>2
    <3> QED  BY <3>1 DEF LeafHeads
  <2>3. CASE b = next /\ h = next
    BY <2>3
  <2> QED  BY <1>2, <2>1, <2>2, <2>3
<1>11. StateBlockKept'
  BY <1>2, <1>6, <1>7 DEF StateBlockKept
<1>12. LedgerConsistent'
  <2>1. CASE Height(p) + 1 > Height(tip)
    <3>1. ancestors[p] \subseteq blocks /\ tip' = next /\ inTrunk' = ancestors[p] \cup {next}
      BY <1>1, <2>1
    <3> QED  BY <1>0, <1>1, <1>2, <1>5, <3>1 DEF LedgerConsistent
  <2>2. CASE ~(Height(p) + 1 > Height(tip))
    <3>1. tip' = tip /\ inTrunk' = inTrunk /\ ancestors'[tip] = ancestors[tip]
      BY <1>1, <1>6, <1>7, <2>2
    <3>2. next \notin inTrunk
      BY DEF Types
    <3> QED  BY <1>0, <1>1, <1>2, <3>1, <3>2 DEF LedgerConsistent
  <2> QED  BY <2>1, <2>2
<1> QED  BY <1>8, <1>9, <1>10, <1>11, <1>12

\* A step of the state, of the node's or of pruneLedger's Walk, goes to a block
\* whose path the ledger has.
LEMMA WalkOneKeeps ==
    ASSUME IInv, NEW goal \in Ids, stateTip # goal, WalkOne(goal)
    PROVE  stateTip' \in Ids /\ ancestors[stateTip'] \subseteq blocks
<1> USE DEF IInv
<1>1. IsAncestors(ancestors, parent) /\ Tree(parent) /\ stateTip \in Ids
  BY AncestorsAre DEF Types
<1>2. ancestors[stateTip] \cup ancestors[goal] \subseteq blocks
  BY DEF WalkOne
<1>3. CASE stateTip \notin ancestors[goal]
  <2>1. stateTip' = parent[stateTip]
    BY <1>3 DEF WalkOne
  <2>2. stateTip # 0
    BY <1>1, <1>3, AncestorBounds
  <2> QED  BY <1>1, <1>2, <2>1, <2>2, AncestorStep
<1>4. CASE stateTip \in ancestors[goal]
  <2>1. stateTip' = CHOOSE b \in ancestors[goal] : b # 0 /\ parent[b] = stateTip
    BY <1>4 DEF WalkOne
  <2>2. \E b \in ancestors[goal] : b # 0 /\ parent[b] = stateTip
    BY <1>1, <1>4, AncestorChild
  <2>3. stateTip' \in ancestors[goal]
    BY <2>1, <2>2
  <2> QED  BY <1>1, <1>2, <2>3, AncestorBounds, AncestorTrans
<1> QED  BY <1>3, <1>4

\* The state follows the node's ledger, or is walked to the target.
LEMMA WalksIInv == IInv /\ (StateFollows \/ Walk) => IInv'
<1> SUFFICES ASSUME IInv, StateFollows \/ Walk PROVE IInv'
  OBVIOUS
<1>1. parent' = parent /\ blocks' = blocks /\ tip' = tip /\ inTrunk' = inTrunk /\ heads' = heads
      /\ next' = next /\ pc' = pc /\ target' = target /\ pc \in {"node", "walk"}
  BY DEF StateFollows, Walk, ledgerVars
<1>2. ancestors' = ancestors
  BY <1>1, AncestorsKept DEF IInv, Types
<1>3. stateTip' \in Ids /\ ancestors[stateTip'] \subseteq blocks
  <2>1. tip \in Ids /\ target \in Ids
    BY DEF IInv, Types
  <2> QED  BY <2>1, WalkOneKeeps DEF StateFollows, Walk
<1>4. Types' /\ WalkedToTarget' /\ PrunedToTarget'
  BY <1>1, <1>3 DEF IInv, Types, WalkedToTarget, PrunedToTarget
<1>5. LeafHeads' /\ StateBlockKept' /\ LedgerConsistent'
  BY <1>1, <1>2, <1>3 DEF IInv, LeafHeads, StateBlockKept, LedgerConsistent
<1> QED  BY <1>4, <1>5 DEF IInv

\* The batch: what the invalid branches and the target's path share is kept.
LEMMA WriteIInv == IInv /\ Write => IInv'
<1> SUFFICES ASSUME IInv, Write PROVE IInv'
  OBVIOUS
<1> USE DEF IInv
<1>1. pc = "write" /\ parent' = parent /\ tip' = target /\ pc' = "done" /\ stateTip' = stateTip
      /\ next' = next /\ target' = target /\ stateTip = target
      /\ inTrunk' = (inTrunk \ (ancestors[tip] \ ancestors[target])) \cup ancestors[target]
  BY DEF Write, WalkedToTarget
<1>2. PICK S \in InvalidBranches : pruneInvalidBranch(S)
  BY DEF Write
<1>3. S \subseteq heads /\ \A h \in heads : Height(h) > Height(target) => h \in S
  BY DEF InvalidBranches
<1>4. Tree(parent) /\ IsAncestors(ancestors, parent) /\ ancestors' = ancestors
  BY <1>1, AncestorsAre, AncestorsKept DEF Types
<1>5. target \in Ids /\ tip \in Ids /\ heads \subseteq blocks /\ blocks \subseteq Ids
  BY DEF Types, LedgerConsistent
<1>6. blocks' \subseteq blocks /\ heads' = heads \ S
  BY <1>2 DEF pruneInvalidBranch
<1>7. \A b \in blocks : b \notin blocks' => \E h \in S : b \in ancestors[h] \ ancestors[GetCommonParentBlockid(target, h)]
  BY <1>2 DEF pruneInvalidBranch, RemoveBlocks, Connected
<1>8. ancestors[target] \subseteq blocks
  BY <1>1 DEF StateBlockKept
<1>9. ancestors[target] \subseteq blocks'
  <2> SUFFICES ASSUME NEW b \in ancestors[target], NEW h \in S, b \in ancestors[h]
               PROVE  b \in ancestors[GetCommonParentBlockid(target, h)]
    BY <1>7, <1>8
  <2>1. h \in Ids
    BY <1>3, <1>5
  <2> QED  BY <1>4, <1>5, <2>1, CommonParent
<1>10. heads' \subseteq blocks'
  <2> SUFFICES ASSUME NEW g \in heads', NEW h \in S, g \in ancestors[h] PROVE FALSE
    BY <1>5, <1>6, <1>7
  <2>1. h = g
    BY <1>3, <1>5, <1>6 DEF LeafHeads
  <2> QED  BY <1>6, <2>1
<1>11. Types'
  <2>1. \A b \in ancestors[target] : b \in Ids /\ b < next
    BY <1>5, <1>8 DEF Types
  <2>2. \A b \in blocks' \cup inTrunk' : b \in Ids /\ b < next
    BY <1>1, <1>6, <2>1 DEF Types
  <2> QED  BY <1>1, <1>4, <1>5, <2>2 DEF Types
<1>12. WalkedToTarget'
  BY <1>1 DEF WalkedToTarget
<1>13. LeafHeads'
  BY <1>4, <1>6 DEF LeafHeads
<1>14. StateBlockKept'
  BY <1>1, <1>4, <1>9 DEF StateBlockKept
<1>15. LedgerConsistent'
  <2>1. inTrunk' \cap blocks' = ancestors[target]
    BY <1>1, <1>6, <1>9 DEF LedgerConsistent
  <2> QED  BY <1>1, <1>4, <1>9, <1>10, <2>1 DEF LedgerConsistent
<1>16. PrunedToTarget'
  <2>1. \A h \in heads' : Height(h) <= Height(target)
    <3> TAKE h \in heads'
    <3>1. h \in Ids /\ ~(Height(h) > Height(target))
      BY <1>3, <1>5, <1>6
    <3>2. Height(h) \in Nat /\ Height(target) \in Nat
      BY <1>4, <1>5, <3>1, HeightStep, HeightIs
    <3> QED  BY <3>1, <3>2
  <2>2. \A h : (Height(h))' = Height(h)
    BY <1>4 DEF Height
  <2> QED  BY <1>1, <2>1, <2>2 DEF PrunedToTarget, Height
<1> QED  BY <1>11, <1>12, <1>13, <1>14, <1>15, <1>16

\* The steps that change neither the ledger nor the state.
LEMMA ControlIInv ==
    IInv /\ (StartNode \/ StopNode \/ Open \/ WalkEnds \/ Fail \/ Close \/ UNCHANGED vars) => IInv'
<1> SUFFICES ASSUME IInv, StartNode \/ StopNode \/ Open \/ WalkEnds \/ Fail \/ Close \/ UNCHANGED vars
             PROVE  IInv'
  OBVIOUS
<1>1. parent' = parent /\ blocks' = blocks /\ tip' = tip /\ inTrunk' = inTrunk /\ heads' = heads
      /\ next' = next /\ stateTip' = stateTip
  BY DEF StartNode, StopNode, Open, WalkEnds, Fail, Close, vars, ledgerVars
<1>2. ancestors' = ancestors
  BY <1>1, AncestorsKept DEF IInv, Types
<1>3. target' \in Ids
  <2>1. target \in Ids /\ blocks \subseteq Ids
    BY DEF IInv, Types
  <2> QED  BY <2>1 DEF StartNode, StopNode, Open, WalkEnds, Fail, Close, vars
<1>4. Types'
  BY <1>1, <1>3 DEF IInv, Types
<1>5. WalkedToTarget'
  BY <1>1 DEF IInv, WalkedToTarget, StartNode, StopNode, Open, WalkEnds, Fail, Close, vars
<1>6. LeafHeads' /\ StateBlockKept' /\ LedgerConsistent'
  BY <1>1, <1>2 DEF IInv, LeafHeads, StateBlockKept, LedgerConsistent
<1>7. PrunedToTarget'
  <2>1. CASE pc' = "done"
    <3>1. UNCHANGED vars
      BY <2>1 DEF StartNode, StopNode, Open, WalkEnds, Fail, Close
    <3> QED  BY <1>2, <3>1 DEF vars, IInv, PrunedToTarget, Height
  <2>2. CASE pc' # "done"
    BY <2>2 DEF PrunedToTarget
  <2> QED  BY <2>1, <2>2
<1> QED  BY <1>4, <1>5, <1>6, <1>7 DEF IInv

\* The invariant holds throughout.
LEMMA AlwaysIInv == Spec => []IInv
<1>1. IInv /\ [Next]_vars => IInv'
  BY ConfirmBlockIInv, WalksIInv, WriteIInv, ControlIInv DEF Next
<1> QED  BY InitIInv, <1>1, PTL DEF Spec

---------------------------------------------------------------------------
(* The theorems.                                                           *)

\* Wherever pruneLedger fails or is killed, with any target and after any
\* earlier prune, the ledger has the path to the block the state is at.
THEOREM StateBlockKeptHolds == Spec => []StateBlockKept
<1>1. IInv => StateBlockKept
  BY DEF IInv
<1> QED  BY <1>1, AlwaysIInv, PTL

\* The batch and the node leave a trunk that is complete and marked, and branch
\* records whose blocks exist.
THEOREM LedgerConsistentHolds == Spec => []LedgerConsistent
<1>1. IInv => LedgerConsistent
  BY DEF IInv
<1> QED  BY <1>1, AlwaysIInv, PTL

\* A command that ends well leaves state and ledger at its target, with no
\* recorded branch beyond it.
THEOREM PrunedToTargetHolds == Spec => []PrunedToTarget
<1>1. IInv => PrunedToTarget
  BY DEF IInv
<1> QED  BY <1>1, AlwaysIInv, PTL

\* The blocks a query by height sees are those of the trunk.
LEMMA HeightQuery ==
    ASSUME IInv
    PROVE  \A h : QueryBlockByHeight(h) = {b \in ancestors[tip] : HeightIn(ancestors, b) = h}
  BY HeightIs DEF IInv, LedgerConsistent, QueryBlockByHeight

\* What the offline queries answer follows from the invariant.
LEMMA IInvOffline == IInv => OfflineAnswers
<1> SUFFICES ASSUME IInv, pc = "off" PROVE OfflineAnswers
  BY DEF OfflineAnswers, QueryStatus, createHandle
<1> DEFINE H == HeightIn(ancestors, tip)
           Q(h) == QueryBlockByHeight(h)
<1>1. Tree(parent) /\ IsAncestors(ancestors, parent) /\ tip \in Ids /\ stateTip \in Ids
  BY AncestorsAre DEF IInv, Types
<1>2. H \in Nat /\ Height(tip) = H
  BY <1>1, HeightStep, HeightIs
<1>3. \A h, b : b \in Q(h) <=> b \in ancestors[tip] /\ HeightIn(ancestors, b) = h
  BY HeightQuery
<1>4. ancestors[tip] \subseteq blocks /\ ancestors[stateTip] \subseteq blocks
  BY DEF IInv, LedgerConsistent, StateBlockKept
<1> HIDE DEF H, Q
<1>5. \A h \in Ids : Q(h) # {} <=> h <= H
  <2> TAKE h \in Ids
  <2>1. ASSUME h <= H PROVE Q(h) # {}
    <3>1. h \in Nat
      BY DEF Ids
    <3>2. \E c \in ancestors[tip] : HeightIn(ancestors, c) = h
      BY <1>1, <2>1, <3>1, HeightCovered DEF H
    <3> QED  BY <1>3, <3>2
  <2>2. ASSUME NEW b \in Q(h) PROVE h <= H
    BY <1>1, <1>3, <2>2, HeightBelow DEF H
  <2> QED  BY <2>1, <2>2
<1>6. ASSUME NEW h \in 0..H, NEW b \in Q(h)
      PROVE  h = H => b = tip
  <2>1. b \in ancestors[tip] /\ HeightIn(ancestors, b) = h
    BY <1>3, <1>6
  <2> QED  BY <1>1, <2>1, HeightBelow DEF H
<1>7. ASSUME NEW h \in 0..H, NEW b \in Q(h), h > 0
      PROVE  Q(h - 1) = {parent[b]}
  <2>1. b \in ancestors[tip] /\ HeightIn(ancestors, b) = h
    BY <1>3, <1>7
  <2>2. b \in Ids /\ b # 0
    BY <1>1, <1>7, <2>1, AncestorBounds, HeightStep
  <2>3. parent[b] \in Ids /\ parent[b] \in ancestors[b]
    BY <1>1, <2>2, AncestorStep, AncestorBounds
  <2>4. parent[b] \in ancestors[tip]
    BY <1>1, <2>1, <2>3, AncestorTrans
  <2>5. HeightIn(ancestors, parent[b]) = h - 1
    <3>1. HeightIn(ancestors, b) = HeightIn(ancestors, parent[b]) + 1 /\ HeightIn(ancestors, parent[b]) \in Nat
      BY <1>1, <2>2, <2>3, HeightStep
    <3> QED  BY <2>1, <3>1
  <2>6. \A c \in Q(h - 1) : c = parent[b]
    BY <1>1, <1>3, <2>4, <2>5, HeightUnique
  <2>7. parent[b] \in Q(h - 1)
    BY <1>3, <2>4, <2>5
  <2> QED  BY <2>6, <2>7
<1>8. ASSUME NEW b PROVE Snapshot(b) \subseteq blocks
  BY <1>4 DEF Snapshot
<1>9. stateTip \in ancestors[stateTip]
  BY <1>1, AncestorBounds
<1>10. \A h : Get(h) \subseteq blocks
  BY <1>4, <1>8, <1>9 DEF Get, createHandle
<1>11. ASSUME stateTip = tip, NEW h \in 0..H PROVE Get(h) = Q(h)
  <2>1. \A b \in Q(h) : Snapshot(b) = {b}
    BY <1>3, <1>11 DEF Snapshot
  <2>2. Get(h) = UNION {Snapshot(b) : b \in Q(h)}
    <3>1. h # -1
      BY <1>2, <1>11
    <3> QED  BY <3>1 DEF Get, createHandle, Q
  <2> QED  BY <2>1, <2>2
<1>12. \A b \in blocks : QueryByTxId(b) = {b}
  BY DEF QueryByTxId, createHandle
<1>13. \A h : QueryByBlockHeight(h) = Q(h)
  BY DEF QueryByBlockHeight, createHandle, Q
<1>14. \A b \in blocks : QueryByBlockId(b) = {b}
  BY DEF QueryByBlockId, createHandle
<1>15. \A s \in QueryStatus : s.height = H /\ s.tip = tip
  BY <1>2 DEF QueryStatus, createHandle
<1> SUFFICES ASSUME NEW s \in QueryStatus
             PROVE  /\ \A h \in Ids : QueryByBlockHeight(h) # {} <=> h <= s.height
                    /\ \A h \in 0..s.height : \A b \in QueryByBlockHeight(h) :
                          /\ h = s.height => b = s.tip
                          /\ h > 0 => QueryByBlockHeight(h - 1) = {parent[b]}
                    /\ \A h \in -1..s.height : \A b \in Get(h) :
                          QueryByBlockId(b) = {b} /\ QueryByTxId(b) = {b}
                    /\ stateTip = s.tip => \A h \in 0..s.height : Get(h) = QueryByBlockHeight(h)
  BY Zenon DEF OfflineAnswers
<1>16. s.height = H /\ s.tip = tip
  BY <1>15
<1>17. \A h \in Ids : QueryByBlockHeight(h) # {} <=> h <= s.height
  BY <1>5, <1>13, <1>16
<1>18. \A h \in 0..s.height : \A b \in QueryByBlockHeight(h) :
          /\ h = s.height => b = s.tip
          /\ h > 0 => QueryByBlockHeight(h - 1) = {parent[b]}
  BY <1>6, <1>7, <1>13, <1>16
<1>19. stateTip = s.tip => \A h \in 0..s.height : Get(h) = QueryByBlockHeight(h)
  BY <1>11, <1>13, <1>16
<1>20. \A h \in -1..s.height : \A b \in Get(h) : QueryByBlockId(b) = {b} /\ QueryByTxId(b) = {b}
  BY <1>10, <1>12, <1>14
<1> QED  BY <1>17, <1>18, <1>19, <1>20

\* Offline queries agree with each other, whatever was confirmed, pruned, failed
\* or killed before.
THEOREM OfflineAnswersHolds == Spec => []OfflineAnswers
  BY IInvOffline, AlwaysIInv, PTL

=============================================================================
