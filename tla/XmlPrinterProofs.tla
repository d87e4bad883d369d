-------------------------- MODULE XmlPrinterProofs --------------------------
(***************************************************************************)
(* The folds and the scopes of XmlPrinter.  The printer loops over the     *)
(* attributes of an element and over its undo records; here is what such a *)
(* loop computes, and that taking back what was declared gives the maps    *)
(* that were there before.                                                 *)
(***************************************************************************)
EXTENDS XmlPrinter, FiniteSetTheorems, WellFoundedInduction, TLAPS

-----------------------------------------------------------------------------
(* Induction and folds.                                                    *)

\* A set that holds 0 and with each number the next holds every number: how the
\* loops of marshal.go and xml.go are reasoned about, one turn after the other.
LEMMA Induction ==
  ASSUME NEW K, 0 \in K, \A k \in Nat : k \in K => k + 1 \in K
  PROVE  Nat \subseteq K
<1> SUFFICES ASSUME NEW n \in Nat, n \notin K PROVE FALSE
  OBVIOUS
<1> DEFINE Out == {k \in Nat : k \notin K}
<1>1. Out \subseteq Nat /\ Out # {}
  OBVIOUS
<1> DEFINE Less == {ss \in Nat \X Nat : ss[1] < ss[2]}
<1>2. IsWellFoundedOn(Less, Nat)
  BY NatLessThanWellFounded DEF OpToRel
<1>3. PICK least \in Out : \A k \in Out : << k, least >> \notin Less
  <2> HIDE DEF Less, Out
  <2> QED
    BY <1>1, <1>2, WFMin
<1>4. least # 0 /\ least \in Nat /\ least - 1 \in Nat
  OBVIOUS
<1>5. << least - 1, least >> \in Less
  BY <1>4
<1>6. least - 1 \in K
  BY <1>3, <1>4, <1>5
<1> QED
  BY <1>3, <1>4, <1>6

\* The same for a loop that ends after N turns.
LEMMA InductionUpTo ==
  ASSUME NEW N \in Nat, NEW K, 0 \in K, \A k \in Nat : k < N /\ k \in K => k + 1 \in K
  PROVE  \A k \in 0..N : k \in K
<1> DEFINE Upto == {k \in Nat : k <= N => k \in K}
<1>1. 0 \in Upto
  OBVIOUS
<1>2. ASSUME NEW k \in Nat, k \in Upto
      PROVE  k + 1 \in Upto
  BY <1>2
<1>3. Nat \subseteq Upto
  <2> HIDE DEF Upto
  <2> QED
    BY <1>1, <1>2, Induction
<1> QED
  BY <1>3

\* A set of positions of a sequence has a last and a first one, unless it is
\* empty.
LEMMA Extremes ==
  ASSUME NEW N \in Nat, NEW S \in SUBSET (1..N), S # {}
  PROVE  /\ Max(S) \in S /\ \A y \in S : y <= Max(S)
         /\ Min(S) \in S /\ \A y \in S : Min(S) <= y
<1> DEFINE Low == {k \in Nat : (\E x \in S : x <= k) => \E m \in S : \A y \in S : m <= y}
           High == {k \in Nat : (\E x \in S : N - x <= k) => \E m \in S : \A y \in S : y <= m}
<1>1. Nat \subseteq Low
  <2>1. 0 \in Low
    OBVIOUS
  <2>2. ASSUME NEW k \in Nat, k \in Low
        PROVE  k + 1 \in Low
    <3>1. CASE \E x \in S : x <= k
      BY <2>2, <3>1
    <3>2. CASE \A x \in S : x > k
      BY <3>2
    <3> QED
      BY <3>1, <3>2
  <2> QED
    BY <2>1, <2>2, Induction
<1>2. Nat \subseteq High
  <2>1. 0 \in High
    OBVIOUS
  <2>2. ASSUME NEW k \in Nat, k \in High
        PROVE  k + 1 \in High
    <3>1. CASE \E x \in S : N - x <= k
      BY <2>2, <3>1
    <3>2. CASE \A x \in S : N - x > k
      BY <3>2
    <3> QED
      BY <3>1, <3>2
  <2> QED
    BY <2>1, <2>2, Induction
<1>3. N \in Low /\ N \in High
  BY <1>1, <1>2
<1>4. PICK x \in S : x \in 1..N
  OBVIOUS
<1>5. x <= N /\ N - x <= N
  BY <1>4
<1>6. \E m \in S : \A y \in S : m <= y
  BY <1>3, <1>5
<1>7. \E m \in S : \A y \in S : y <= m
  BY <1>3, <1>5
<1> QED
  BY <1>6, <1>7 DEF Max, Min

\* Positions are finitely many.
LEMMA Positions ==
  ASSUME NEW N \in Nat, NEW S \in SUBSET (1..N)
  PROVE  IsFiniteSet(S) /\ Cardinality(S) \in Nat /\ Cardinality(S) <= N
<1>1. PICK I : I = 1..N
  OBVIOUS
<1>2. IsFiniteSet(I) /\ Cardinality(I) = N
  BY <1>1, FS_Interval
<1>3. S \in SUBSET I
  BY <1>1
<1>4. IsFiniteSet(S) /\ Cardinality(S) <= Cardinality(I)
  BY <1>2, <1>3, FS_Subset
<1> QED
  BY <1>2, <1>4, FS_CardinalityType

\* A sequence with one more element.
LEMMA Appended ==
  ASSUME NEW S, NEW s \in Seq(S), NEW x \in S
  PROVE  /\ Append(s, x) \in Seq(S) /\ Len(Append(s, x)) = Len(s) + 1
         /\ Append(s, x)[Len(s) + 1] = x
         /\ \A i \in 1..Len(s) : Append(s, x)[i] = s[i]
OBVIOUS

\* The first element of a sequence that has one.
LEMMA FirstPart ==
  ASSUME NEW S, NEW s \in Seq(S), s # << >>
  PROVE  Head(s) \in S /\ Head(s) = s[1] /\ 1 \in 1..Len(s)
OBVIOUS

\* The equation of a fold over the positions of a sequence that takes c[S] of
\* the positions S first.
IsFold(g, N, b, F, c) ==
  \A S \in SUBSET (1..N) : g[S] = IF S = {} THEN b ELSE F[<< g[S \ {c[S]}], c[S] >>]

\* A fold over the positions of a sequence computes something, whichever
\* position (c) it takes first: there is a function with its equation.
LEMMA FoldExists ==
  ASSUME NEW N \in Nat, NEW V, NEW b \in V, NEW F \in [V \X (1..N) -> V],
         NEW c, \A S \in SUBSET (1..N) : S # {} => c[S] \in S
  PROVE  \E g \in [SUBSET (1..N) -> V] : IsFold(g, N, b, F, c)
<1> DEFINE Sets == SUBSET (1..N)
           Step(g, S) == IF S = {} THEN b ELSE F[<< g[S \ {c[S]}], c[S] >>]
           Upto(k) == \E g \in [Sets -> V] : \A S \in Sets : Cardinality(S) <= k => g[S] = Step(g, S)
           K == {k \in Nat : Upto(k)}
<1>1. \A S \in Sets : IsFiniteSet(S) /\ Cardinality(S) \in Nat /\ Cardinality(S) <= N
  BY Positions
<1>2. \A S \in Sets : S # {} => /\ S \ {c[S]} \in Sets
                               /\ Cardinality(S \ {c[S]}) = Cardinality(S) - 1
  BY <1>1, FS_RemoveElement
<1>3. \A S \in Sets : Cardinality(S) <= 0 => S = {}
  BY <1>1, FS_EmptySet
<1>4. \A g \in [Sets -> V] : [S \in Sets |-> Step(g, S)] \in [Sets -> V]
  <2> SUFFICES ASSUME NEW g \in [Sets -> V], NEW S \in Sets
               PROVE  Step(g, S) \in V
    OBVIOUS
  <2> QED
    BY <1>2
<1>5. 0 \in K
  <2>1. [S \in Sets |-> b] \in [Sets -> V]
    OBVIOUS
  <2> QED
    BY <1>3, <2>1
<1>6. ASSUME NEW k \in Nat, k \in K
      PROVE  k + 1 \in K
  <2>1. PICK g \in [Sets -> V] : \A S \in Sets : Cardinality(S) <= k => g[S] = Step(g, S)
    BY <1>6
  <2>2. PICK h \in [Sets -> V] : h = [S \in Sets |-> Step(g, S)]
    BY <1>4
  <2>3. ASSUME NEW S \in Sets, Cardinality(S) <= k + 1
        PROVE  h[S] = Step(h, S)
    <3>1. CASE S = {}
      BY <2>2, <3>1
    <3>2. CASE S # {}
      <4>1. S \ {c[S]} \in Sets /\ Cardinality(S \ {c[S]}) <= k
        BY <1>1, <1>2, <2>3, <3>2
      <4>2. g[S \ {c[S]}] = Step(g, S \ {c[S]})
        BY <2>1, <4>1
      <4>3. h[S \ {c[S]}] = Step(g, S \ {c[S]})
        BY <2>2, <4>1
      <4>4. g[S \ {c[S]}] = h[S \ {c[S]}]
        BY <4>2, <4>3
      <4>5. h[S] = Step(g, S)
        BY <2>2
      <4> QED
        BY <3>2, <4>4, <4>5
    <3> QED
      BY <3>1, <3>2
  <2>4. \A S \in Sets : Cardinality(S) <= k + 1 => h[S] = Step(h, S)
    BY <2>3
  <2>5. Upto(k + 1)
    <3> HIDE DEF Step
    <3> QED
      BY <2>4
  <2> HIDE DEF Upto
  <2> QED
    BY <2>5
<1>7. N \in K
  BY <1>5, <1>6, Induction
<1>8. PICK g \in [Sets -> V] : \A S \in Sets : Cardinality(S) <= N => g[S] = Step(g, S)
  BY <1>7
<1>9. \A S \in Sets : g[S] = Step(g, S)
  BY <1>1, <1>8
<1> QED
  BY <1>9 DEF IsFold

\* The last of the first k positions is the k-th.
LEMMA LastOf ==
  ASSUME NEW k \in Nat, k # 0
  PROVE  1..k # {} /\ Max(1..k) = k /\ (1..k) \ {k} = 1..k - 1
<1>1. Max(1..k) \in 1..k /\ \A y \in 1..k : y <= Max(1..k)
  <2>1. PICK S : S = 1..k
    OBVIOUS
  <2>2. S \in SUBSET (1..k) /\ S # {}
    BY <2>1
  <2>3. Max(S) \in S /\ \A y \in S : y <= Max(S)
    BY <2>2, Extremes
  <2> QED
    BY <2>1, <2>3
<1> QED
  BY <1>1

\* The first of the positions after k is the next.
LEMMA FirstOf ==
  ASSUME NEW N \in Nat, NEW k \in Nat, k < N
  PROVE  k + 1..N # {} /\ Min(k + 1..N) = k + 1 /\ (k + 1..N) \ {k + 1} = k + 2..N
<1>1. Min(k + 1..N) \in k + 1..N /\ \A y \in k + 1..N : Min(k + 1..N) <= y
  <2>1. PICK S : S = k + 1..N
    OBVIOUS
  <2>2. S \in SUBSET (1..N) /\ S # {}
    BY <2>1
  <2>3. Min(S) \in S /\ \A y \in S : Min(S) <= y
    BY <2>2, Extremes
  <2> QED
    BY <2>1, <2>3
<1> QED
  BY <1>1

\* The choices of FoldLeft and FoldRight: the last and the first position.
LEMMA LeftFoldExists ==
  ASSUME NEW N \in Nat, NEW V, NEW b \in V, NEW F \in [V \X (1..N) -> V]
  PROVE  \E g \in [SUBSET (1..N) -> V] : IsFold(g, N, b, F, [S \in SUBSET (1..N) |-> Max(S)])
<1>1. PICK c : c = [S \in SUBSET (1..N) |-> Max(S)]
  OBVIOUS
<1>2. \A S \in SUBSET (1..N) : S # {} => c[S] \in S
  BY <1>1, Extremes
<1>3. \E g \in [SUBSET (1..N) -> V] : IsFold(g, N, b, F, c)
  BY <1>2, FoldExists
<1> QED
  BY <1>1, <1>3

\* The same for the first position.
LEMMA RightFoldExists ==
  ASSUME NEW N \in Nat, NEW V, NEW b \in V, NEW F \in [V \X (1..N) -> V]
  PROVE  \E g \in [SUBSET (1..N) -> V] : IsFold(g, N, b, F, [S \in SUBSET (1..N) |-> Min(S)])
<1>1. PICK c : c = [S \in SUBSET (1..N) |-> Min(S)]
  OBVIOUS
<1>2. \A S \in SUBSET (1..N) : S # {} => c[S] \in S
  BY <1>1, Extremes
<1>3. \E g \in [SUBSET (1..N) -> V] : IsFold(g, N, b, F, c)
  BY <1>2, FoldExists
<1> QED
  BY <1>1, <1>3

\* What a loop that takes the positions in their order computes lies in the
\* last of a chain of sets, when each turn leads from one to the next.
LEMMA LeftChain ==
  ASSUME NEW N \in Nat, NEW it, NEW G, it[{}] \in G[0],
         \A k \in 1..N : it[1..k - 1] \in G[k - 1] => it[1..k] \in G[k]
  PROVE  it[1..N] \in G[N]
<1> DEFINE K == {k \in Nat : k <= N => it[1..k] \in G[k]}
<1>1. 0 \in K
  <2>1. 1..0 = {}
    OBVIOUS
  <2> QED
    BY <2>1
<1>2. ASSUME NEW k \in Nat, k < N /\ k \in K
      PROVE  k + 1 \in K
  <2>1. k + 1 \in 1..N /\ (k + 1) - 1 = k /\ it[1..k] \in G[k]
    BY <1>2
  <2>2. it[1..k + 1] \in G[k + 1]
    BY <2>1
  <2> QED
    BY <2>2
<1>3. \A k \in 0..N : k \in K
  <2> HIDE DEF K
  <2> QED
    BY <1>1, <1>2, InductionUpTo
<1> QED
  BY <1>3

\* The same when it takes the last position first.
LEMMA RightChain ==
  ASSUME NEW N \in Nat, NEW it, NEW G, it[{}] \in G[N],
         \A k \in 1..N : it[k + 1..N] \in G[k] => it[k..N] \in G[k - 1]
  PROVE  it[1..N] \in G[0]
<1> DEFINE K == {k \in Nat : k <= N => it[(N - k) + 1..N] \in G[N - k]}
<1>1. 0 \in K
  <2>1. (N - 0) + 1..N = {} /\ N - 0 = N
    OBVIOUS
  <2> QED
    BY <2>1
<1>2. ASSUME NEW k \in Nat, k < N /\ k \in K
      PROVE  k + 1 \in K
  <2>1. PICK j \in 1..N : j = N - k
    BY <1>2
  <2>2. it[j + 1..N] \in G[j]
    BY <1>2, <2>1
  <2>3. it[j..N] \in G[j - 1]
    BY <2>2
  <2>4. j = (N - (k + 1)) + 1 /\ j - 1 = N - (k + 1)
    BY <2>1
  <2> QED
    BY <2>3, <2>4
<1>3. \A k \in 0..N : k \in K
  <2> HIDE DEF K
  <2> QED
    BY <1>1, <1>2, InductionUpTo
<1>4. N \in K /\ (N - N) + 1 = 1 /\ N - N = 0
  BY <1>3
<1> QED
  BY <1>4

-----------------------------------------------------------------------------
(* What the fields of the printer hold.                                    *)

\* The strings, by a name of their own: the proofs need nothing of them but
\* these.
Texts == STRING

\* The names the code itself writes are strings.
LEMMA Literals == "" \in Texts /\ "xml" \in Texts /\ "xmlns" \in Texts /\ xmlURL \in Texts
BY StringsAssumption DEF Texts, Reserved

PartialMaps == UNION {[S -> Texts] : S \in SUBSET Texts}
Names       == [space : Texts, local : Seq(Texts)]
AttrSet     == [name : Names, value : Texts]
Records     == [prefix : Texts, url : Texts, mark : BOOLEAN]

Printers ==
  [defaultNS : Texts, attrNS : PartialMaps, attrPrefix : PartialMaps, prefixes : Seq(Records),
   tags : Seq(Names), seq : Nat, buffered : BOOLEAN]

\* DeclaredBy loops over the attributes in their order, one defineNS each.
LEMMA DeclaredByReaches ==
  ASSUME NEW flag, NEW V, NEW q \in V, NEW attr \in Seq(AttrSet),
         \A r \in V, i \in DOMAIN attr : defineNS(r, attr[i], flag) \in V,
         NEW G, q \in G[0],
         \A k \in 1..Len(attr) : \A r \in G[k - 1] : defineNS(r, attr[k], flag) \in G[k]
  PROVE  DeclaredBy(q, attr, flag) \in G[Len(attr)]
<1> DEFINE Iter(g) ==
      g = [S \in SUBSET DOMAIN attr |->
             IF S = {} THEN q ELSE defineNS(g[S \ {Max(S)}], attr[Max(S)], flag)]
<1>1. PICK N \in Nat : N = Len(attr) /\ DOMAIN attr = 1..N
  OBVIOUS
<1>2. \E g : Iter(g)
  <2>1. PICK F \in [V \X (1..N) -> V] :
               \A r \in V, i \in 1..N : F[<< r, i >>] = defineNS(r, attr[i], flag)
    <3> DEFINE F == [x \in V \X (1..N) |-> defineNS(x[1], attr[x[2]], flag)]
    <3>1. F \in [V \X (1..N) -> V]
      BY <1>1
    <3>2. \A r \in V, i \in 1..N : F[<< r, i >>] = defineNS(r, attr[i], flag)
      OBVIOUS
    <3> HIDE DEF F
    <3> QED
      BY <3>1, <3>2
  <2>2. PICK g \in [SUBSET (1..N) -> V] :
               IsFold(g, N, q, F, [S \in SUBSET (1..N) |-> Max(S)])
    BY LeftFoldExists
  <2>3. \A S \in SUBSET (1..N) :
          S # {} => F[<< g[S \ {Max(S)}], Max(S) >>] = defineNS(g[S \ {Max(S)}], attr[Max(S)], flag)
    BY <2>1, Extremes
  <2>4. Iter(g)
    BY <1>1, <2>2, <2>3 DEF IsFold
  <2> QED
    BY <2>4
<1>3. PICK it : it = CHOOSE g : Iter(g)
  OBVIOUS
<1>4. Iter(it)
  BY <1>2, <1>3
<1>5. DeclaredBy(q, attr, flag) = it[DOMAIN attr]
  BY <1>3 DEF DeclaredBy, FoldLeft, MapThenFoldSet
<1>6. it[{}] = q
  BY <1>4
<1>7. ASSUME NEW k \in 1..N
      PROVE  it[1..k] = defineNS(it[1..k - 1], attr[k], flag)
  <2>1. 1..k # {} /\ Max(1..k) = k /\ (1..k) \ {k} = 1..k - 1
    BY LastOf
  <2>2. 1..k \in SUBSET DOMAIN attr
    BY <1>1
  <2>3. it[1..k] = defineNS(it[(1..k) \ {Max(1..k)}], attr[Max(1..k)], flag)
    BY <1>4, <2>1, <2>2
  <2> QED
    BY <2>1, <2>3
<1> HIDE DEF Iter
<1>8. \A k \in 1..N : it[1..k - 1] \in G[k - 1] => it[1..k] \in G[k]
  BY <1>1, <1>7
<1>9. it[1..N] \in G[N]
  BY <1>6, <1>8, LeftChain
<1> QED
  BY <1>1, <1>5, <1>9

\* What each defineNS keeps, DeclaredBy keeps.
LEMMA DeclaredByKeeps ==
  ASSUME NEW flag, NEW G, NEW q \in G, NEW attr \in Seq(AttrSet),
         \A r \in G, i \in DOMAIN attr : defineNS(r, attr[i], flag) \in G
  PROVE  DeclaredBy(q, attr, flag) \in G
<1>1. PICK N \in Nat : N = Len(attr) /\ DOMAIN attr = 1..N
  OBVIOUS
<1>2. PICK H : H = [k \in 0..N |-> G]
  OBVIOUS
<1>3. q \in H[0] /\ H[N] = G
  BY <1>2
<1>4. \A k \in 1..Len(attr) : \A r \in H[k - 1] : defineNS(r, attr[k], flag) \in H[k]
  <2>1. \A k \in 1..N : H[k - 1] = G /\ H[k] = G
    BY <1>2
  <2> QED
    BY <1>1, <2>1
<1>5. DeclaredBy(q, attr, flag) \in H[Len(attr)]
  BY <1>3, <1>4, DeclaredByReaches
<1> QED
  BY <1>1, <1>3, <1>5

\* NeededBy does, one neededBy each.
LEMMA NeededByReaches ==
  ASSUME NEW V, NEW q \in V, NEW attr \in Seq(AttrSet),
         \A r \in V, i \in DOMAIN attr : neededBy(r, attr[i]) \in V,
         NEW G, q \in G[0],
         \A k \in 1..Len(attr) : \A r \in G[k - 1] : neededBy(r, attr[k]) \in G[k]
  PROVE  NeededBy(q, attr) \in G[Len(attr)]
<1> DEFINE Iter(g) ==
      g = [S \in SUBSET DOMAIN attr |->
             IF S = {} THEN q ELSE neededBy(g[S \ {Max(S)}], attr[Max(S)])]
<1>1. PICK N \in Nat : N = Len(attr) /\ DOMAIN attr = 1..N
  OBVIOUS
<1>2. \E g : Iter(g)
  <2>1. PICK F \in [V \X (1..N) -> V] :
               \A r \in V, i \in 1..N : F[<< r, i >>] = neededBy(r, attr[i])
    <3> DEFINE F == [x \in V \X (1..N) |-> neededBy(x[1], attr[x[2]])]
    <3>1. F \in [V \X (1..N) -> V]
      BY <1>1
    <3>2. \A r \in V, i \in 1..N : F[<< r, i >>] = neededBy(r, attr[i])
      OBVIOUS
    <3> HIDE DEF F
    <3> QED
      BY <3>1, <3>2
  <2>2. PICK g \in [SUBSET (1..N) -> V] :
               IsFold(g, N, q, F, [S \in SUBSET (1..N) |-> Max(S)])
    BY LeftFoldExists
  <2>3. \A S \in SUBSET (1..N) :
          S # {} => F[<< g[S \ {Max(S)}], Max(S) >>] = neededBy(g[S \ {Max(S)}], attr[Max(S)])
    BY <2>1, Extremes
  <2>4. Iter(g)
    BY <1>1, <2>2, <2>3 DEF IsFold
  <2> QED
    BY <2>4
<1>3. PICK it : it = CHOOSE g : Iter(g)
  OBVIOUS
<1>4. Iter(it)
  BY <1>2, <1>3
<1>5. NeededBy(q, attr) = it[DOMAIN attr]
  BY <1>3 DEF NeededBy, FoldLeft, MapThenFoldSet
<1>6. it[{}] = q
  BY <1>4
<1>7. ASSUME NEW k \in 1..N
      PROVE  it[1..k] = neededBy(it[1..k - 1], attr[k])
  <2>1. 1..k # {} /\ Max(1..k) = k /\ (1..k) \ {k} = 1..k - 1
    BY LastOf
  <2>2. 1..k \in SUBSET DOMAIN attr
    BY <1>1
  <2>3. it[1..k] = neededBy(it[(1..k) \ {Max(1..k)}], attr[Max(1..k)])
    BY <1>4, <2>1, <2>2
  <2> QED
    BY <2>1, <2>3
<1> HIDE DEF Iter
<1>8. \A k \in 1..N : it[1..k - 1] \in G[k - 1] => it[1..k] \in G[k]
  BY <1>1, <1>7
<1>9. it[1..N] \in G[N]
  BY <1>6, <1>8, LeftChain
<1> QED
  BY <1>1, <1>5, <1>9

\* Undone loops over the undo records, the last first, one setAttrPrefix each.
LEMMA UndoneKeeps ==
  ASSUME NEW V, NEW q \in V, NEW records \in Seq(Records),
         \A r \in V, i \in DOMAIN records :
           setAttrPrefix(r, records[i].prefix, records[i].url) \in V,
         NEW G, q \in G[Len(records)],
         \A k \in 1..Len(records) : \A r \in G[k] :
           setAttrPrefix(r, records[k].prefix, records[k].url) \in G[k - 1]
  PROVE  Undone(q, records) \in G[0]
<1> DEFINE Iter(g) ==
      g = [S \in SUBSET DOMAIN records |->
             IF S = {} THEN q
             ELSE setAttrPrefix(g[S \ {Min(S)}], records[Min(S)].prefix, records[Min(S)].url)]
<1>1. PICK N \in Nat : N = Len(records) /\ DOMAIN records = 1..N
  OBVIOUS
<1>2. \E g : Iter(g)
  <2>1. PICK F \in [V \X (1..N) -> V] :
               \A r \in V, i \in 1..N :
                 F[<< r, i >>] = setAttrPrefix(r, records[i].prefix, records[i].url)
    <3> DEFINE F == [x \in V \X (1..N) |->
                       setAttrPrefix(x[1], records[x[2]].prefix, records[x[2]].url)]
    <3>1. F \in [V \X (1..N) -> V]
      BY <1>1
    <3>2. \A r \in V, i \in 1..N :
            F[<< r, i >>] = setAttrPrefix(r, records[i].prefix, records[i].url)
      OBVIOUS
    <3> HIDE DEF F
    <3> QED
      BY <3>1, <3>2
  <2>2. PICK g \in [SUBSET (1..N) -> V] :
               IsFold(g, N, q, F, [S \in SUBSET (1..N) |-> Min(S)])
    BY RightFoldExists
  <2>3. \A S \in SUBSET (1..N) :
          S # {} => F[<< g[S \ {Min(S)}], Min(S) >>] =
                      setAttrPrefix(g[S \ {Min(S)}], records[Min(S)].prefix, records[Min(S)].url)
    BY <2>1, Extremes
  <2>4. Iter(g)
    BY <1>1, <2>2, <2>3 DEF IsFold
  <2> QED
    BY <2>4
<1>3. PICK it : it = CHOOSE g : Iter(g)
  OBVIOUS
<1>4. Iter(it)
  BY <1>2, <1>3
<1>5. Undone(q, records) = it[DOMAIN records]
  BY <1>3 DEF Undone, FoldRight, MapThenFoldSet
<1>6. it[{}] = q
  BY <1>4
<1>7. ASSUME NEW k \in 1..N
      PROVE  it[k..N] = setAttrPrefix(it[k + 1..N], records[k].prefix, records[k].url)
  <2>1. k..N # {} /\ Min(k..N) = k /\ (k..N) \ {k} = k + 1..N
    <3>1. PICK j \in Nat : j = k - 1
      OBVIOUS
    <3>2. j < N /\ j + 1 = k /\ j + 2 = k + 1
      BY <3>1
    <3>3. j + 1..N # {} /\ Min(j + 1..N) = j + 1 /\ (j + 1..N) \ {j + 1} = j + 2..N
      BY <3>2, FirstOf
    <3> QED
      BY <3>2, <3>3
  <2>2. k..N \in SUBSET DOMAIN records
    BY <1>1
  <2>3. it[k..N] = setAttrPrefix(it[(k..N) \ {Min(k..N)}], records[Min(k..N)].prefix,
                                 records[Min(k..N)].url)
    BY <1>4, <2>1, <2>2
  <2> QED
    BY <2>1, <2>3
<1> HIDE DEF Iter
<1>8. \A k \in 1..N : it[k + 1..N] \in G[k] => it[k..N] \in G[k - 1]
  BY <1>1, <1>7
<1>9. it[1..N] \in G[0]
  BY <1>1, <1>6, <1>8, RightChain
<1> QED
  BY <1>1, <1>5, <1>9

-----------------------------------------------------------------------------
(* Maps and scopes.                                                        *)

\* The maps of the code, with an entry,
LEMMA WithEntry ==
  ASSUME NEW f, NEW x, NEW y
  PROVE  /\ (\A z : z \in DOMAIN With(f, x, y) <=> z \in DOMAIN f \/ z = x)
         /\ With(f, x, y)[x] = y /\ \A z \in DOMAIN f : z # x => With(f, x, y)[z] = f[z]
BY DEF With

\* which are again maps of the code,
LEMMA WithType ==
  ASSUME NEW f \in PartialMaps, NEW x \in Texts, NEW y \in Texts
  PROVE  With(f, x, y) \in PartialMaps
<1>1. PICK S \in SUBSET Texts : f \in [S -> Texts]
  BY DEF PartialMaps
<1>2. With(f, x, y) \in [S \cup {x} -> Texts] /\ S \cup {x} \in SUBSET Texts
  BY <1>1 DEF With
<1> QED
  BY <1>2 DEF PartialMaps

\* without it,
LEMMA WithoutEntry ==
  ASSUME NEW f, NEW x
  PROVE  /\ (\A z : z \in DOMAIN Without(f, x) <=> z \in DOMAIN f /\ z # x)
         /\ \A z \in DOMAIN f : z # x => Without(f, x)[z] = f[z]
BY DEF Without, Restrict

\* which are maps of the code too,
LEMMA WithoutType ==
  ASSUME NEW f \in PartialMaps, NEW x
  PROVE  Without(f, x) \in PartialMaps
<1>1. PICK S \in SUBSET Texts : f \in [S -> Texts]
  BY DEF PartialMaps
<1>2. Without(f, x) \in [S \ {x} -> Texts] /\ S \ {x} \in SUBSET Texts
  BY <1>1 DEF Without, Restrict
<1> QED
  BY <1>2 DEF PartialMaps

\* and what an entry is.
LEMMA Values ==
  ASSUME NEW f \in PartialMaps
  PROVE  DOMAIN f \subseteq Texts /\ \A z \in DOMAIN f : f[z] \in Texts
<1>1. PICK S \in SUBSET Texts : f \in [S -> Texts]
  BY DEF PartialMaps
<1> QED
  BY <1>1

\* Two maps with the same entries are the same.
LEMMA SameMap ==
  ASSUME NEW f \in PartialMaps, NEW g \in PartialMaps, DOMAIN f = DOMAIN g,
         \A z \in DOMAIN f : f[z] = g[z]
  PROVE  f = g
<1>1. PICK S \in SUBSET Texts : f \in [S -> Texts]
  BY DEF PartialMaps
<1>2. PICK T \in SUBSET Texts : g \in [T -> Texts]
  BY DEF PartialMaps
<1>3. S = T /\ f \in [S -> Texts] /\ g \in [S -> Texts] /\ \A z \in S : f[z] = g[z]
  BY <1>1, <1>2
<1> QED
  BY <1>3

\* What the names of an element mean: the part of the printer that undoing
\* sets back.
ScopeOf(q) == [defaultNS |-> q.defaultNS, attrNS |-> q.attrNS, attrPrefix |-> q.attrPrefix]

Scopes == [defaultNS : Texts, attrNS : PartialMaps, attrPrefix : PartialMaps]

NoScope == [defaultNS |-> "", attrNS |-> << >>, attrPrefix |-> << >>]

Bijective(s) ==
  /\ \A prefix \in DOMAIN s.attrNS :
       s.attrNS[prefix] \in DOMAIN s.attrPrefix /\ s.attrPrefix[s.attrNS[prefix]] = prefix
  /\ \A url \in DOMAIN s.attrPrefix :
       s.attrPrefix[url] \in DOMAIN s.attrNS /\ s.attrNS[s.attrPrefix[url]] = url
  /\ \A prefix \in DOMAIN s.attrNS : prefix \notin Reserved
  /\ "" \notin DOMAIN s.attrPrefix

\* What pushPrefix may be asked for: a default name space, or a prefix for a
\* name space that has none.
Pushable(s, prefix, url) ==
  \/ prefix = ""
  \/ prefix \notin Reserved /\ url # "" /\ url \notin DOMAIN s.attrPrefix

\* Two scopes with the same fields are the same.
LEMMA SameScope ==
  ASSUME NEW s \in Scopes, NEW t \in Scopes, s.defaultNS = t.defaultNS, s.attrNS = t.attrNS,
         s.attrPrefix = t.attrPrefix
  PROVE  s = t
BY DEF Scopes

\* setAttrPrefix gives a scope for a scope,
LEMMA SetType ==
  ASSUME NEW s \in Scopes, NEW prefix \in Texts, NEW url \in Texts
  PROVE  setAttrPrefix(s, prefix, url) \in Scopes /\ nsForPrefix(s, prefix) \in Texts
<1>1. s.defaultNS \in Texts /\ s.attrNS \in PartialMaps /\ s.attrPrefix \in PartialMaps
  BY DEF Scopes
<1>2. nsForPrefix(s, prefix) \in Texts
  <2>1. \A z \in DOMAIN s.attrNS : s.attrNS[z] \in Texts
    BY <1>1, Values
  <2> QED
    BY <1>1, <2>1, Literals DEF nsForPrefix
<1>3. PICK unmapped : unmapped = Without(s.attrPrefix, nsForPrefix(s, prefix))
  OBVIOUS
<1>4. unmapped \in PartialMaps /\ Without(s.attrNS, prefix) \in PartialMaps
  BY <1>1, <1>2, <1>3, WithoutType
<1>5. With(unmapped, url, prefix) \in PartialMaps /\ With(s.attrNS, prefix, url) \in PartialMaps
  BY <1>1, <1>4, WithType
<1>6. setAttrPrefix(s, prefix, url) =
        IF prefix = "" THEN [s EXCEPT !.defaultNS = url]
        ELSE IF url = ""
          THEN [s EXCEPT !.attrPrefix = unmapped, !.attrNS = Without(s.attrNS, prefix)]
          ELSE [s EXCEPT !.attrPrefix = With(unmapped, url, prefix),
                         !.attrNS = With(s.attrNS, prefix, url)]
  BY <1>3 DEF setAttrPrefix
<1>7. setAttrPrefix(s, prefix, url) \in Scopes
  BY <1>1, <1>4, <1>5, <1>6 DEF Scopes
<1> QED
  BY <1>2, <1>7

\* with these fields when it sets the default name space,
LEMMA SetDefault ==
  ASSUME NEW s \in Scopes, NEW url
  PROVE  /\ setAttrPrefix(s, "", url).defaultNS = url
         /\ setAttrPrefix(s, "", url).attrNS = s.attrNS
         /\ setAttrPrefix(s, "", url).attrPrefix = s.attrPrefix
BY DEF setAttrPrefix, Scopes

\* these when it sets a prefix,
LEMMA SetPrefix ==
  ASSUME NEW s \in Scopes, NEW prefix \in Texts, NEW url \in Texts, prefix # "", url # ""
  PROVE  /\ setAttrPrefix(s, prefix, url).defaultNS = s.defaultNS
         /\ setAttrPrefix(s, prefix, url).attrNS = With(s.attrNS, prefix, url)
         /\ setAttrPrefix(s, prefix, url).attrPrefix =
              With(Without(s.attrPrefix, nsForPrefix(s, prefix)), url, prefix)
BY DEF setAttrPrefix, Scopes

\* and these when it takes one back.
LEMMA UnsetPrefix ==
  ASSUME NEW s \in Scopes, NEW prefix \in Texts, prefix # ""
  PROVE  /\ setAttrPrefix(s, prefix, "").defaultNS = s.defaultNS
         /\ setAttrPrefix(s, prefix, "").attrNS = Without(s.attrNS, prefix)
         /\ setAttrPrefix(s, prefix, "").attrPrefix =
              Without(s.attrPrefix, nsForPrefix(s, prefix))
BY DEF setAttrPrefix, Scopes

\* A declaration keeps the two maps inverse (defineNS's test for a second
\* prefix is what makes it so).
LEMMA SetBijective ==
  ASSUME NEW s \in Scopes, NEW prefix \in Texts, NEW url \in Texts, Bijective(s),
         Pushable(s, prefix, url)
  PROVE  Bijective(setAttrPrefix(s, prefix, url))
<1> DEFINE t == setAttrPrefix(s, prefix, url)
           old == nsForPrefix(s, prefix)
           unmapped == Without(s.attrPrefix, old)
<1>2. s.attrNS \in PartialMaps /\ s.attrPrefix \in PartialMaps /\ old \in Texts
  BY SetType DEF Scopes
<1>3. unmapped \in PartialMaps /\ (\A z : z \in DOMAIN unmapped <=> z \in DOMAIN s.attrPrefix /\ z # old)
      /\ \A z \in DOMAIN s.attrPrefix : z # old => unmapped[z] = s.attrPrefix[z]
  BY <1>2, WithoutEntry, WithoutType
<1>4. old = IF prefix = "" THEN s.defaultNS
            ELSE IF prefix \in DOMAIN s.attrNS THEN s.attrNS[prefix] ELSE ""
  BY DEF nsForPrefix
<1> HIDE DEF t, old, unmapped
<1>5. CASE prefix = ""
  <2>1. t.attrNS = s.attrNS /\ t.attrPrefix = s.attrPrefix
    BY <1>5, SetDefault DEF t
  <2> QED
    BY <2>1 DEF Bijective, t
<1>6. CASE prefix # ""
  <2>1. url # "" /\ url \notin DOMAIN s.attrPrefix /\ prefix \notin Reserved
    BY <1>6 DEF Pushable
  <2>2. t.attrNS = With(s.attrNS, prefix, url) /\ t.attrPrefix = With(unmapped, url, prefix)
    BY <1>6, <2>1, SetPrefix DEF t, unmapped, old
  <2>3. /\ (\A z : z \in DOMAIN t.attrNS <=> z \in DOMAIN s.attrNS \/ z = prefix) /\ t.attrNS[prefix] = url
        /\ \A z \in DOMAIN s.attrNS : z # prefix => t.attrNS[z] = s.attrNS[z]
    <3>1. PICK f \in PartialMaps : f = s.attrNS
      BY <1>2
    <3>2. t.attrNS = With(f, prefix, url)
      BY <2>2, <3>1
    <3>3. /\ (\A z : z \in DOMAIN With(f, prefix, url) <=> z \in DOMAIN f \/ z = prefix) /\ With(f, prefix, url)[prefix] = url
          /\ \A z \in DOMAIN f : z # prefix => With(f, prefix, url)[z] = f[z]
      BY WithEntry
    <3> QED
      BY <3>1, <3>2, <3>3
  <2>4. /\ (\A z : z \in DOMAIN t.attrPrefix <=> z \in DOMAIN unmapped \/ z = url) /\ t.attrPrefix[url] = prefix
        /\ \A z \in DOMAIN unmapped : z # url => t.attrPrefix[z] = unmapped[z]
    <3>1. PICK f \in PartialMaps : f = unmapped
      BY <1>3
    <3>2. t.attrPrefix = With(f, url, prefix)
      BY <2>2, <3>1
    <3>3. /\ (\A z : z \in DOMAIN With(f, url, prefix) <=> z \in DOMAIN f \/ z = url) /\ With(f, url, prefix)[url] = prefix
          /\ \A z \in DOMAIN f : z # url => With(f, url, prefix)[z] = f[z]
      BY WithEntry
    <3> QED
      BY <3>1, <3>2, <3>3
  <2>5. /\ \A z \in DOMAIN s.attrNS :
             s.attrNS[z] \in DOMAIN s.attrPrefix /\ s.attrPrefix[s.attrNS[z]] = z
        /\ \A z \in DOMAIN s.attrPrefix :
             s.attrPrefix[z] \in DOMAIN s.attrNS /\ s.attrNS[s.attrPrefix[z]] = z
        /\ \A z \in DOMAIN s.attrNS : z \notin Reserved
        /\ "" \notin DOMAIN s.attrPrefix
    BY DEF Bijective
  <2>6. ASSUME NEW z \in DOMAIN t.attrNS
        PROVE  /\ t.attrNS[z] \in DOMAIN t.attrPrefix /\ t.attrPrefix[t.attrNS[z]] = z
               /\ z \notin Reserved
    <3>1. CASE z = prefix
      BY <2>1, <2>3, <2>4, <3>1
    <3>2. CASE z # prefix
      <4>1. z \in DOMAIN s.attrNS /\ t.attrNS[z] = s.attrNS[z]
        BY <2>3, <3>2
      <4>2. s.attrNS[z] # old
        <5>1. CASE prefix \in DOMAIN s.attrNS
          <6>1. old = s.attrNS[prefix]
            BY <1>4, <1>6, <5>1
          <6>2. s.attrPrefix[s.attrNS[prefix]] = prefix /\ s.attrPrefix[s.attrNS[z]] = z
            BY <2>5, <4>1, <5>1
          <6> QED
            BY <3>2, <6>1, <6>2
        <5>2. CASE prefix \notin DOMAIN s.attrNS
          BY <1>4, <1>6, <2>5, <4>1, <5>2
        <5> QED
          BY <5>1, <5>2
      <4>3. s.attrNS[z] \in DOMAIN unmapped /\ s.attrNS[z] # url
        BY <1>3, <2>1, <2>5, <4>1, <4>2
      <4> QED
        BY <1>3, <2>4, <2>5, <4>1, <4>2, <4>3
    <3> QED
      BY <3>1, <3>2
  <2>7. ASSUME NEW z \in DOMAIN t.attrPrefix
        PROVE  /\ t.attrPrefix[z] \in DOMAIN t.attrNS /\ t.attrNS[t.attrPrefix[z]] = z
               /\ z # ""
    <3>1. CASE z = url
      BY <2>1, <2>3, <2>4, <3>1
    <3>2. CASE z # url
      <4>1. z \in DOMAIN s.attrPrefix /\ z # old /\ t.attrPrefix[z] = s.attrPrefix[z]
        BY <1>3, <2>4, <3>2
      <4>2. s.attrPrefix[z] # prefix
        BY <1>4, <1>6, <2>5, <4>1
      <4> QED
        BY <2>3, <2>5, <4>1, <4>2
    <3> QED
      BY <3>1, <3>2
  <2> QED
    BY <2>6, <2>7 DEF Bijective, t
<1> QED
  BY <1>5, <1>6

\* The undo record of a declaration takes it back: both maps and the default
\* name space are what they were.
LEMMA SetUndone ==
  ASSUME NEW s \in Scopes, NEW prefix \in Texts, NEW url \in Texts, Bijective(s),
         Pushable(s, prefix, url)
  PROVE  setAttrPrefix(setAttrPrefix(s, prefix, url), prefix, nsForPrefix(s, prefix)) = s
<1>1. PICK t \in Scopes, old \in Texts :
           t = setAttrPrefix(s, prefix, url) /\ old = nsForPrefix(s, prefix)
  BY SetType
<1>2. PICK v \in Scopes : v = setAttrPrefix(t, prefix, old)
  BY SetType
<1>3. SUFFICES v = s
  BY <1>1, <1>2
<1>4. CASE prefix = ""
  <2>1. t.attrNS = s.attrNS /\ t.attrPrefix = s.attrPrefix
    BY <1>1, <1>4, SetDefault
  <2>2. v.defaultNS = old /\ v.attrNS = t.attrNS /\ v.attrPrefix = t.attrPrefix
    BY <1>2, <1>4, SetDefault
  <2>3. old = s.defaultNS
    BY <1>1, <1>4 DEF nsForPrefix
  <2> QED
    BY <2>1, <2>2, <2>3, SameScope
<1>5. CASE prefix # ""
  <2>1. url # "" /\ url \notin DOMAIN s.attrPrefix
    BY <1>5 DEF Pushable
  <2>2. PICK ns \in PartialMaps, ps \in PartialMaps : ns = s.attrNS /\ ps = s.attrPrefix
    BY DEF Scopes
  <2>3. /\ \A z \in DOMAIN ns : ns[z] \in DOMAIN ps /\ ps[ns[z]] = z
        /\ \A z \in DOMAIN ps : ps[z] \in DOMAIN ns /\ ns[ps[z]] = z
        /\ "" \notin DOMAIN ps /\ url \notin DOMAIN ps
    BY <2>1, <2>2 DEF Bijective
  <2>4. PICK un \in PartialMaps : un = Without(ps, old)
    BY WithoutType
  <2>5. PICK tn \in PartialMaps : tn = With(ns, prefix, url)
    BY WithType
  <2>6. PICK tp \in PartialMaps : tp = With(un, url, prefix)
    BY WithType
  <2>7. /\ (\A z : z \in DOMAIN un <=> z \in DOMAIN ps /\ z # old)
        /\ \A z \in DOMAIN ps : z # old => un[z] = ps[z]
    BY <2>4, WithoutEntry
  <2>8. /\ (\A z : z \in DOMAIN tn <=> z \in DOMAIN ns \/ z = prefix)
        /\ tn[prefix] = url /\ \A z \in DOMAIN ns : z # prefix => tn[z] = ns[z]
    BY <2>5, WithEntry
  <2>9. /\ (\A z : z \in DOMAIN tp <=> z \in DOMAIN un \/ z = url)
        /\ tp[url] = prefix /\ \A z \in DOMAIN un : z # url => tp[z] = un[z]
    BY <2>6, WithEntry
  <2>10. t.defaultNS = s.defaultNS /\ t.attrNS = tn /\ t.attrPrefix = tp
    <3>1. /\ t.defaultNS = s.defaultNS /\ t.attrNS = With(s.attrNS, prefix, url)
          /\ t.attrPrefix = With(Without(s.attrPrefix, old), url, prefix)
      <4>1. /\ setAttrPrefix(s, prefix, url).defaultNS = s.defaultNS
            /\ setAttrPrefix(s, prefix, url).attrNS = With(s.attrNS, prefix, url)
            /\ setAttrPrefix(s, prefix, url).attrPrefix =
                 With(Without(s.attrPrefix, nsForPrefix(s, prefix)), url, prefix)
        BY <1>5, <2>1, SetPrefix
      <4> QED
        BY <1>1, <4>1
    <3> QED
      BY <2>2, <2>4, <2>5, <2>6, <3>1
  <2>11. Without(tp, url) = un
    <3>1. PICK w \in PartialMaps : w = Without(tp, url)
      BY WithoutType
    <3>2. /\ \A z : z \in DOMAIN w <=> z \in DOMAIN tp /\ z # url
          /\ \A z \in DOMAIN tp : z # url => w[z] = tp[z]
      BY <3>1, WithoutEntry
    <3>3. url \notin DOMAIN un
      BY <2>3, <2>7
    <3>4. DOMAIN w = DOMAIN un /\ \A z \in DOMAIN w : w[z] = un[z]
      BY <2>9, <3>2, <3>3
    <3> QED
      BY <3>1, <3>4, SameMap
  <2>12. nsForPrefix(t, prefix) = url
    BY <1>5, <2>8, <2>10 DEF nsForPrefix
  <2>13. CASE prefix \notin DOMAIN ns
    <3>1. old = ""
      BY <1>1, <1>5, <2>2, <2>13 DEF nsForPrefix
    <3>2. v.defaultNS = t.defaultNS /\ v.attrNS = Without(tn, prefix) /\ v.attrPrefix = un
      BY <1>2, <1>5, <2>10, <2>11, <2>12, <3>1, UnsetPrefix
    <3>3. Without(tn, prefix) = ns
      <4>1. PICK w \in PartialMaps : w = Without(tn, prefix)
        BY WithoutType
      <4>2. /\ \A z : z \in DOMAIN w <=> z \in DOMAIN tn /\ z # prefix
            /\ \A z \in DOMAIN tn : z # prefix => w[z] = tn[z]
        BY <4>1, WithoutEntry
      <4>3. DOMAIN w = DOMAIN ns /\ \A z \in DOMAIN w : w[z] = ns[z]
        BY <2>8, <2>13, <4>2
      <4> QED
        BY <4>1, <4>3, SameMap
    <3>4. un = ps
      <4>1. DOMAIN un = DOMAIN ps /\ \A z \in DOMAIN un : un[z] = ps[z]
        BY <2>3, <2>7, <3>1
      <4> QED
        BY <4>1, SameMap
    <3> QED
      BY <2>2, <2>10, <3>2, <3>3, <3>4, SameScope
  <2>14. CASE prefix \in DOMAIN ns
    <3>1. old = ns[prefix] /\ old \in DOMAIN ps /\ ps[old] = prefix /\ old # ""
      BY <1>1, <1>5, <2>2, <2>3, <2>14 DEF nsForPrefix
    <3>2. v.defaultNS = t.defaultNS /\ v.attrNS = With(tn, prefix, old)
          /\ v.attrPrefix = With(un, old, prefix)
      <4>1. /\ v.defaultNS = t.defaultNS /\ v.attrNS = With(t.attrNS, prefix, old)
            /\ v.attrPrefix = With(Without(t.attrPrefix, nsForPrefix(t, prefix)), old, prefix)
        <5>1. /\ setAttrPrefix(t, prefix, old).defaultNS = t.defaultNS
              /\ setAttrPrefix(t, prefix, old).attrNS = With(t.attrNS, prefix, old)
              /\ setAttrPrefix(t, prefix, old).attrPrefix =
                   With(Without(t.attrPrefix, nsForPrefix(t, prefix)), old, prefix)
          <6>1. old # ""
            BY <3>1
          <6> QED
            BY <1>5, <6>1, SetPrefix
        <5> QED
          BY <1>2, <5>1
      <4> QED
        BY <2>10, <2>11, <2>12, <4>1
    <3>3. With(tn, prefix, old) = ns
      <4>1. PICK w \in PartialMaps : w = With(tn, prefix, old)
        BY WithType
      <4>2. /\ \A z : z \in DOMAIN w <=> z \in DOMAIN tn \/ z = prefix
            /\ w[prefix] = old /\ \A z \in DOMAIN tn : z # prefix => w[z] = tn[z]
        BY <4>1, WithEntry
      <4>3. DOMAIN w = DOMAIN ns /\ \A z \in DOMAIN w : w[z] = ns[z]
        BY <2>8, <2>14, <3>1, <4>2
      <4> QED
        BY <4>1, <4>3, SameMap
    <3>4. With(un, old, prefix) = ps
      <4>1. PICK w \in PartialMaps : w = With(un, old, prefix)
        BY WithType
      <4>2. /\ \A z : z \in DOMAIN w <=> z \in DOMAIN un \/ z = old
            /\ w[old] = prefix /\ \A z \in DOMAIN un : z # old => w[z] = un[z]
        BY <4>1, WithEntry
      <4>3. DOMAIN w = DOMAIN ps /\ \A z \in DOMAIN w : w[z] = ps[z]
        BY <2>7, <3>1, <4>2
      <4> QED
        BY <4>1, <4>3, SameMap
    <3> QED
      BY <2>2, <2>10, <3>2, <3>3, <3>4, SameScope
  <2> QED
    BY <2>13, <2>14
<1> QED
  BY <1>4, <1>5

\* What every prefix stands for after one of them is set.
LEMMA SetLooks ==
  ASSUME NEW s \in Scopes, NEW prefix \in Texts, NEW url \in Texts, NEW x
  PROVE  nsForPrefix(setAttrPrefix(s, prefix, url), x) =
           IF x = prefix THEN url ELSE nsForPrefix(s, x)
<1>1. PICK t \in Scopes : t = setAttrPrefix(s, prefix, url)
  BY SetType
<1>2. CASE prefix = ""
  <2>1. /\ setAttrPrefix(s, "", url).defaultNS = url
        /\ setAttrPrefix(s, "", url).attrNS = s.attrNS
    BY SetDefault
  <2> QED
    BY <1>2, <2>1 DEF nsForPrefix
<1>3. CASE prefix # "" /\ url = ""
  <2>1. /\ setAttrPrefix(s, prefix, "").defaultNS = s.defaultNS
        /\ setAttrPrefix(s, prefix, "").attrNS = Without(s.attrNS, prefix)
    BY <1>3, UnsetPrefix
  <2>2. t.defaultNS = s.defaultNS /\ t.attrNS = Without(s.attrNS, prefix)
    BY <1>1, <1>3, <2>1
  <2>3. /\ \A z : z \in DOMAIN t.attrNS <=> z \in DOMAIN s.attrNS /\ z # prefix
        /\ \A z \in DOMAIN s.attrNS : z # prefix => t.attrNS[z] = s.attrNS[z]
    BY <2>2, WithoutEntry
  <2>4. nsForPrefix(t, x) = IF x = prefix THEN "" ELSE nsForPrefix(s, x)
    BY <1>3, <2>2, <2>3 DEF nsForPrefix
  <2> QED
    BY <1>1, <1>3, <2>4
<1>4. CASE prefix # "" /\ url # ""
  <2>1. /\ setAttrPrefix(s, prefix, url).defaultNS = s.defaultNS
        /\ setAttrPrefix(s, prefix, url).attrNS = With(s.attrNS, prefix, url)
    BY <1>4, SetPrefix
  <2>2. t.defaultNS = s.defaultNS /\ t.attrNS = With(s.attrNS, prefix, url)
    BY <1>1, <2>1
  <2>3. /\ (\A z : z \in DOMAIN t.attrNS <=> z \in DOMAIN s.attrNS \/ z = prefix)
        /\ t.attrNS[prefix] = url
        /\ \A z \in DOMAIN s.attrNS : z # prefix => t.attrNS[z] = s.attrNS[z]
    BY <2>2, WithEntry
  <2>4. nsForPrefix(t, x) = IF x = prefix THEN url ELSE nsForPrefix(s, x)
    BY <1>4, <2>2, <2>3 DEF nsForPrefix
  <2> QED
    BY <1>1, <2>4
<1> QED
  BY <1>2, <1>3, <1>4

-----------------------------------------------------------------------------
(* The operations on the printer, and its scope.                           *)

\* The scope of a printer is one.
LEMMA ScopeType ==
  ASSUME NEW q \in Printers
  PROVE  ScopeOf(q) \in Scopes
BY DEF Printers, Scopes, ScopeOf

\* A prefix stands for the same in the printer and in its scope.
LEMMA ScopeLooks ==
  ASSUME NEW q, NEW x
  PROVE  nsForPrefix(ScopeOf(q), x) = nsForPrefix(q, x)
BY DEF nsForPrefix, ScopeOf

\* setAttrPrefix sets the scope of the printer and leaves the rest.
LEMMA SetOfPrinter ==
  ASSUME NEW q \in Printers, NEW prefix \in Texts, NEW url \in Texts
  PROVE  /\ setAttrPrefix(q, prefix, url) \in Printers
         /\ ScopeOf(setAttrPrefix(q, prefix, url)) = setAttrPrefix(ScopeOf(q), prefix, url)
         /\ setAttrPrefix(q, prefix, url).prefixes = q.prefixes
         /\ setAttrPrefix(q, prefix, url).tags = q.tags
         /\ setAttrPrefix(q, prefix, url).seq = q.seq
         /\ setAttrPrefix(q, prefix, url).buffered = q.buffered
<1>1. /\ q.attrNS \in PartialMaps /\ q.attrPrefix \in PartialMaps
      /\ nsForPrefix(q, prefix) = nsForPrefix(ScopeOf(q), prefix)
  BY ScopeLooks DEF Printers
<1>2. PICK un \in PartialMaps : un = Without(q.attrPrefix, nsForPrefix(q, prefix))
  BY <1>1, WithoutType
<1>3. PICK wp \in PartialMaps : wp = With(un, url, prefix)
  BY WithType
<1>4. PICK wn \in PartialMaps : wn = With(q.attrNS, prefix, url)
  BY <1>1, WithType
<1>5. PICK on \in PartialMaps : on = Without(q.attrNS, prefix)
  BY <1>1, WithoutType
<1>6. PICK s \in Scopes : s = ScopeOf(q)
  BY ScopeType
<1>7. s.defaultNS = q.defaultNS /\ s.attrNS = q.attrNS /\ s.attrPrefix = q.attrPrefix
  BY <1>6 DEF ScopeOf
<1>8. CASE prefix = ""
  <2>1. setAttrPrefix(q, prefix, url) = [q EXCEPT !.defaultNS = url]
    BY <1>8 DEF setAttrPrefix
  <2>2. setAttrPrefix(s, prefix, url) = [s EXCEPT !.defaultNS = url]
    BY <1>8 DEF setAttrPrefix
  <2>3. [s EXCEPT !.defaultNS = url] = ScopeOf([q EXCEPT !.defaultNS = url])
    BY <1>7 DEF Scopes, Printers, ScopeOf
  <2>4. [q EXCEPT !.defaultNS = url] \in Printers
    BY DEF Printers
  <2>5. ScopeOf(setAttrPrefix(q, prefix, url)) = setAttrPrefix(ScopeOf(q), prefix, url)
    BY <1>6, <2>1, <2>2, <2>3
  <2> QED
    BY <2>1, <2>4, <2>5 DEF Printers
<1>9. CASE prefix # "" /\ url = ""
  <2>1. setAttrPrefix(q, prefix, url) = [q EXCEPT !.attrPrefix = un, !.attrNS = on]
    BY <1>2, <1>5, <1>9 DEF setAttrPrefix
  <2>2. setAttrPrefix(s, prefix, url) = [s EXCEPT !.attrPrefix = un, !.attrNS = on]
    <3>1. nsForPrefix(s, prefix) = nsForPrefix(q, prefix)
      BY <1>1, <1>6
    <3> QED
      BY <1>2, <1>5, <1>7, <1>9, <3>1 DEF setAttrPrefix
  <2>3. [s EXCEPT !.attrPrefix = un, !.attrNS = on] =
          ScopeOf([q EXCEPT !.attrPrefix = un, !.attrNS = on])
    <3>1. PICK r : r = [q EXCEPT !.attrPrefix = un, !.attrNS = on]
      OBVIOUS
    <3>2. r \in Printers /\ r.defaultNS = q.defaultNS /\ r.attrNS = on /\ r.attrPrefix = un
      BY <3>1 DEF Printers
    <3>3. PICK v : v = [s EXCEPT !.attrPrefix = un, !.attrNS = on]
      OBVIOUS
    <3>4. v \in Scopes /\ v.defaultNS = s.defaultNS /\ v.attrNS = on /\ v.attrPrefix = un
      BY <3>3 DEF Scopes
    <3>5. /\ ScopeOf(r) \in Scopes /\ ScopeOf(r).defaultNS = q.defaultNS
          /\ ScopeOf(r).attrNS = on /\ ScopeOf(r).attrPrefix = un
      BY <3>2, ScopeType DEF ScopeOf
    <3>6. v = ScopeOf(r)
      BY <1>7, <3>4, <3>5, SameScope
    <3> QED
      BY <3>1, <3>3, <3>6
  <2>4. [q EXCEPT !.attrPrefix = un, !.attrNS = on] \in Printers
    BY DEF Printers
  <2>5. ScopeOf(setAttrPrefix(q, prefix, url)) = setAttrPrefix(ScopeOf(q), prefix, url)
    BY <1>6, <2>1, <2>2, <2>3
  <2> QED
    BY <2>1, <2>4, <2>5 DEF Printers
<1>10. CASE prefix # "" /\ url # ""
  <2>1. setAttrPrefix(q, prefix, url) = [q EXCEPT !.attrPrefix = wp, !.attrNS = wn]
    BY <1>2, <1>3, <1>4, <1>10 DEF setAttrPrefix
  <2>2. setAttrPrefix(s, prefix, url) = [s EXCEPT !.attrPrefix = wp, !.attrNS = wn]
    <3>1. nsForPrefix(s, prefix) = nsForPrefix(q, prefix)
      BY <1>1, <1>6
    <3> QED
      BY <1>2, <1>3, <1>4, <1>7, <1>10, <3>1 DEF setAttrPrefix
  <2>3. [s EXCEPT !.attrPrefix = wp, !.attrNS = wn] =
          ScopeOf([q EXCEPT !.attrPrefix = wp, !.attrNS = wn])
    <3>1. PICK r : r = [q EXCEPT !.attrPrefix = wp, !.attrNS = wn]
      OBVIOUS
    <3>2. r \in Printers /\ r.defaultNS = q.defaultNS /\ r.attrNS = wn /\ r.attrPrefix = wp
      BY <3>1 DEF Printers
    <3>3. PICK v : v = [s EXCEPT !.attrPrefix = wp, !.attrNS = wn]
      OBVIOUS
    <3>4. v \in Scopes /\ v.defaultNS = s.defaultNS /\ v.attrNS = wn /\ v.attrPrefix = wp
      BY <3>3 DEF Scopes
    <3>5. /\ ScopeOf(r) \in Scopes /\ ScopeOf(r).defaultNS = q.defaultNS
          /\ ScopeOf(r).attrNS = wn /\ ScopeOf(r).attrPrefix = wp
      BY <3>2, ScopeType DEF ScopeOf
    <3>6. v = ScopeOf(r)
      BY <1>7, <3>4, <3>5, SameScope
    <3> QED
      BY <3>1, <3>3, <3>6
  <2>4. [q EXCEPT !.attrPrefix = wp, !.attrNS = wn] \in Printers
    BY DEF Printers
  <2>5. ScopeOf(setAttrPrefix(q, prefix, url)) = setAttrPrefix(ScopeOf(q), prefix, url)
    BY <1>6, <2>1, <2>2, <2>3
  <2> QED
    BY <2>1, <2>4, <2>5 DEF Printers
<1> QED
  BY <1>8, <1>9, <1>10

\* pushPrefix does the same, and notes what the prefix stood for.
LEMMA PushOfPrinter ==
  ASSUME NEW q \in Printers, NEW prefix \in Texts, NEW url \in Texts
  PROVE  /\ pushPrefix(q, prefix, url) \in Printers
         /\ ScopeOf(pushPrefix(q, prefix, url)) = setAttrPrefix(ScopeOf(q), prefix, url)
         /\ printerPrefix(prefix, nsForPrefix(q, prefix)) \in Records
         /\ pushPrefix(q, prefix, url).prefixes =
              Append(q.prefixes, printerPrefix(prefix, nsForPrefix(q, prefix)))
         /\ pushPrefix(q, prefix, url).tags = q.tags
         /\ pushPrefix(q, prefix, url).seq = q.seq
         /\ pushPrefix(q, prefix, url).buffered = q.buffered
<1>1. nsForPrefix(q, prefix) \in Texts
  BY ScopeType, ScopeLooks, SetType
<1>2. printerPrefix(prefix, nsForPrefix(q, prefix)) \in Records
  BY <1>1 DEF printerPrefix, Records
<1>3. PICK rec \in Records : rec = printerPrefix(prefix, nsForPrefix(q, prefix))
  BY <1>2
<1>35. PICK ap \in Seq(Records) : ap = Append(q.prefixes, rec)
  <2>1. q.prefixes \in Seq(Records)
    BY DEF Printers
  <2> QED
    BY <2>1, Appended
<1>4. PICK m : m = [q EXCEPT !.prefixes = ap]
  OBVIOUS
<1>5. /\ m \in Printers /\ ScopeOf(m) = ScopeOf(q) /\ m.prefixes = Append(q.prefixes, rec)
      /\ m.tags = q.tags /\ m.seq = q.seq /\ m.buffered = q.buffered
  <2>1. /\ m \in Printers /\ m.prefixes = ap
        /\ m.defaultNS = q.defaultNS /\ m.attrNS = q.attrNS /\ m.attrPrefix = q.attrPrefix
        /\ m.tags = q.tags /\ m.seq = q.seq /\ m.buffered = q.buffered
    BY <1>4 DEF Printers
  <2>2. ScopeOf(m) = ScopeOf(q)
    BY <2>1 DEF ScopeOf
  <2> QED
    BY <1>35, <2>1, <2>2
<1>6. pushPrefix(q, prefix, url) = setAttrPrefix(m, prefix, url)
  BY <1>3, <1>35, <1>4 DEF pushPrefix
<1>7. /\ setAttrPrefix(m, prefix, url) \in Printers
      /\ ScopeOf(setAttrPrefix(m, prefix, url)) = setAttrPrefix(ScopeOf(m), prefix, url)
      /\ setAttrPrefix(m, prefix, url).prefixes = m.prefixes
      /\ setAttrPrefix(m, prefix, url).tags = m.tags
      /\ setAttrPrefix(m, prefix, url).seq = m.seq
      /\ setAttrPrefix(m, prefix, url).buffered = m.buffered
  BY <1>5, SetOfPrinter
<1> QED
  BY <1>2, <1>3, <1>5, <1>6, <1>7

-----------------------------------------------------------------------------
(* The history of the undo records.                                        *)

\* The scopes u the printer has been in: u[i] below the record i + 1, so that
\* undoing a record leads from the scope above it to the one below.
History(u, q) ==
  /\ u \in [0..Len(q.prefixes) -> Scopes]
  /\ u[0] = NoScope /\ u[Len(q.prefixes)] = ScopeOf(q)
  /\ \A i \in 0..Len(q.prefixes) : Bijective(u[i])
  /\ \A i \in 1..Len(q.prefixes) :
       u[i - 1] = IF q.prefixes[i].mark THEN u[i]
                  ELSE setAttrPrefix(u[i], q.prefixes[i].prefix, q.prefixes[i].url)

\* A record on top of the others, and the scope above it, continue a history.
LEMMA HistoryGrows ==
  ASSUME NEW q \in Printers, NEW u, History(u, q), NEW r \in Printers, NEW rec \in Records,
         r.prefixes = Append(q.prefixes, rec), Bijective(ScopeOf(r)),
         ScopeOf(q) = IF rec.mark THEN ScopeOf(r)
                      ELSE setAttrPrefix(ScopeOf(r), rec.prefix, rec.url)
  PROVE  \E w : History(w, r) /\ \A i \in 0..Len(q.prefixes) : w[i] = u[i]
<1>1. PICK L \in Nat : L = Len(q.prefixes)
  BY DEF Printers
<1>2. /\ Len(r.prefixes) = L + 1 /\ r.prefixes[L + 1] = rec
      /\ \A i \in 1..L : r.prefixes[i] = q.prefixes[i]
  <2>1. q.prefixes \in Seq(Records)
    BY DEF Printers
  <2> QED
    BY <1>1, <2>1, Appended
<1>3. PICK w : w = [i \in 0..L + 1 |-> IF i = L + 1 THEN ScopeOf(r) ELSE u[i]]
  OBVIOUS
<1>4. \A i \in 0..L : w[i] = u[i]
  BY <1>3
<1>5. w[L + 1] = ScopeOf(r)
  BY <1>3
<1>6. /\ u \in [0..L -> Scopes] /\ u[0] = NoScope /\ u[L] = ScopeOf(q)
      /\ \A i \in 0..L : Bijective(u[i])
  BY <1>1 DEF History
<1>7. w \in [0..L + 1 -> Scopes]
  <2>1. ScopeOf(r) \in Scopes
    BY ScopeType
  <2> QED
    BY <1>3, <1>6, <2>1
<1>8. w[0] = NoScope
  BY <1>4, <1>6
<1>9. \A i \in 0..L + 1 : Bijective(w[i])
  <2>1. ASSUME NEW i \in 0..L + 1
        PROVE  Bijective(w[i])
    <3>1. CASE i = L + 1
      BY <1>5, <3>1
    <3>2. CASE i # L + 1
      <4>1. i \in 0..L
        BY <3>2
      <4> QED
        BY <1>4, <1>6, <4>1
    <3> QED
      BY <3>1, <3>2
  <2> QED
    BY <2>1
<1>10. ASSUME NEW i \in 1..L + 1
       PROVE  w[i - 1] = IF r.prefixes[i].mark THEN w[i]
                         ELSE setAttrPrefix(w[i], r.prefixes[i].prefix, r.prefixes[i].url)
  <2>1. CASE i = L + 1
    <3>1. w[i - 1] = ScopeOf(q) /\ w[i] = ScopeOf(r) /\ r.prefixes[i] = rec
      BY <1>2, <1>4, <1>5, <1>6, <2>1
    <3> QED
      BY <3>1
  <2>2. CASE i # L + 1
    <3>1. i \in 1..L /\ w[i - 1] = u[i - 1] /\ w[i] = u[i] /\ r.prefixes[i] = q.prefixes[i]
      BY <1>2, <1>4, <2>2
    <3>2. u[i - 1] = IF q.prefixes[i].mark THEN u[i]
                     ELSE setAttrPrefix(u[i], q.prefixes[i].prefix, q.prefixes[i].url)
      BY <1>1, <3>1 DEF History
    <3> QED
      BY <3>1, <3>2
  <2> QED
    BY <2>1, <2>2
<1>11. History(w, r)
  BY <1>2, <1>5, <1>7, <1>8, <1>9, <1>10 DEF History
<1> QED
  BY <1>1, <1>4, <1>11

\* The printer q has declared some prefixes since it was q0 in the scopes u0:
\* more records and no mark, other meanings of their prefixes only, and none
\* that means nothing.
Opened(q0, u0, q) ==
  /\ q \in Printers /\ q.tags = q0.tags
  /\ Len(q0.prefixes) <= Len(q.prefixes)
  /\ \A i \in 1..Len(q0.prefixes) : q.prefixes[i] = q0.prefixes[i]
  /\ \A i \in Len(q0.prefixes) + 1..Len(q.prefixes) :
       /\ ~q.prefixes[i].mark
       /\ q.prefixes[i].prefix # "" =>
            q.prefixes[i].prefix \notin Reserved /\ nsForPrefix(q, q.prefixes[i].prefix) # ""
  /\ \A x : (\A i \in Len(q0.prefixes) + 1..Len(q.prefixes) : q.prefixes[i].prefix # x)
              => nsForPrefix(q, x) = nsForPrefix(q0, x)
  /\ \E u : History(u, q) /\ \A i \in 0..Len(q0.prefixes) : u[i] = u0[i]

\* At first nothing is declared.
LEMMA OpenedAtFirst ==
  ASSUME NEW q \in Printers, NEW u, History(u, q)
  PROVE  Opened(q, u, q)
<1>1. PICK L \in Nat : L = Len(q.prefixes)
  BY DEF Printers
<1>2. \A i \in L + 1..L : FALSE
  OBVIOUS
<1>3. \A i \in 0..L : u[i] = u[i]
  OBVIOUS
<1>4. /\ Len(q.prefixes) <= Len(q.prefixes)
      /\ \A i \in Len(q.prefixes) + 1..Len(q.prefixes) : FALSE
  BY <1>1, <1>2
<1>5. \A i \in Len(q.prefixes) + 1..Len(q.prefixes) :
       /\ ~q.prefixes[i].mark
       /\ q.prefixes[i].prefix # "" =>
            q.prefixes[i].prefix \notin Reserved /\ nsForPrefix(q, q.prefixes[i].prefix) # ""
  BY <1>4
<1>6. \E w : History(w, q) /\ \A i \in 0..Len(q.prefixes) : w[i] = u[i]
  OBVIOUS
<1> QED
  BY <1>4, <1>5, <1>6 DEF Opened

\* One more declaration.
LEMMA OpenedPush ==
  ASSUME NEW q0 \in Printers, NEW u0, NEW q, Opened(q0, u0, q), NEW prefix \in Texts,
         NEW url \in Texts, Pushable(ScopeOf(q), prefix, url)
  PROVE  Opened(q0, u0, pushPrefix(q, prefix, url))
<1>1. PICK L0 \in Nat : L0 = Len(q0.prefixes)
  BY DEF Printers
<1>2. q \in Printers
  BY DEF Opened
<1>3. PICK L \in Nat : L = Len(q.prefixes)
  BY <1>2 DEF Printers
<1>4. PICK rec \in Records : rec = printerPrefix(prefix, nsForPrefix(q, prefix))
  BY <1>2, PushOfPrinter
<1>5. rec.prefix = prefix /\ rec.url = nsForPrefix(q, prefix) /\ rec.mark = FALSE
  BY <1>4 DEF printerPrefix
<1>6. PICK r \in Printers :
           /\ r = pushPrefix(q, prefix, url)
           /\ ScopeOf(r) = setAttrPrefix(ScopeOf(q), prefix, url)
           /\ r.prefixes = Append(q.prefixes, rec) /\ r.tags = q.tags
  BY <1>2, <1>4, PushOfPrinter
<1>7. /\ Len(r.prefixes) = L + 1 /\ r.prefixes[L + 1] = rec
      /\ \A i \in 1..L : r.prefixes[i] = q.prefixes[i]
  <2>1. q.prefixes \in Seq(Records)
    BY <1>2 DEF Printers
  <2> QED
    BY <1>3, <1>6, <2>1, Appended
<1>8. \A x : nsForPrefix(r, x) = IF x = prefix THEN url ELSE nsForPrefix(q, x)
  <2> SUFFICES ASSUME NEW x
               PROVE  nsForPrefix(r, x) = IF x = prefix THEN url ELSE nsForPrefix(q, x)
    OBVIOUS
  <2>1. nsForPrefix(setAttrPrefix(ScopeOf(q), prefix, url), x) =
          IF x = prefix THEN url ELSE nsForPrefix(ScopeOf(q), x)
    BY <1>2, ScopeType, SetLooks
  <2>2. nsForPrefix(ScopeOf(r), x) = nsForPrefix(r, x) /\ nsForPrefix(ScopeOf(q), x) = nsForPrefix(q, x)
    BY ScopeLooks
  <2> QED
    BY <1>6, <2>1, <2>2
<1>9. prefix # "" => prefix \notin Reserved /\ url # ""
  BY DEF Pushable
<1>10. /\ L0 <= L /\ \A i \in 1..L0 : q.prefixes[i] = q0.prefixes[i]
       /\ q.tags = q0.tags
       /\ \A i \in L0 + 1..L :
            /\ ~q.prefixes[i].mark
            /\ q.prefixes[i].prefix # "" =>
                 q.prefixes[i].prefix \notin Reserved /\ nsForPrefix(q, q.prefixes[i].prefix) # ""
       /\ \A x : (\A i \in L0 + 1..L : q.prefixes[i].prefix # x) => nsForPrefix(q, x) = nsForPrefix(q0, x)
  BY <1>1, <1>3 DEF Opened
<1>11. L0 <= L + 1 /\ \A i \in 1..L0 : r.prefixes[i] = q0.prefixes[i]
  <2>1. L0 <= L /\ \A i \in 1..L0 : q.prefixes[i] = q0.prefixes[i]
    BY <1>10
  <2>2. \A i \in 1..L0 : i \in 1..L
    BY <2>1
  <2> QED
    BY <1>7, <2>1, <2>2
<1>12. ASSUME NEW i \in L0 + 1..L + 1
       PROVE  /\ ~r.prefixes[i].mark
              /\ r.prefixes[i].prefix # "" =>
                   r.prefixes[i].prefix \notin Reserved /\ nsForPrefix(r, r.prefixes[i].prefix) # ""
  <2>1. CASE i = L + 1
    BY <1>5, <1>7, <1>8, <1>9, <2>1
  <2>2. CASE i # L + 1
    <3>1. i \in L0 + 1..L /\ r.prefixes[i] = q.prefixes[i]
      BY <1>7, <2>2
    <3> QED
      BY <1>8, <1>9, <1>10, <3>1
  <2> QED
    BY <2>1, <2>2
<1>13. ASSUME NEW x, \A i \in L0 + 1..L + 1 : r.prefixes[i].prefix # x
       PROVE  nsForPrefix(r, x) = nsForPrefix(q0, x)
  <2>1. x # prefix
    <3>1. L + 1 \in L0 + 1..L + 1
      <4>1. L0 <= L
        BY <1>10
      <4> QED
        BY <4>1
    <3>2. r.prefixes[L + 1].prefix # x
      BY <1>13, <3>1
    <3> QED
      BY <1>5, <1>7, <3>2
  <2>2. \A i \in L0 + 1..L : q.prefixes[i].prefix # x
    BY <1>7, <1>13
  <2>3. nsForPrefix(q, x) = nsForPrefix(q0, x)
    BY <1>10, <2>2
  <2> QED
    BY <1>8, <2>1, <2>3
<1>14. \E w : History(w, r) /\ \A i \in 0..L0 : w[i] = u0[i]
  <2>1. PICK u : History(u, q) /\ \A i \in 0..L0 : u[i] = u0[i]
    BY <1>1 DEF Opened
  <2>2. ScopeOf(q) \in Scopes /\ Bijective(ScopeOf(q))
    BY <1>2, <1>3, <2>1, ScopeType DEF History
  <2>3. Bijective(ScopeOf(r))
    BY <1>6, <2>2, SetBijective
  <2>4. ScopeOf(q) = setAttrPrefix(ScopeOf(r), rec.prefix, rec.url)
    <3>1. setAttrPrefix(setAttrPrefix(ScopeOf(q), prefix, url), prefix,
                        nsForPrefix(ScopeOf(q), prefix)) = ScopeOf(q)
      BY <2>2, SetUndone
    <3>2. nsForPrefix(ScopeOf(q), prefix) = nsForPrefix(q, prefix)
      BY ScopeLooks
    <3> QED
      BY <1>5, <1>6, <3>1, <3>2
  <2>5. PICK w : History(w, r) /\ \A i \in 0..Len(q.prefixes) : w[i] = u[i]
    <3>1. History(u, q)
      BY <2>1
    <3>2. r.prefixes = Append(q.prefixes, rec)
      BY <1>6
    <3>3. ScopeOf(q) = IF rec.mark THEN ScopeOf(r) ELSE setAttrPrefix(ScopeOf(r), rec.prefix, rec.url)
      BY <1>5, <2>4
    <3> QED
      BY <1>2, <2>3, <3>1, <3>2, <3>3, HistoryGrows
  <2>6. \A i \in 0..L0 : w[i] = u0[i]
    <3>1. L0 <= L
      BY <1>10
    <3>2. \A i \in 0..L0 : i \in 0..Len(q.prefixes)
      BY <1>3, <3>1
    <3>3. \A i \in 0..L0 : u[i] = u0[i]
      BY <2>1
    <3>4. \A i \in 0..Len(q.prefixes) : w[i] = u[i]
      BY <2>5
    <3> QED
      BY <3>2, <3>3, <3>4
  <2> QED
    BY <2>5, <2>6
<1>15. Opened(q0, u0, r)
  BY <1>1, <1>6, <1>7, <1>10, <1>11, <1>12, <1>13, <1>14 DEF Opened
<1> QED
  BY <1>6, <1>15

\* A step that leaves the scope and the records alone.
LEMMA OpenedRest ==
  ASSUME NEW q0 \in Printers, NEW u0, NEW q, Opened(q0, u0, q), NEW n \in Nat
  PROVE  Opened(q0, u0, [q EXCEPT !.seq = n])
<1>1. q \in Printers
  BY DEF Opened
<1>2. PICK r : r = [q EXCEPT !.seq = n]
  OBVIOUS
<1>3. /\ r \in Printers /\ r.prefixes = q.prefixes /\ r.tags = q.tags
      /\ r.defaultNS = q.defaultNS /\ r.attrNS = q.attrNS /\ r.attrPrefix = q.attrPrefix
  BY <1>1, <1>2 DEF Printers
<1>4. ScopeOf(r) = ScopeOf(q) /\ \A x : nsForPrefix(r, x) = nsForPrefix(q, x)
  BY <1>3 DEF ScopeOf, nsForPrefix
<1>5. \A u : History(u, q) => History(u, r)
  BY <1>3, <1>4 DEF History
<1>6. Opened(q0, u0, r)
  BY <1>3, <1>4, <1>5 DEF Opened
<1> QED
  BY <1>2, <1>6

\* The scope of a printer with declarations is as every scope of its history.
LEMMA OpenedBijective ==
  ASSUME NEW q0, NEW u0, NEW q, Opened(q0, u0, q)
  PROVE  q \in Printers /\ ScopeOf(q) \in Scopes /\ Bijective(ScopeOf(q))
<1>1. q \in Printers
  BY DEF Opened
<1>2. PICK L \in Nat : L = Len(q.prefixes)
  BY <1>1 DEF Printers
<1>3. PICK u : History(u, q)
  BY DEF Opened
<1>4. Bijective(u[L]) /\ u[L] = ScopeOf(q)
  BY <1>2, <1>3 DEF History
<1> QED
  BY <1>1, <1>4, ScopeType

\* A declaration is of the default name space, or of a prefix a document may
\* declare.
Declares(a) ==
  isNamespace(a.name) =>
    \/ a.name.local = << "xmlns" >>
    \/ a.name.local # << >> /\ Head(a.name.local) \notin Reserved

\* defineNS declares at most one prefix, with the name space it is given.
LEMMA DefineOpened ==
  ASSUME NEW q0 \in Printers, NEW u0, NEW q, Opened(q0, u0, q), NEW a \in AttrSet,
         Declares(a), NEW flag
  PROVE  Opened(q0, u0, defineNS(q, a, flag))
<1>1. PICK prefix : prefix = IF a.name.local = << "xmlns" >> THEN "" ELSE Head(a.name.local)
  OBVIOUS
<1>2. defineNS(q, a, flag) =
        IF \/ ~isNamespace(a.name)
           \/ prefix # "" /\ (a.value = "" \/ a.value \in DOMAIN q.attrPrefix)
           \/ prefix = "" /\ (a.value = q.defaultNS \/ (a.value # "" /\ flag))
          THEN q ELSE pushPrefix(q, prefix, a.value)
  BY <1>1 DEF defineNS
<1>3. CASE \/ ~isNamespace(a.name)
           \/ prefix # "" /\ (a.value = "" \/ a.value \in DOMAIN q.attrPrefix)
           \/ prefix = "" /\ (a.value = q.defaultNS \/ (a.value # "" /\ flag))
  BY <1>2, <1>3
<1>4. CASE ~(\/ ~isNamespace(a.name)
             \/ prefix # "" /\ (a.value = "" \/ a.value \in DOMAIN q.attrPrefix)
             \/ prefix = "" /\ (a.value = q.defaultNS \/ (a.value # "" /\ flag)))
  <2>1. a.value \in Texts /\ a.name \in Names
    BY DEF AttrSet
  <2>2. a.name.local \in Seq(Texts)
    BY <2>1 DEF Names
  <2>3. isNamespace(a.name)
    BY <1>4
  <2>4. prefix \in Texts /\ (prefix # "" => prefix \notin Reserved)
    <3>1. CASE a.name.local = << "xmlns" >>
      BY <1>1, <3>1, Literals
    <3>2. CASE a.name.local # << "xmlns" >>
      <4>1. prefix = Head(a.name.local) /\ a.name.local # << >> /\ prefix \notin Reserved
        BY <1>1, <2>3, <3>2 DEF Declares
      <4>2. Head(a.name.local) \in Texts
        BY <2>2, <4>1, FirstPart
      <4> QED
        BY <4>1, <4>2
    <3> QED
      BY <3>1, <3>2
  <2>5. Pushable(ScopeOf(q), prefix, a.value)
    <3>1. CASE prefix = ""
      BY <3>1 DEF Pushable
    <3>2. CASE prefix # ""
      <4>1. a.value # "" /\ a.value \notin DOMAIN q.attrPrefix
        BY <1>4, <3>2
      <4>2. ScopeOf(q).attrPrefix = q.attrPrefix
        BY DEF ScopeOf
      <4> QED
        BY <2>4, <3>2, <4>1, <4>2 DEF Pushable
    <3> QED
      BY <3>1, <3>2
  <2>6. Opened(q0, u0, pushPrefix(q, prefix, a.value))
    BY <2>1, <2>4, <2>5, OpenedPush
  <2> QED
    BY <1>2, <1>4, <2>6
<1> QED
  BY <1>3, <1>4

\* The prefixes made for a name space are prefixes a document may declare.
Hinted(url) ==
  /\ url \in Texts
  /\ Hint(url) \in Texts /\ Hint(url) \notin Reserved
  /\ \A n \in 1..MaxNumber + 1 :
       numberedPrefix(Hint(url), n) \in Texts /\ numberedPrefix(Hint(url), n) \notin Reserved

\* The number of a prefix is one that was looked at, and then the prefix is
\* free, or it is the first beyond the bound.
LEMMA NumberedType ==
  ASSUME MaxNumber \in Nat, NEW q \in Printers, NEW prefix
  PROVE  /\ Numbered(q, prefix).seq \in 1..MaxNumber + 1
         /\ Numbered(q, prefix).prefix = numberedPrefix(prefix, Numbered(q, prefix).seq)
         /\ Numbered(q, prefix).seq <= MaxNumber =>
              q.seq < Numbered(q, prefix).seq /\ Numbered(q, prefix).prefix \notin DOMAIN q.attrNS
<1>1. q.seq \in Nat
  BY DEF Printers
<1>2. PICK free : free = {n \in q.seq + 1..MaxNumber : numberedPrefix(prefix, n) \notin DOMAIN q.attrNS}
  OBVIOUS
<1>3. PICK S : S = free \cup {MaxNumber + 1}
  OBVIOUS
<1>4. S \in SUBSET (1..MaxNumber + 1) /\ S # {} /\ MaxNumber + 1 \in Nat
  BY <1>1, <1>2, <1>3
<1>5. Min(S) \in S
  BY <1>4, Extremes
<1>6. Numbered(q, prefix) = [seq |-> Min(S), prefix |-> numberedPrefix(prefix, Min(S))]
  BY <1>2, <1>3 DEF Numbered
<1>7. Min(S) \in 1..MaxNumber + 1
  BY <1>4, <1>5
<1>8. ASSUME Min(S) <= MaxNumber
      PROVE  q.seq < Min(S) /\ numberedPrefix(prefix, Min(S)) \notin DOMAIN q.attrNS
  <2>1. Min(S) \in free
    BY <1>3, <1>5, <1>8
  <2> QED
    BY <1>1, <1>2, <2>1
<1> QED
  BY <1>6, <1>7, <1>8

\* What createNSPrefix does, case by case.
LEMMA CreateCases ==
  ASSUME NEW q, NEW url, NEW isAttr \in BOOLEAN
  PROVE  \/ /\ createNSPrefix(q, url, isAttr) = q
            /\ \/ url = xmlURL
               \/ url \in DOMAIN q.attrPrefix
               \/ ~isAttr /\ url = q.defaultNS
               \/ url = "" /\ q.defaultNS = ""
         \/ createNSPrefix(q, url, isAttr) = pushPrefix(q, "", "") /\ url = "" /\ q.defaultNS # ""
         \/ /\ createNSPrefix(q, url, isAttr) = pushPrefix(q, Hint(url), url)
            /\ url # "" /\ url \notin DOMAIN q.attrPrefix /\ Hint(url) \notin DOMAIN q.attrNS
         \/ /\ createNSPrefix(q, url, isAttr) =
                 pushPrefix([q EXCEPT !.seq = Numbered(q, Hint(url)).seq],
                            Numbered(q, Hint(url)).prefix, url)
            /\ url # "" /\ url \notin DOMAIN q.attrPrefix
<1>1. PICK hinted : hinted = pushPrefix(q, Hint(url), url)
  OBVIOUS
<1>2. PICK numbered :
           numbered = pushPrefix([q EXCEPT !.seq = Numbered(q, Hint(url)).seq],
                                 Numbered(q, Hint(url)).prefix, url)
  OBVIOUS
<1>3. PICK plain : plain = pushPrefix(q, "", "")
  OBVIOUS
<1>4. PICK r : r = createNSPrefix(q, url, isAttr)
  OBVIOUS
<1>5. PICK known \in BOOLEAN : known <=> url = xmlURL \/ url \in DOMAIN q.attrPrefix \/ (~isAttr /\ url = q.defaultNS)
  OBVIOUS
<1>6. r = IF url \in DOMAIN q.attrPrefix \cup {xmlURL} \/ (~isAttr /\ url = q.defaultNS)
            THEN q
          ELSE IF url = "" THEN IF q.defaultNS = "" THEN q ELSE plain
          ELSE IF Hint(url) \notin DOMAIN q.attrNS THEN hinted ELSE numbered
  BY <1>1, <1>2, <1>3, <1>4 DEF createNSPrefix
<1>7. r = IF known THEN q
          ELSE IF url = "" THEN IF q.defaultNS = "" THEN q ELSE plain
          ELSE IF Hint(url) \notin DOMAIN q.attrNS THEN hinted ELSE numbered
  BY <1>5, <1>6
<1>8. \/ r = q /\ (known \/ (url = "" /\ q.defaultNS = ""))
      \/ r = plain /\ url = "" /\ q.defaultNS # ""
      \/ r = hinted /\ url # "" /\ ~known /\ Hint(url) \notin DOMAIN q.attrNS
      \/ r = numbered /\ url # "" /\ ~known
  BY <1>7
<1>9. \/ /\ r = q
         /\ \/ url = xmlURL
            \/ url \in DOMAIN q.attrPrefix
            \/ ~isAttr /\ url = q.defaultNS
            \/ url = "" /\ q.defaultNS = ""
      \/ r = plain /\ url = "" /\ q.defaultNS # ""
      \/ r = hinted /\ url # "" /\ url \notin DOMAIN q.attrPrefix /\ Hint(url) \notin DOMAIN q.attrNS
      \/ r = numbered /\ url # "" /\ url \notin DOMAIN q.attrPrefix
  BY <1>5, <1>8
<1> QED
  BY <1>1, <1>2, <1>3, <1>4, <1>9

\* The printer with the next number.
LEMMA Renumbered ==
  ASSUME MaxNumber \in Nat, NEW q \in Printers, NEW prefix
  PROVE  LET r == [q EXCEPT !.seq = Numbered(q, prefix).seq]
         IN  /\ r \in Printers /\ ScopeOf(r) = ScopeOf(q) /\ r.seq = Numbered(q, prefix).seq
             /\ r.attrNS = q.attrNS /\ r.attrPrefix = q.attrPrefix
             /\ r.prefixes = q.prefixes /\ r.tags = q.tags
<1>1. PICK n \in Nat : n = Numbered(q, prefix).seq
  BY NumberedType
<1>2. PICK r : r = [q EXCEPT !.seq = n]
  OBVIOUS
<1>3. /\ r \in Printers /\ r.defaultNS = q.defaultNS /\ r.attrNS = q.attrNS
      /\ r.attrPrefix = q.attrPrefix /\ r.prefixes = q.prefixes /\ r.tags = q.tags /\ r.seq = n
  BY <1>2 DEF Printers
<1>4. ScopeOf(r) = ScopeOf(q)
  BY <1>3 DEF ScopeOf
<1>5. r = [q EXCEPT !.seq = Numbered(q, prefix).seq]
  BY <1>1, <1>2
<1> QED
  BY <1>1, <1>3, <1>4, <1>5

\* createNSPrefix gives the printer back, or declares a prefix for the name
\* space.
LEMMA CreateOpened ==
  ASSUME MaxNumber \in Nat, NEW q0 \in Printers, NEW u0, NEW q, Opened(q0, u0, q), NEW url,
         Hinted(url), NEW isAttr \in BOOLEAN
  PROVE  Opened(q0, u0, createNSPrefix(q, url, isAttr))
<1>1. q \in Printers /\ Bijective(ScopeOf(q))
  BY OpenedBijective
<1>2. PICK n : n = Numbered(q, Hint(url))
  OBVIOUS
<1>3. n.seq \in 1..MaxNumber + 1 /\ n.prefix = numberedPrefix(Hint(url), n.seq)
  BY <1>1, <1>2, NumberedType
<1>4. url \in Texts /\ Hint(url) \in Texts /\ Hint(url) \notin Reserved
  BY DEF Hinted
<1>5. n.prefix \in Texts /\ n.prefix \notin Reserved
  BY <1>3 DEF Hinted
<1>6. Opened(q0, u0, pushPrefix(q, "", ""))
  <2>1. Pushable(ScopeOf(q), "", "")
    BY DEF Pushable
  <2> QED
    BY <2>1, Literals, OpenedPush
<1>7. ASSUME url # "", url \notin DOMAIN q.attrPrefix
      PROVE  /\ Opened(q0, u0, pushPrefix(q, Hint(url), url))
             /\ Opened(q0, u0, pushPrefix([q EXCEPT !.seq = n.seq], n.prefix, url))
  <2>1. ScopeOf(q).attrPrefix = q.attrPrefix
    BY DEF ScopeOf
  <2>2. Pushable(ScopeOf(q), Hint(url), url)
    BY <1>4, <1>7, <2>1 DEF Pushable
  <2>3. Opened(q0, u0, pushPrefix(q, Hint(url), url))
    BY <1>4, <2>2, OpenedPush
  <2>4. PICK r : r = [q EXCEPT !.seq = n.seq]
    OBVIOUS
  <2>5. n.seq \in Nat
    BY <1>3
  <2>6. Opened(q0, u0, r)
    BY <2>4, <2>5, OpenedRest
  <2>7. ScopeOf(r) = ScopeOf(q)
    BY <1>1, <1>2, <2>4, Renumbered
  <2>8. Pushable(ScopeOf(r), n.prefix, url)
    BY <1>5, <1>7, <2>1, <2>7 DEF Pushable
  <2>9. Opened(q0, u0, pushPrefix(r, n.prefix, url))
    BY <1>4, <1>5, <2>6, <2>8, OpenedPush
  <2> QED
    BY <2>3, <2>4, <2>9
<1>8. \/ createNSPrefix(q, url, isAttr) = q
      \/ createNSPrefix(q, url, isAttr) = pushPrefix(q, "", "")
      \/ /\ createNSPrefix(q, url, isAttr) = pushPrefix(q, Hint(url), url)
         /\ url # "" /\ url \notin DOMAIN q.attrPrefix
      \/ /\ createNSPrefix(q, url, isAttr) = pushPrefix([q EXCEPT !.seq = n.seq], n.prefix, url)
         /\ url # "" /\ url \notin DOMAIN q.attrPrefix
  BY <1>2, CreateCases
<1> QED
  BY <1>6, <1>7, <1>8

\* Is there a way to write a name in this name space?
Writable(s, url, isAttr) ==
  \/ url = xmlURL
  \/ ~isAttr /\ url = s.defaultNS
  \/ url \in DOMAIN s.attrPrefix

\* A declared prefix is known by its name space.
LEMMA PushKnows ==
  ASSUME NEW q \in Printers, NEW prefix \in Texts, NEW url \in Texts, prefix # "", url # ""
  PROVE  url \in DOMAIN pushPrefix(q, prefix, url).attrPrefix
<1>1. PICK s \in Scopes : s = ScopeOf(q)
  BY ScopeType
<1>2. ScopeOf(pushPrefix(q, prefix, url)) = setAttrPrefix(s, prefix, url)
  BY <1>1, PushOfPrinter
<1>3. setAttrPrefix(s, prefix, url).attrPrefix =
        With(Without(s.attrPrefix, nsForPrefix(s, prefix)), url, prefix)
  BY SetPrefix
<1>4. PICK f : f = Without(s.attrPrefix, nsForPrefix(s, prefix))
  OBVIOUS
<1>5. url \in DOMAIN With(f, url, prefix)
  BY WithEntry
<1>6. url \in DOMAIN setAttrPrefix(s, prefix, url).attrPrefix
  BY <1>3, <1>4, <1>5
<1>7. ScopeOf(pushPrefix(q, prefix, url)).attrPrefix = pushPrefix(q, prefix, url).attrPrefix
  BY DEF ScopeOf
<1> QED
  BY <1>2, <1>6, <1>7

\* A declared default name space is one.
LEMMA PushDefaults ==
  ASSUME NEW q \in Printers, NEW url \in Texts
  PROVE  pushPrefix(q, "", url).defaultNS = url
<1>1. PICK s \in Scopes : s = ScopeOf(q)
  BY ScopeType
<1>2. ScopeOf(pushPrefix(q, "", url)) = setAttrPrefix(s, "", url)
  BY <1>1, PushOfPrinter, Literals
<1>3. setAttrPrefix(s, "", url).defaultNS = url
  BY SetDefault
<1>4. ScopeOf(pushPrefix(q, "", url)).defaultNS = pushPrefix(q, "", url).defaultNS
  BY DEF ScopeOf
<1> QED
  BY <1>2, <1>3, <1>4

\* After createNSPrefix a name of its name space can be written.
LEMMA CreateWritable ==
  ASSUME MaxNumber \in Nat, NEW q \in Printers, NEW url, Hinted(url), NEW isAttr \in BOOLEAN,
         isAttr => url # ""
  PROVE  Writable(createNSPrefix(q, url, isAttr), url, isAttr)
<1>1. PICK n : n = Numbered(q, Hint(url))
  OBVIOUS
<1>2. n.seq \in 1..MaxNumber + 1 /\ n.prefix = numberedPrefix(Hint(url), n.seq)
  BY <1>1, NumberedType
<1>3. url \in Texts /\ Hint(url) \in Texts /\ Hint(url) # ""
  BY DEF Hinted, Reserved
<1>4. n.prefix \in Texts /\ n.prefix # ""
  BY <1>2 DEF Hinted, Reserved
<1>5. PICK r \in Printers : r = [q EXCEPT !.seq = n.seq]
  BY <1>1, Renumbered
<1>6. PICK c : c = createNSPrefix(q, url, isAttr)
  OBVIOUS
<1>7. \/ /\ c = q
         /\ \/ url = xmlURL
            \/ url \in DOMAIN q.attrPrefix
            \/ ~isAttr /\ url = q.defaultNS
            \/ url = "" /\ q.defaultNS = ""
      \/ c = pushPrefix(q, "", "") /\ url = ""
      \/ c = pushPrefix(q, Hint(url), url) /\ url # ""
      \/ c = pushPrefix(r, n.prefix, url) /\ url # ""
  BY <1>1, <1>5, <1>6, CreateCases
<1>8. /\ pushPrefix(q, "", "").defaultNS = ""
      /\ url # "" => /\ url \in DOMAIN pushPrefix(q, Hint(url), url).attrPrefix
                     /\ url \in DOMAIN pushPrefix(r, n.prefix, url).attrPrefix
  BY <1>3, <1>4, Literals, PushDefaults, PushKnows
<1>9. Writable(c, url, isAttr)
  BY <1>7, <1>8 DEF Writable
<1> QED
  BY <1>6, <1>9

\* An attribute needs no prefix, or its name space has proper ones.
Suited(a) == a.name.space = "" \/ isNamespace(a.name) \/ Hinted(a.name.space)

\* What a start element asks for can be had: its declarations are XML's, and
\* the name spaces of its name and its attributes have proper prefixes.
Asked(name, attr) ==
  /\ name \in Names /\ Hinted(name.space) /\ attr \in Seq(AttrSet)
  /\ \A i \in DOMAIN attr :
       Declares(attr[i]) /\ Suited(attr[i])

\* The prefix of one attribute.
LEMMA NeededOpened ==
  ASSUME MaxNumber \in Nat, NEW q0 \in Printers, NEW u0, NEW q, Opened(q0, u0, q), NEW a,
         Suited(a)
  PROVE  Opened(q0, u0, neededBy(q, a))
<1>1. CASE a.name.space = "" \/ isNamespace(a.name)
  BY <1>1 DEF neededBy
<1>2. CASE ~(a.name.space = "" \/ isNamespace(a.name))
  <2>1. Hinted(a.name.space)
    BY <1>2 DEF Suited
  <2>2. Opened(q0, u0, createNSPrefix(q, a.name.space, TRUE))
    BY <2>1, CreateOpened
  <2> QED
    BY <1>2, <2>2 DEF neededBy
<1> QED
  BY <1>1, <1>2

-----------------------------------------------------------------------------
(* The prefixes of a start element while numbers last.                     *)

\* The printer c is q with one more declaration, of x as url.
Adds(q, x, url, c) ==
  /\ c \in Printers /\ c.tags = q.tags
  /\ c.prefixes = Append(q.prefixes, printerPrefix(x, nsForPrefix(q, x)))
  /\ printerPrefix(x, nsForPrefix(q, x)) \in Records
  /\ ScopeOf(c) = setAttrPrefix(ScopeOf(q), x, url)

\* So does pushPrefix.
LEMMA PushAdds ==
  ASSUME NEW q \in Printers, NEW prefix \in Texts, NEW url \in Texts
  PROVE  Adds(q, prefix, url, pushPrefix(q, prefix, url)) /\ pushPrefix(q, prefix, url).seq = q.seq
BY PushOfPrinter DEF Adds

\* As long as a number is left, createNSPrefix declares a prefix that was free,
\* or sets the default name space back, or has nothing to do.
LEMMA CreateAdds ==
  ASSUME MaxNumber \in Nat, NEW q \in Printers, NEW url, Hinted(url), NEW isAttr \in BOOLEAN,
         createNSPrefix(q, url, isAttr).seq <= MaxNumber
  PROVE  /\ q.seq <= MaxNumber
         /\ \/ createNSPrefix(q, url, isAttr) = q
            \/ url = "" /\ q.defaultNS # "" /\ Adds(q, "", "", createNSPrefix(q, url, isAttr))
            \/ /\ url # ""
               /\ \E x \in Texts : /\ x \notin Reserved /\ x \notin DOMAIN q.attrNS
                                   /\ Adds(q, x, url, createNSPrefix(q, url, isAttr))
<1>1. PICK n : n = Numbered(q, Hint(url))
  OBVIOUS
<1>2. /\ n.seq \in 1..MaxNumber + 1 /\ n.prefix = numberedPrefix(Hint(url), n.seq)
      /\ n.seq <= MaxNumber => q.seq < n.seq /\ n.prefix \notin DOMAIN q.attrNS
  BY <1>1, NumberedType
<1>3. url \in Texts /\ Hint(url) \in Texts /\ Hint(url) \notin Reserved
  BY DEF Hinted
<1>4. n.prefix \in Texts /\ n.prefix \notin Reserved
  BY <1>2 DEF Hinted
<1>5. PICK r \in Printers :
           /\ r = [q EXCEPT !.seq = n.seq] /\ ScopeOf(r) = ScopeOf(q) /\ r.seq = n.seq
           /\ r.attrNS = q.attrNS /\ r.prefixes = q.prefixes /\ r.tags = q.tags
  BY <1>1, Renumbered
<1>6. PICK c : c = createNSPrefix(q, url, isAttr)
  OBVIOUS
<1>7. \/ c = q
      \/ c = pushPrefix(q, "", "") /\ url = "" /\ q.defaultNS # ""
      \/ c = pushPrefix(q, Hint(url), url) /\ url # "" /\ Hint(url) \notin DOMAIN q.attrNS
      \/ c = pushPrefix(r, n.prefix, url) /\ url # ""
  <2>1. \/ createNSPrefix(q, url, isAttr) = q
        \/ createNSPrefix(q, url, isAttr) = pushPrefix(q, "", "") /\ url = "" /\ q.defaultNS # ""
        \/ /\ createNSPrefix(q, url, isAttr) = pushPrefix(q, Hint(url), url)
           /\ url # "" /\ Hint(url) \notin DOMAIN q.attrNS
        \/ /\ createNSPrefix(q, url, isAttr) =
                pushPrefix([q EXCEPT !.seq = Numbered(q, Hint(url)).seq],
                           Numbered(q, Hint(url)).prefix, url)
           /\ url # ""
    BY CreateCases
  <2> QED
    BY <1>1, <1>5, <1>6, <2>1
<1>8. c.seq <= MaxNumber /\ q.seq \in Nat
  BY <1>6 DEF Printers
<1>9. CASE c = q
  BY <1>6, <1>8, <1>9
<1>10. CASE c = pushPrefix(q, "", "") /\ url = "" /\ q.defaultNS # ""
  <2>1. Adds(q, "", "", c) /\ c.seq = q.seq
    BY <1>10, Literals, PushAdds
  <2> QED
    BY <1>6, <1>8, <1>10, <2>1
<1>11. CASE c = pushPrefix(q, Hint(url), url) /\ url # "" /\ Hint(url) \notin DOMAIN q.attrNS
  <2>1. Adds(q, Hint(url), url, c) /\ c.seq = q.seq
    BY <1>3, <1>11, PushAdds
  <2> QED
    BY <1>3, <1>6, <1>8, <1>11, <2>1
<1>12. CASE c = pushPrefix(r, n.prefix, url) /\ url # ""
  <2>1. Adds(r, n.prefix, url, c) /\ c.seq = r.seq
    BY <1>3, <1>4, <1>12, PushAdds
  <2>2. n.seq <= MaxNumber
    BY <1>5, <1>8, <2>1
  <2>3. q.seq < n.seq /\ n.prefix \notin DOMAIN q.attrNS
    BY <1>2, <2>2
  <2>4. nsForPrefix(r, n.prefix) = nsForPrefix(q, n.prefix)
    BY <1>5, ScopeLooks
  <2>5. Adds(q, n.prefix, url, c)
    BY <1>5, <2>1, <2>4 DEF Adds
  <2>6. q.seq <= MaxNumber
    BY <1>2, <1>8, <2>2, <2>3
  <2> QED
    BY <1>4, <1>6, <1>12, <2>3, <2>5, <2>6
<1> QED
  BY <1>7, <1>9, <1>10, <1>11, <1>12

\* A declaration of a free prefix takes no name space's prefix away.
LEMMA AddsKnows ==
  ASSUME NEW q \in Printers, Bijective(ScopeOf(q)), NEW x \in Texts, NEW url \in Texts,
         x = "" \/ (url # "" /\ x \notin DOMAIN q.attrNS), NEW c, Adds(q, x, url, c)
  PROVE  /\ \A z \in DOMAIN q.attrPrefix : z \in DOMAIN c.attrPrefix
         /\ c.defaultNS = IF x = "" THEN url ELSE q.defaultNS
<1>1. PICK s \in Scopes : s = ScopeOf(q)
  BY ScopeType
<1>2. s.attrPrefix = q.attrPrefix /\ s.attrNS = q.attrNS /\ s.defaultNS = q.defaultNS
  BY <1>1 DEF ScopeOf
<1>3. PICK t : t = setAttrPrefix(s, x, url) /\ t = ScopeOf(c)
  BY <1>1 DEF Adds
<1>4. t.attrPrefix = c.attrPrefix /\ t.defaultNS = c.defaultNS
  <2>1. ScopeOf(c).attrPrefix = c.attrPrefix /\ ScopeOf(c).defaultNS = c.defaultNS
    BY DEF ScopeOf
  <2> QED
    BY <1>3, <2>1
<1>5. CASE x = ""
  <2>1. t.attrPrefix = s.attrPrefix /\ t.defaultNS = url
    <3>1. /\ setAttrPrefix(s, "", url).attrPrefix = s.attrPrefix
          /\ setAttrPrefix(s, "", url).defaultNS = url
      BY SetDefault
    <3> QED
      BY <1>3, <1>5, <3>1
  <2> QED
    BY <1>2, <1>4, <1>5, <2>1
<1>6. CASE x # ""
  <2>1. url # "" /\ x \notin DOMAIN s.attrNS
    BY <1>2, <1>6
  <2>2. /\ t.defaultNS = s.defaultNS
        /\ t.attrPrefix = With(Without(s.attrPrefix, nsForPrefix(s, x)), url, x)
    <3>1. /\ setAttrPrefix(s, x, url).defaultNS = s.defaultNS
          /\ setAttrPrefix(s, x, url).attrPrefix =
               With(Without(s.attrPrefix, nsForPrefix(s, x)), url, x)
      BY <1>6, <2>1, SetPrefix
    <3> QED
      BY <1>3, <3>1
  <2>3. nsForPrefix(s, x) = ""
    BY <1>6, <2>1 DEF nsForPrefix
  <2>4. PICK f : f = Without(s.attrPrefix, "") /\ t.attrPrefix = With(f, url, x)
    BY <2>2, <2>3
  <2>5. \A z : z \in DOMAIN f <=> z \in DOMAIN s.attrPrefix /\ z # ""
    <3>1. \A z : z \in DOMAIN Without(s.attrPrefix, "") <=> z \in DOMAIN s.attrPrefix /\ z # ""
      BY WithoutEntry
    <3> QED
      BY <2>4, <3>1
  <2>6. \A z : z \in DOMAIN t.attrPrefix <=> z \in DOMAIN f \/ z = url
    <3>1. \A z : z \in DOMAIN With(f, url, x) <=> z \in DOMAIN f \/ z = url
      BY WithEntry
    <3> QED
      BY <2>4, <3>1
  <2>7. "" \notin DOMAIN s.attrPrefix
    BY <1>1 DEF Bijective
  <2>8. \A z \in DOMAIN s.attrPrefix : z \in DOMAIN t.attrPrefix
    BY <2>5, <2>6, <2>7
  <2> QED
    BY <1>2, <1>4, <1>6, <2>2, <2>8
<1> QED
  BY <1>5, <1>6

\* Is there a way to write this attribute?
Known(q, a) ==
  a.name.space = "" \/ isNamespace(a.name) \/ Writable(q, a.name.space, TRUE)

\* What createNSPrefix does takes no attribute its prefix.
LEMMA CreateKnows ==
  ASSUME MaxNumber \in Nat, NEW q \in Printers, Bijective(ScopeOf(q)), NEW url, Hinted(url),
         NEW isAttr \in BOOLEAN, createNSPrefix(q, url, isAttr).seq <= MaxNumber
  PROVE  \A a : Known(q, a) => Known(createNSPrefix(q, url, isAttr), a)
<1>1. PICK c : c = createNSPrefix(q, url, isAttr)
  OBVIOUS
<1>2. url \in Texts
  BY DEF Hinted
<1>3. \/ c = q
      \/ url = "" /\ q.defaultNS # "" /\ Adds(q, "", "", c)
      \/ /\ url # ""
         /\ \E x \in Texts : x \notin Reserved /\ x \notin DOMAIN q.attrNS /\ Adds(q, x, url, c)
  BY <1>1, CreateAdds
<1>4. \A z \in DOMAIN q.attrPrefix : z \in DOMAIN c.attrPrefix
  <2>1. CASE c = q
    BY <2>1
  <2>2. CASE Adds(q, "", "", c)
    BY <2>2, Literals, AddsKnows
  <2>3. CASE url # "" /\ \E x \in Texts : x \notin Reserved /\ x \notin DOMAIN q.attrNS /\ Adds(q, x, url, c)
    <3>1. PICK x \in Texts : x \notin DOMAIN q.attrNS /\ Adds(q, x, url, c)
      BY <2>3
    <3> QED
      BY <1>2, <2>3, <3>1, AddsKnows
  <2> QED
    BY <1>3, <2>1, <2>2, <2>3
<1> QED
  BY <1>1, <1>4 DEF Known, Writable

\* The prefix of one attribute: it is there, and no other attribute loses its
\* own.
LEMMA NeededKnows ==
  ASSUME MaxNumber \in Nat, NEW q \in Printers, Bijective(ScopeOf(q)), NEW a,
         Suited(a),
         neededBy(q, a).seq <= MaxNumber
  PROVE  /\ q.seq <= MaxNumber /\ Known(neededBy(q, a), a)
         /\ \A b : Known(q, b) => Known(neededBy(q, a), b)
<1>1. CASE a.name.space = "" \/ isNamespace(a.name)
  <2>1. neededBy(q, a) = q
    BY <1>1 DEF neededBy
  <2> QED
    BY <1>1, <2>1 DEF Known
<1>2. CASE ~(a.name.space = "" \/ isNamespace(a.name))
  <2>1. PICK url : url = a.name.space /\ url # ""
    BY <1>2
  <2>2. Hinted(url)
    BY <1>2, <2>1 DEF Suited
  <2>3. neededBy(q, a) = createNSPrefix(q, url, TRUE)
    BY <1>2, <2>1 DEF neededBy
  <2>4. createNSPrefix(q, url, TRUE).seq <= MaxNumber
    BY <2>3
  <2>5. q.seq <= MaxNumber
    BY <2>2, <2>4, CreateAdds
  <2>6. \A b : Known(q, b) => Known(createNSPrefix(q, url, TRUE), b)
    BY <2>2, <2>4, CreateKnows
  <2>7. Writable(createNSPrefix(q, url, TRUE), url, TRUE)
    BY <2>1, <2>2, CreateWritable
  <2>8. Known(neededBy(q, a), a)
    BY <2>1, <2>3, <2>7 DEF Known
  <2> QED
    BY <2>3, <2>5, <2>6, <2>8
<1> QED
  BY <1>1, <1>2

\* The prefixes of all of them.
LEMMA AllNeeded ==
  ASSUME MaxNumber \in Nat, NEW q0 \in Printers, NEW u0, NEW q, Opened(q0, u0, q),
         NEW attr \in Seq(AttrSet),
         \A i \in DOMAIN attr : Suited(attr[i])
  PROVE  /\ Opened(q0, u0, NeededBy(q, attr))
         /\ NeededBy(q, attr).seq <= MaxNumber =>
              \A i \in DOMAIN attr : Known(NeededBy(q, attr), attr[i])
<1>1. PICK N \in Nat : N = Len(attr) /\ DOMAIN attr = 1..N
  OBVIOUS
<1>2. PICK V : V = {r \in Printers : Opened(q0, u0, r)}
  OBVIOUS
<1>3. \A r : r \in V <=> Opened(q0, u0, r)
  BY <1>2 DEF Opened
<1>4. PICK G : G = [k \in 0..N |-> {r \in V : r.seq <= MaxNumber => \A i \in 1..k : Known(r, attr[i])}]
  OBVIOUS
<1>5. \A k \in 0..N : \A r : r \in G[k] <=>
        r \in V /\ (r.seq <= MaxNumber => \A i \in 1..k : Known(r, attr[i]))
  BY <1>4
<1>6. q \in V /\ q \in G[0]
  <2>1. 0 \in 0..N /\ \A i \in 1..0 : Known(q, attr[i])
    BY <1>1
  <2> QED
    BY <1>3, <1>5, <2>1
<1>7. ASSUME NEW r \in V, NEW i \in 1..N
      PROVE  neededBy(r, attr[i]) \in V
  <2>1. Suited(attr[i])
    BY <1>1
  <2>2. Opened(q0, u0, r)
    BY <1>3
  <2>3. Opened(q0, u0, neededBy(r, attr[i]))
    BY <2>1, <2>2, NeededOpened
  <2> QED
    BY <1>3, <2>3
<1>8. ASSUME NEW k \in 1..N, NEW r \in G[k - 1]
      PROVE  neededBy(r, attr[k]) \in G[k]
  <2>1. k \in 0..N /\ k - 1 \in 0..N /\ \A i \in 1..k : i = k \/ i \in 1..k - 1
    BY <1>1
  <2>2. r \in V /\ (r.seq <= MaxNumber => \A i \in 1..k - 1 : Known(r, attr[i]))
    BY <1>5, <2>1
  <2>3. PICK a : a = attr[k]
    OBVIOUS
  <2>4. PICK c : c = neededBy(r, a)
    OBVIOUS
  <2>5. c \in V
    BY <1>7, <2>2, <2>3, <2>4
  <2>6. ASSUME c.seq <= MaxNumber, NEW i \in 1..k
        PROVE  Known(c, attr[i])
    <3>1. Suited(a)
      BY <1>1, <2>3
    <3>2. r \in Printers /\ Bijective(ScopeOf(r))
      <4>1. Opened(q0, u0, r)
        BY <1>3, <2>2
      <4> QED
        BY <4>1, OpenedBijective
    <3>3. neededBy(r, a).seq <= MaxNumber
      BY <2>4, <2>6
    <3>4. /\ r.seq <= MaxNumber /\ Known(neededBy(r, a), a)
          /\ \A b : Known(r, b) => Known(neededBy(r, a), b)
      BY <3>1, <3>2, <3>3, NeededKnows
    <3> QED
      BY <2>1, <2>2, <2>3, <2>4, <3>4
  <2> QED
    BY <1>5, <2>1, <2>3, <2>4, <2>5, <2>6
<1>9. NeededBy(q, attr) \in G[N]
  <2>1. \A r \in V, i \in DOMAIN attr : neededBy(r, attr[i]) \in V
    BY <1>1, <1>7
  <2>2. \A k \in 1..Len(attr) : \A r \in G[k - 1] : neededBy(r, attr[k]) \in G[k]
    BY <1>1, <1>8
  <2>3. NeededBy(q, attr) \in G[Len(attr)]
    BY <1>6, <2>1, <2>2, NeededByReaches
  <2> QED
    BY <1>1, <2>3
<1>10. N \in 0..N
  BY <1>1
<1> QED
  BY <1>1, <1>3, <1>5, <1>9, <1>10

-----------------------------------------------------------------------------
(* The start and the end of an element.                                    *)

\* The printer that has marked an element it opens, before any declaration.
Opening(q, name) == markPrefix([q EXCEPT !.tags = Append(@, name)])

\* The mark changes no scope.
LEMMA MarkHistory ==
  ASSUME NEW q \in Printers, NEW u, History(u, q), NEW name \in Names
  PROVE  /\ Opening(q, name) \in Printers
         /\ Opening(q, name).prefixes = Append(q.prefixes, Mark)
         /\ Opening(q, name).tags = Append(q.tags, name)
         /\ Opening(q, name).seq = q.seq
         /\ ScopeOf(Opening(q, name)) = ScopeOf(q)
         /\ \E w : History(w, Opening(q, name)) /\ \A i \in 0..Len(q.prefixes) : w[i] = u[i]
<1>1. q.prefixes \in Seq(Records) /\ q.tags \in Seq(Names)
  BY DEF Printers
<1>2. PICK rec \in Records : rec = Mark /\ rec.mark = TRUE
  <2>1. Mark \in Records /\ Mark.mark = TRUE
    BY Literals DEF Records, Mark
  <2> QED
    BY <2>1
<1>3. PICK ap \in Seq(Records) : ap = Append(q.prefixes, rec)
  BY <1>1, Appended
<1>4. PICK at \in Seq(Names) : at = Append(q.tags, name)
  BY <1>1, Appended
<1>5. PICK m : m = [q EXCEPT !.tags = at]
  OBVIOUS
<1>6. PICK r : r = [m EXCEPT !.prefixes = ap]
  OBVIOUS
<1>7. /\ m \in Printers /\ m.prefixes = q.prefixes /\ m.tags = at /\ m.seq = q.seq
      /\ m.defaultNS = q.defaultNS /\ m.attrNS = q.attrNS /\ m.attrPrefix = q.attrPrefix
  BY <1>5 DEF Printers
<1>8. /\ r \in Printers /\ r.prefixes = ap /\ r.tags = at /\ r.seq = q.seq
      /\ r.defaultNS = q.defaultNS /\ r.attrNS = q.attrNS /\ r.attrPrefix = q.attrPrefix
  BY <1>6, <1>7 DEF Printers
<1>9. ScopeOf(r) = ScopeOf(q)
  BY <1>8 DEF ScopeOf
<1>10. r = Opening(q, name)
  <2>1. m = [q EXCEPT !.tags = Append(@, name)]
    BY <1>4, <1>5
  <2>2. [m EXCEPT !.prefixes = Append(@, Mark)] = r
    BY <1>2, <1>3, <1>6, <1>7
  <2> QED
    BY <2>1, <2>2 DEF Opening, markPrefix
<1>11. Bijective(ScopeOf(r))
  <2>1. PICK L \in Nat : L = Len(q.prefixes)
    BY <1>1
  <2>2. Bijective(u[L]) /\ u[L] = ScopeOf(q)
    BY <2>1 DEF History
  <2> QED
    BY <1>9, <2>2
<1>12. \E w : History(w, r) /\ \A i \in 0..Len(q.prefixes) : w[i] = u[i]
  <2>1. r.prefixes = Append(q.prefixes, rec)
    BY <1>3, <1>8
  <2>2. ScopeOf(q) = IF rec.mark THEN ScopeOf(r) ELSE setAttrPrefix(ScopeOf(r), rec.prefix, rec.url)
    BY <1>2, <1>9
  <2> QED
    BY <1>8, <1>11, <2>1, <2>2, HistoryGrows
<1> QED
  BY <1>2, <1>3, <1>4, <1>8, <1>9, <1>10, <1>12

\* The printer c has opened the element name, after q in the scopes u: the mark,
\* then declarations only, and a way to write the name and, while numbers last,
\* the attributes.
Begun(q, u, name, attr, c) ==
  \E w : /\ History(w, Opening(q, name))
         /\ \A i \in 0..Len(q.prefixes) : w[i] = u[i]
         /\ Opened(Opening(q, name), w, c)
         /\ Writable(c, name.space, FALSE)
         /\ c.seq <= MaxNumber => \A i \in DOMAIN attr : Known(c, attr[i])

\* So does the start of an element.
LEMMA PrefixedOpened ==
  ASSUME MaxNumber \in Nat, NEW q \in Printers, NEW u, History(u, q), NEW name, NEW attr,
         Asked(name, attr), NEW start, start.name = name, start.attr = attr
  PROVE  Begun(q, u, name, attr, Prefixed(q, start))
<1>1. name \in Names /\ Hinted(name.space) /\ attr \in Seq(AttrSet)
  BY DEF Asked
<1>2. PICK q0 \in Printers : q0 = Opening(q, name)
  BY <1>1, MarkHistory
<1>3. PICK w : History(w, q0) /\ \A i \in 0..Len(q.prefixes) : w[i] = u[i]
  BY <1>1, <1>2, MarkHistory
<1>4. PICK G : G = {r \in Printers : Opened(q0, w, r)}
  OBVIOUS
<1>5. \A r : r \in G <=> Opened(q0, w, r)
  BY <1>4 DEF Opened
<1>6. q0 \in G
  BY <1>3, <1>5, OpenedAtFirst
<1>7. PICK flag \in BOOLEAN : flag = (name.space = "")
  OBVIOUS
<1>8. PICK declared : declared = DeclaredBy(q0, attr, flag)
  OBVIOUS
<1>9. declared \in G
  <2>1. \A r \in G, i \in DOMAIN attr : defineNS(r, attr[i], flag) \in G
    <3> SUFFICES ASSUME NEW r \in G, NEW i \in DOMAIN attr
                 PROVE  Opened(q0, w, defineNS(r, attr[i], flag))
      BY <1>5
    <3>1. attr[i] \in AttrSet /\ Declares(attr[i])
      <4>1. attr[i] \in AttrSet
        BY <1>1
      <4>2. Declares(attr[i])
        BY DEF Asked
      <4> QED
        BY <4>1, <4>2
    <3>2. Opened(q0, w, r)
      BY <1>5
    <3> QED
      BY <3>1, <3>2, DefineOpened
  <2> QED
    BY <1>1, <1>6, <1>8, <2>1, DeclaredByKeeps
<1>10. PICK needed : needed = NeededBy(declared, attr)
  OBVIOUS
<1>11. /\ Opened(q0, w, needed)
       /\ needed.seq <= MaxNumber => \A i \in DOMAIN attr : Known(needed, attr[i])
  <2>1. Opened(q0, w, declared)
    BY <1>5, <1>9
  <2>2. \A i \in DOMAIN attr : Suited(attr[i])
    BY DEF Asked
  <2>3. /\ Opened(q0, w, NeededBy(declared, attr))
        /\ NeededBy(declared, attr).seq <= MaxNumber =>
             \A i \in DOMAIN attr : Known(NeededBy(declared, attr), attr[i])
    BY <1>1, <2>1, <2>2, AllNeeded
  <2> QED
    BY <1>10, <2>3
<1>12. needed \in Printers /\ Bijective(ScopeOf(needed))
  BY <1>11, OpenedBijective
<1>13. PICK c : c = createNSPrefix(needed, name.space, FALSE)
  OBVIOUS
<1>14. Prefixed(q, start) = c
  BY <1>2, <1>7, <1>8, <1>10, <1>13 DEF Prefixed, Opening
<1>15. Opened(q0, w, c) /\ Writable(c, name.space, FALSE)
  <2>1. Opened(q0, w, createNSPrefix(needed, name.space, FALSE))
    BY <1>1, <1>11, CreateOpened
  <2>2. Writable(createNSPrefix(needed, name.space, FALSE), name.space, FALSE)
    BY <1>1, <1>12, CreateWritable
  <2> QED
    BY <1>13, <2>1, <2>2
<1>16. ASSUME c.seq <= MaxNumber
       PROVE  \A i \in DOMAIN attr : Known(c, attr[i])
  <2>1. createNSPrefix(needed, name.space, FALSE).seq <= MaxNumber
    BY <1>13, <1>16
  <2>2. needed.seq <= MaxNumber
    BY <1>1, <1>12, <2>1, CreateAdds
  <2>3. \A b : Known(needed, b) => Known(createNSPrefix(needed, name.space, FALSE), b)
    BY <1>1, <1>12, <2>1, CreateKnows
  <2> QED
    BY <1>11, <1>13, <2>2, <2>3
<1>17. Begun(q, u, name, attr, c)
  BY <1>2, <1>3, <1>15, <1>16 DEF Begun
<1> QED
  BY <1>14, <1>17

\* The last mark of the undo records.
LastMark(q, m) ==
  /\ m \in 1..Len(q.prefixes) /\ q.prefixes[m].mark
  /\ \A i \in m + 1..Len(q.prefixes) : ~q.prefixes[i].mark

\* A part of a sequence.
LEMMA Part ==
  ASSUME NEW S, NEW s \in Seq(S), NEW m \in Nat, NEW n \in Nat, m <= n, n <= Len(s)
  PROVE  /\ SubSeq(s, m + 1, n) \in Seq(S) /\ Len(SubSeq(s, m + 1, n)) = n - m
         /\ \A i \in 1..n - m : SubSeq(s, m + 1, n)[i] = s[m + i]
OBVIOUS

\* What an element has declared is what is above the last mark.
LEMMA DeclaredRecords ==
  ASSUME NEW q \in Printers, NEW m, LastMark(q, m)
  PROVE  /\ m \in Nat /\ Declared(q) \in Seq(Records) /\ Len(Declared(q)) = Len(q.prefixes) - m
         /\ \A i \in 1..Len(Declared(q)) : Declared(q)[i] = q.prefixes[m + i]
<1>1. q.prefixes \in Seq(Records)
  BY DEF Printers
<1>2. PICK L \in Nat : L = Len(q.prefixes)
  BY <1>1
<1>3. m \in 1..L /\ q.prefixes[m].mark /\ \A i \in m + 1..L : ~q.prefixes[i].mark
  BY <1>2 DEF LastMark
<1>4. PICK I : I = {i \in 1..L : q.prefixes[i].mark}
  OBVIOUS
<1>5. I \in SUBSET (1..L) /\ m \in I
  BY <1>3, <1>4
<1>6. Max(I) \in I /\ m <= Max(I)
  <2>1. I # {}
    BY <1>5
  <2> QED
    BY <1>5, <2>1, Extremes
<1>7. Max(I) = m
  <2>1. PICK x : x = Max(I)
    OBVIOUS
  <2>2. x \in 1..L /\ q.prefixes[x].mark /\ m <= x
    BY <1>4, <1>6, <2>1
  <2>3. x \notin m + 1..L
    BY <1>3, <2>2
  <2> QED
    BY <1>3, <2>1, <2>2, <2>3
<1>8. SelectLastInSeq(q.prefixes, LAMBDA r : r.mark) = m
  <2>1. SelectLastInSeq(q.prefixes, LAMBDA r : r.mark) = IF I # {} THEN Max(I) ELSE 0
    BY <1>2, <1>4 DEF SelectLastInSeq
  <2>2. I # {}
    BY <1>5
  <2> QED
    BY <1>7, <2>1, <2>2
<1>9. Declared(q) = SubSeq(q.prefixes, m + 1, L)
  BY <1>2, <1>8 DEF Declared
<1>10. /\ SubSeq(q.prefixes, m + 1, L) \in Seq(Records)
       /\ Len(SubSeq(q.prefixes, m + 1, L)) = L - m
       /\ \A i \in 1..L - m : SubSeq(q.prefixes, m + 1, L)[i] = q.prefixes[m + i]
  BY <1>1, <1>2, <1>3, Part
<1> QED
  BY <1>2, <1>3, <1>9, <1>10

\* A record of a printer.
LEMMA RecordType ==
  ASSUME NEW q \in Printers, NEW i \in 1..Len(q.prefixes)
  PROVE  q.prefixes[i] \in Records /\ q.prefixes[i].prefix \in Texts /\ q.prefixes[i].url \in Texts
<1>1. q.prefixes[i] \in Records
  BY DEF Printers
<1> QED
  BY <1>1 DEF Records

\* The printer q1 is what is left of q, in the scopes u, below the height h.
PrinterBelow(q, u, h, q1) ==
  /\ q1 \in Printers /\ Len(q1.prefixes) = h
  /\ \A i \in 1..h : q1.prefixes[i] = q.prefixes[i]
  /\ ScopeOf(q1) = u[h]

\* popPrefix leads back to the scope below the last mark.
LEMMA PopHistory ==
  ASSUME NEW q \in Printers, NEW u, History(u, q), NEW m, LastMark(q, m)
  PROVE  /\ PrinterBelow(q, u, m - 1, popPrefix(q))
         /\ popPrefix(q).tags = q.tags /\ popPrefix(q).seq = q.seq
<1>1. q.prefixes \in Seq(Records)
  BY DEF Printers
<1>2. PICK L \in Nat : L = Len(q.prefixes)
  BY <1>1
<1>3. m \in 1..L /\ q.prefixes[m].mark /\ \A i \in m + 1..L : ~q.prefixes[i].mark
  BY <1>2 DEF LastMark
<1>4. PICK recs \in Seq(Records) : recs = Declared(q)
  BY DeclaredRecords
<1>5. Len(recs) = L - m /\ \A i \in 1..L - m : recs[i] = q.prefixes[m + i]
  BY <1>2, <1>4, DeclaredRecords
<1>6. PICK V : V = {r \in Printers : r.prefixes = q.prefixes /\ r.tags = q.tags /\ r.seq = q.seq}
  OBVIOUS
<1>7. PICK G : G = [k \in 0..L - m |-> {r \in V : ScopeOf(r) = u[m + k]}]
  OBVIOUS
<1>8. ASSUME NEW i \in 1..L - m
      PROVE  recs[i].prefix \in Texts /\ recs[i].url \in Texts /\ recs[i] = q.prefixes[m + i]
             /\ ~recs[i].mark
  <2>1. m + i \in 1..L /\ m + i \in m + 1..L /\ recs[i] = q.prefixes[m + i]
    BY <1>3, <1>5
  <2> QED
    BY <1>2, <1>3, <2>1, RecordType
<1>9. ASSUME NEW r \in V, NEW i \in 1..L - m
      PROVE  setAttrPrefix(r, recs[i].prefix, recs[i].url) \in V
  <2>1. r \in Printers /\ r.prefixes = q.prefixes /\ r.tags = q.tags /\ r.seq = q.seq
    BY <1>6
  <2>2. recs[i].prefix \in Texts /\ recs[i].url \in Texts
    BY <1>8
  <2>3. /\ setAttrPrefix(r, recs[i].prefix, recs[i].url) \in Printers
        /\ setAttrPrefix(r, recs[i].prefix, recs[i].url).prefixes = r.prefixes
        /\ setAttrPrefix(r, recs[i].prefix, recs[i].url).tags = r.tags
        /\ setAttrPrefix(r, recs[i].prefix, recs[i].url).seq = r.seq
    BY <2>1, <2>2, SetOfPrinter
  <2> QED
    BY <1>6, <2>1, <2>3
<1>10. ASSUME NEW k \in 1..L - m, NEW r \in G[k]
       PROVE  setAttrPrefix(r, recs[k].prefix, recs[k].url) \in G[k - 1]
  <2>1. r \in V /\ ScopeOf(r) = u[m + k] /\ r \in Printers
    BY <1>6, <1>7
  <2>2. m + k \in 1..L /\ (m + k) - 1 = m + (k - 1) /\ k - 1 \in 0..L - m
    BY <1>3
  <2>3. u[m + (k - 1)] = setAttrPrefix(u[m + k], recs[k].prefix, recs[k].url)
    <3>1. PICK j \in 1..L : j = m + k
      BY <2>2
    <3>2. u[j - 1] = IF q.prefixes[j].mark THEN u[j]
                     ELSE setAttrPrefix(u[j], q.prefixes[j].prefix, q.prefixes[j].url)
      BY <1>2 DEF History
    <3>3. q.prefixes[j] = recs[k] /\ ~recs[k].mark /\ j - 1 = m + (k - 1)
      BY <1>8, <2>2, <3>1
    <3> QED
      BY <3>1, <3>2, <3>3
  <2>4. recs[k].prefix \in Texts /\ recs[k].url \in Texts
    BY <1>8
  <2>5. ScopeOf(setAttrPrefix(r, recs[k].prefix, recs[k].url)) =
          setAttrPrefix(ScopeOf(r), recs[k].prefix, recs[k].url)
    BY <2>1, <2>4, SetOfPrinter
  <2>6. setAttrPrefix(r, recs[k].prefix, recs[k].url) \in V
    BY <1>9, <2>1
  <2>7. ScopeOf(setAttrPrefix(r, recs[k].prefix, recs[k].url)) = u[m + (k - 1)]
    BY <2>1, <2>3, <2>5
  <2>8. G[k - 1] = {x \in V : ScopeOf(x) = u[m + (k - 1)]}
    BY <1>7, <2>2
  <2> QED
    BY <2>6, <2>7, <2>8
<1>11. q \in V /\ q \in G[L - m]
  <2>1. q \in V
    BY <1>6
  <2>2. L - m \in 0..L - m /\ m + (L - m) = L
    BY <1>3
  <2>3. u[L] = ScopeOf(q)
    BY <1>2 DEF History
  <2>4. G[L - m] = {x \in V : ScopeOf(x) = u[L]}
    BY <1>7, <2>2
  <2> QED
    BY <2>1, <2>3, <2>4
<1>12. Undone(q, recs) \in G[0]
  <2>1. q \in G[Len(recs)]
    BY <1>5, <1>11
  <2>2. \A r \in V, i \in DOMAIN recs : setAttrPrefix(r, recs[i].prefix, recs[i].url) \in V
    BY <1>5, <1>9
  <2>3. \A k \in 1..Len(recs) : \A r \in G[k] :
          setAttrPrefix(r, recs[k].prefix, recs[k].url) \in G[k - 1]
    BY <1>5, <1>10
  <2> QED
    BY <1>11, <2>1, <2>2, <2>3, UndoneKeeps
<1>13. PICK x \in Printers :
            /\ x = Undone(q, recs) /\ ScopeOf(x) = u[m] /\ x.prefixes = q.prefixes
            /\ x.tags = q.tags /\ x.seq = q.seq
  <2>1. 0 \in 0..L - m /\ m + 0 = m
    BY <1>3
  <2>2. G[0] = {r \in V : ScopeOf(r) = u[m]}
    BY <1>7, <2>1
  <2> QED
    BY <1>6, <1>12, <2>2
<1>14. u[m] = u[m - 1]
  <2>1. u[m - 1] = IF q.prefixes[m].mark THEN u[m]
                   ELSE setAttrPrefix(u[m], q.prefixes[m].prefix, q.prefixes[m].url)
    BY <1>2, <1>3 DEF History
  <2> QED
    BY <1>3, <2>1
<1>15. PICK front \in Seq(Records) :
            front = SubSeq(q.prefixes, 1, m - 1) /\ Len(front) = m - 1
            /\ \A i \in 1..m - 1 : front[i] = q.prefixes[i]
  <2>1. /\ SubSeq(q.prefixes, 0 + 1, m - 1) \in Seq(Records)
        /\ Len(SubSeq(q.prefixes, 0 + 1, m - 1)) = (m - 1) - 0
        /\ \A i \in 1..(m - 1) - 0 : SubSeq(q.prefixes, 0 + 1, m - 1)[i] = q.prefixes[0 + i]
    <3>1. m - 1 \in Nat /\ 0 \in Nat /\ 0 <= m - 1 /\ m - 1 <= Len(q.prefixes)
      BY <1>2, <1>3
    <3> QED
      BY <1>1, <3>1, Part
  <2>2. PICK front : front = SubSeq(q.prefixes, 1, m - 1)
    OBVIOUS
  <2>3. front = SubSeq(q.prefixes, 0 + 1, m - 1) /\ (m - 1) - 0 = m - 1
    BY <1>3, <2>2
  <2>4. front \in Seq(Records) /\ Len(front) = m - 1
    BY <2>1, <2>3
  <2>5. \A i \in 1..m - 1 : front[i] = q.prefixes[i]
    BY <1>3, <2>1, <2>3
  <2> QED
    BY <2>2, <2>4, <2>5
<1>16. PICK y : y = [x EXCEPT !.prefixes = front]
  OBVIOUS
<1>17. y \in Printers /\ y.tags = q.tags /\ y.seq = q.seq /\ y.prefixes = front
       /\ y.defaultNS = x.defaultNS /\ y.attrNS = x.attrNS /\ y.attrPrefix = x.attrPrefix
  BY <1>13, <1>16 DEF Printers
<1>18. ScopeOf(y) = ScopeOf(x)
  BY <1>17 DEF ScopeOf
<1>19. popPrefix(q) = y
  <2>1. SubSeq(x.prefixes, 1, Len(x.prefixes) - Len(recs) - 1) = front
    <3>1. Len(x.prefixes) - Len(recs) - 1 = m - 1
      BY <1>2, <1>3, <1>5, <1>13
    <3> QED
      BY <1>13, <1>15, <3>1
  <2>2. popPrefix(q) = [x EXCEPT !.prefixes = SubSeq(@, 1, Len(@) - Len(recs) - 1)]
    BY <1>4, <1>13 DEF popPrefix
  <2>3. [x EXCEPT !.prefixes = SubSeq(@, 1, Len(@) - Len(recs) - 1)] =
          [x EXCEPT !.prefixes = SubSeq(x.prefixes, 1, Len(x.prefixes) - Len(recs) - 1)]
    OBVIOUS
  <2> QED
    BY <1>16, <2>1, <2>2, <2>3
<1>20. PrinterBelow(q, u, m - 1, y)
  BY <1>13, <1>14, <1>15, <1>17, <1>18 DEF PrinterBelow
<1> QED
  BY <1>17, <1>19, <1>20

-----------------------------------------------------------------------------
(* What is written for a start element.                                    *)

\* One turn of writeAttrs.
written(q, s, a) ==
  IF a.name.local = << >> \/ isNamespace(a.name) THEN s
  ELSE Append(s, AttrText(writeName(q, a.name, TRUE), a.value))

\* writeAttrs loops over the attributes in their order.
LEMMA WriteAttrsKeeps ==
  ASSUME NEW q, NEW V, << >> \in V, NEW attr \in Seq(AttrSet),
         \A r \in V, i \in DOMAIN attr : written(q, r, attr[i]) \in V,
         NEW G, << >> \in G[0],
         \A k \in 1..Len(attr) : \A r \in G[k - 1] : written(q, r, attr[k]) \in G[k]
  PROVE  writeAttrs(q, attr) \in G[Len(attr)]
<1> DEFINE Iter(g) ==
      g = [S \in SUBSET DOMAIN attr |->
             IF S = {} THEN << >> ELSE written(q, g[S \ {Max(S)}], attr[Max(S)])]
<1>1. PICK N \in Nat : N = Len(attr) /\ DOMAIN attr = 1..N
  OBVIOUS
<1>2. \E g : Iter(g)
  <2>1. PICK F \in [V \X (1..N) -> V] :
               \A r \in V, i \in 1..N : F[<< r, i >>] = written(q, r, attr[i])
    <3> DEFINE F == [x \in V \X (1..N) |-> written(q, x[1], attr[x[2]])]
    <3>1. F \in [V \X (1..N) -> V]
      BY <1>1
    <3>2. \A r \in V, i \in 1..N : F[<< r, i >>] = written(q, r, attr[i])
      OBVIOUS
    <3> HIDE DEF F
    <3> QED
      BY <3>1, <3>2
  <2>2. PICK g \in [SUBSET (1..N) -> V] :
               IsFold(g, N, << >>, F, [S \in SUBSET (1..N) |-> Max(S)])
    BY LeftFoldExists
  <2>3. \A S \in SUBSET (1..N) :
          S # {} => F[<< g[S \ {Max(S)}], Max(S) >>] = written(q, g[S \ {Max(S)}], attr[Max(S)])
    BY <2>1, Extremes
  <2>4. Iter(g)
    BY <1>1, <2>2, <2>3 DEF IsFold
  <2> QED
    BY <2>4
<1>3. PICK it : it = CHOOSE g : Iter(g)
  OBVIOUS
<1>4. Iter(it)
  BY <1>2, <1>3
<1>5. writeAttrs(q, attr) = it[DOMAIN attr]
  BY <1>3 DEF writeAttrs, written, FoldLeft, MapThenFoldSet
<1>6. it[{}] = << >>
  BY <1>4
<1>7. ASSUME NEW k \in 1..N
      PROVE  it[1..k] = written(q, it[1..k - 1], attr[k])
  <2>1. 1..k # {} /\ Max(1..k) = k /\ (1..k) \ {k} = 1..k - 1
    BY LastOf
  <2>2. 1..k \in SUBSET DOMAIN attr
    BY <1>1
  <2>3. it[1..k] = written(q, it[(1..k) \ {Max(1..k)}], attr[Max(1..k)])
    BY <1>4, <2>1, <2>2
  <2> QED
    BY <2>1, <2>3
<1> HIDE DEF Iter
<1>8. \A k \in 1..N : it[1..k - 1] \in G[k - 1] => it[1..k] \in G[k]
  BY <1>1, <1>7
<1>9. it[1..N] \in G[N]
  BY <1>6, <1>8, LeftChain
<1> QED
  BY <1>1, <1>5, <1>9

\* The qualified name a declaration is written with.
declName(x) == IF x = "" THEN << "xmlns" >> ELSE << "xmlns", x >>

\* The declarations an element is written with, the last first: each gives its
\* prefix what the prefix stands for in the end.
LEMMA WrittenNamespaces ==
  ASSUME NEW q \in Printers, NEW m, LastMark(q, m)
  PROVE  /\ Len(q.prefixes) - m \in Nat
         /\ writeNamespaces(q) =
              [i \in 1..Len(q.prefixes) - m |->
                 AttrText(declName(q.prefixes[(Len(q.prefixes) + 1) - i].prefix),
                          nsForPrefix(q, q.prefixes[(Len(q.prefixes) + 1) - i].prefix))]
<1>1. PICK L \in Nat : L = Len(q.prefixes)
  BY DEF Printers
<1>2. m \in 1..L /\ L - m \in Nat
  BY <1>1 DEF LastMark
<1>3. PICK recs \in Seq(Records) :
           /\ recs = Declared(q) /\ Len(recs) = L - m /\ \A i \in 1..L - m : recs[i] = q.prefixes[m + i]
  BY <1>1, DeclaredRecords
<1>4. PICK back : back = Reverse(recs)
  OBVIOUS
<1>5. back = [i \in 1..L - m |-> q.prefixes[(L + 1) - i]]
  <2>1. back = [i \in 1..L - m |-> recs[(L - m) - i + 1]]
    BY <1>3, <1>4 DEF Reverse
  <2>2. \A i \in 1..L - m : recs[(L - m) - i + 1] = q.prefixes[(L + 1) - i]
    <3> SUFFICES ASSUME NEW i \in 1..L - m
                 PROVE  recs[(L - m) - i + 1] = q.prefixes[(L + 1) - i]
      OBVIOUS
    <3>1. PICK j \in 1..L - m : j = (L - m) - i + 1 /\ m + j = (L + 1) - i
      BY <1>2
    <3> QED
      BY <1>3, <3>1
  <2> QED
    BY <2>1, <2>2
<1>6. writeNamespaces(q) =
        [i \in DOMAIN back |->
           AttrText(declName(back[i].prefix), nsForPrefix(q, back[i].prefix))]
  BY <1>3, <1>4 DEF writeNamespaces, declName
<1>7. DOMAIN back = 1..L - m /\ \A i \in 1..L - m : back[i] = q.prefixes[(L + 1) - i]
  BY <1>5
<1> QED
  BY <1>1, <1>2, <1>6, <1>7
=============================================================================
