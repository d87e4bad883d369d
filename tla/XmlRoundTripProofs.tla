-------------------------- MODULE XmlRoundTripProofs --------------------------
(***************************************************************************)
(* What XmlRoundTrip promises of the printer and the decoder, for every    *)
(* sequence of tokens: their stacks describe the same open elements, and   *)
(* they are in the same scope.                                             *)
(***************************************************************************)
EXTENDS XmlRoundTrip, XmlPrinterProofs, SequenceTheorems

-----------------------------------------------------------------------------
(* What the fields of the decoder hold, and its loops.                     *)

\* The entries of the stack: open elements and undo records.
Entries ==
  [kind : {"Start"}, name : Names]
    \cup [kind : {"Ns"}, prefix : Texts, url : Texts, ok : BOOLEAN]

\* A decoder that reads what the printer writes has no error, and no end tag to
\* make up.
Readers ==
  [stk : Seq(Entries), ns : PartialMaps, needClose : {FALSE}, toClose : {Name("", << >>)},
   err : {"nil"}]

\* pushAllNs loops over the attributes in their order, one pushNs each.
LEMMA PushAllNsKeeps ==
  ASSUME NEW V, NEW r0 \in V, NEW attr \in Seq(AttrSet),
         \A r \in V, i \in DOMAIN attr : pushNs(r, attr[i]) \in V,
         NEW G, r0 \in G[0],
         \A k \in 1..Len(attr) : \A r \in G[k - 1] : pushNs(r, attr[k]) \in G[k]
  PROVE  pushAllNs(r0, attr) \in G[Len(attr)]
<1> DEFINE Iter(g) ==
      g = [S \in SUBSET DOMAIN attr |->
             IF S = {} THEN r0 ELSE pushNs(g[S \ {Max(S)}], attr[Max(S)])]
<1>1. PICK N \in Nat : N = Len(attr) /\ DOMAIN attr = 1..N
  OBVIOUS
<1>2. \E g : Iter(g)
  <2>1. PICK F \in [V \X (1..N) -> V] :
               \A r \in V, i \in 1..N : F[<< r, i >>] = pushNs(r, attr[i])
    <3> DEFINE F == [x \in V \X (1..N) |-> pushNs(x[1], attr[x[2]])]
    <3>1. F \in [V \X (1..N) -> V]
      BY <1>1
    <3>2. \A r \in V, i \in 1..N : F[<< r, i >>] = pushNs(r, attr[i])
      OBVIOUS
    <3> HIDE DEF F
    <3> QED
      BY <3>1, <3>2
  <2>2. PICK g \in [SUBSET (1..N) -> V] :
               IsFold(g, N, r0, F, [S \in SUBSET (1..N) |-> Max(S)])
    BY LeftFoldExists
  <2>3. \A S \in SUBSET (1..N) :
          S # {} => F[<< g[S \ {Max(S)}], Max(S) >>] = pushNs(g[S \ {Max(S)}], attr[Max(S)])
    BY <2>1, Extremes
  <2>4. Iter(g)
    BY <1>1, <2>2, <2>3 DEF IsFold
  <2> QED
    BY <2>4
<1>3. PICK it : it = CHOOSE g : Iter(g)
  OBVIOUS
<1>4. Iter(it)
  BY <1>2, <1>3
<1>5. pushAllNs(r0, attr) = it[DOMAIN attr]
  BY <1>3 DEF pushAllNs, FoldLeft, MapThenFoldSet
<1>6. it[{}] = r0
  BY <1>4
<1>7. ASSUME NEW k \in 1..N
      PROVE  it[1..k] = pushNs(it[1..k - 1], attr[k])
  <2>1. 1..k # {} /\ Max(1..k) = k /\ (1..k) \ {k} = 1..k - 1
    BY LastOf
  <2>2. 1..k \in SUBSET DOMAIN attr
    BY <1>1
  <2>3. it[1..k] = pushNs(it[(1..k) \ {Max(1..k)}], attr[Max(1..k)])
    BY <1>4, <2>1, <2>2
  <2> QED
    BY <2>1, <2>3
<1> HIDE DEF Iter
<1>8. \A k \in 1..N : it[1..k - 1] \in G[k - 1] => it[1..k] \in G[k]
  BY <1>1, <1>7
<1>9. it[1..N] \in G[N]
  BY <1>6, <1>8, LeftChain
<1> QED
  BY <1>1, <1>5, <1>9

\* UndoAll loops over the undo records of the decoder, the last first.
LEMMA UndoAllKeeps ==
  ASSUME NEW V, NEW m0 \in V, NEW records \in Seq(Entries),
         \A m \in V, i \in DOMAIN records : Undo(m, records[i]) \in V,
         NEW G, m0 \in G[Len(records)],
         \A k \in 1..Len(records) : \A m \in G[k] : Undo(m, records[k]) \in G[k - 1]
  PROVE  UndoAll(m0, records) \in G[0]
<1> DEFINE Iter(g) ==
      g = [S \in SUBSET DOMAIN records |->
             IF S = {} THEN m0 ELSE Undo(g[S \ {Min(S)}], records[Min(S)])]
<1>1. PICK N \in Nat : N = Len(records) /\ DOMAIN records = 1..N
  OBVIOUS
<1>2. \E g : Iter(g)
  <2>1. PICK F \in [V \X (1..N) -> V] :
               \A m \in V, i \in 1..N : F[<< m, i >>] = Undo(m, records[i])
    <3> DEFINE F == [x \in V \X (1..N) |-> Undo(x[1], records[x[2]])]
    <3>1. F \in [V \X (1..N) -> V]
      BY <1>1
    <3>2. \A m \in V, i \in 1..N : F[<< m, i >>] = Undo(m, records[i])
      OBVIOUS
    <3> HIDE DEF F
    <3> QED
      BY <3>1, <3>2
  <2>2. PICK g \in [SUBSET (1..N) -> V] :
               IsFold(g, N, m0, F, [S \in SUBSET (1..N) |-> Min(S)])
    BY RightFoldExists
  <2>3. \A S \in SUBSET (1..N) :
          S # {} => F[<< g[S \ {Min(S)}], Min(S) >>] = Undo(g[S \ {Min(S)}], records[Min(S)])
    BY <2>1, Extremes
  <2>4. Iter(g)
    BY <1>1, <2>2, <2>3 DEF IsFold
  <2> QED
    BY <2>4
<1>3. PICK it : it = CHOOSE g : Iter(g)
  OBVIOUS
<1>4. Iter(it)
  BY <1>2, <1>3
<1>5. UndoAll(m0, records) = it[DOMAIN records]
  BY <1>3 DEF UndoAll, FoldRight, MapThenFoldSet
<1>6. it[{}] = m0
  BY <1>4
<1>7. ASSUME NEW k \in 1..N
      PROVE  it[k..N] = Undo(it[k + 1..N], records[k])
  <2>1. k..N # {} /\ Min(k..N) = k /\ (k..N) \ {k} = k + 1..N
    <3>1. PICK j \in Nat : j = k - 1
      OBVIOUS
    <3>2. j < N /\ j + 1 = k /\ j + 2 = k + 1
      BY <3>1
    <3>3. j + 1..N # {} /\ Min(j + 1..N) = j + 1 /\ (j + 1..N) \ {j + 1} = j + 2..N
      BY <3>2, FirstOf
    <3> QED
      BY <3>2, <3>3
  <2>2. k..N \in SUBSET DOMAIN records
    BY <1>1
  <2>3. it[k..N] = Undo(it[(k..N) \ {Min(k..N)}], records[Min(k..N)])
    BY <1>4, <2>1, <2>2
  <2> QED
    BY <2>1, <2>3
<1> HIDE DEF Iter
<1>8. \A k \in 1..N : it[k + 1..N] \in G[k] => it[k..N] \in G[k - 1]
  BY <1>1, <1>7
<1>9. it[1..N] \in G[0]
  BY <1>1, <1>6, <1>8, RightChain
<1> QED
  BY <1>1, <1>5, <1>9

\* The stack and the map of such a decoder.
LEMMA ReaderType ==
  ASSUME NEW r \in Readers
  PROVE  r.stk \in Seq(Entries) /\ Len(r.stk) \in Nat /\ r.ns \in PartialMaps
<1>1. r.stk \in Seq(Entries) /\ r.ns \in PartialMaps
  BY DEF Readers
<1> QED
  BY <1>1

-----------------------------------------------------------------------------
(* The decoder's scope and its history.                                    *)

\* What a prefix stands for.
Means(ns, x) == IF x \in DOMAIN ns THEN ns[x] ELSE ""

\* Undoing a declaration gives the map that was there before.
LEMMA UndoWith ==
  ASSUME NEW ns \in PartialMaps, NEW prefix \in Texts, NEW url \in Texts
  PROVE  Undo(With(ns, prefix, url), StkNs(prefix, Means(ns, prefix), prefix \in DOMAIN ns)) = ns
<1>1. PICK f \in PartialMaps : f = With(ns, prefix, url)
  BY WithType
<1>2. /\ \A z : z \in DOMAIN f <=> z \in DOMAIN ns \/ z = prefix
      /\ \A z \in DOMAIN ns : z # prefix => f[z] = ns[z]
  BY <1>1, WithEntry
<1>3. CASE prefix \in DOMAIN ns
  <2>1. Undo(f, StkNs(prefix, Means(ns, prefix), prefix \in DOMAIN ns)) = With(f, prefix, ns[prefix])
    BY <1>3 DEF Undo, StkNs, Means
  <2>2. ns[prefix] \in Texts
    BY <1>3, Values
  <2>3. PICK g \in PartialMaps : g = With(f, prefix, ns[prefix])
    BY <2>2, WithType
  <2>4. /\ (\A z : z \in DOMAIN g <=> z \in DOMAIN f \/ z = prefix) /\ g[prefix] = ns[prefix]
        /\ \A z \in DOMAIN f : z # prefix => g[z] = f[z]
    BY <2>3, WithEntry
  <2>5. DOMAIN g = DOMAIN ns /\ \A z \in DOMAIN g : g[z] = ns[z]
    BY <1>2, <1>3, <2>4
  <2>6. g = ns
    BY <2>5, SameMap
  <2> QED
    BY <1>1, <2>1, <2>3, <2>6
<1>4. CASE prefix \notin DOMAIN ns
  <2>1. Undo(f, StkNs(prefix, Means(ns, prefix), prefix \in DOMAIN ns)) = Without(f, prefix)
    BY <1>4 DEF Undo, StkNs
  <2>2. PICK g \in PartialMaps : g = Without(f, prefix)
    BY WithoutType
  <2>3. /\ \A z : z \in DOMAIN g <=> z \in DOMAIN f /\ z # prefix
        /\ \A z \in DOMAIN f : z # prefix => g[z] = f[z]
    BY <2>2, WithoutEntry
  <2>4. DOMAIN g = DOMAIN ns /\ \A z \in DOMAIN g : g[z] = ns[z]
    BY <1>2, <1>4, <2>3
  <2>5. g = ns
    BY <2>4, SameMap
  <2> QED
    BY <1>1, <2>1, <2>2, <2>5
<1> QED
  BY <1>3, <1>4

\* The scopes w the decoder has been in: w[i] below the entry i + 1 of its
\* stack.
Past(w, r) ==
  /\ w \in [0..Len(r.stk) -> PartialMaps]
  /\ w[0] = << >> /\ w[Len(r.stk)] = r.ns
  /\ \A i \in 1..Len(r.stk) :
       w[i - 1] = IF r.stk[i].kind = "Ns" THEN Undo(w[i], r.stk[i]) ELSE w[i]

\* An entry on top of the others, and the scope above it, continue it.
LEMMA PastGrows ==
  ASSUME NEW q \in Readers, NEW u, Past(u, q), NEW r \in Readers, NEW e \in Entries,
         r.stk = Append(q.stk, e), q.ns = IF e.kind = "Ns" THEN Undo(r.ns, e) ELSE r.ns
  PROVE  \E w : Past(w, r) /\ \A i \in 0..Len(q.stk) : w[i] = u[i]
<1>1. q.stk \in Seq(Entries) /\ r.ns \in PartialMaps
  BY DEF Readers
<1>2. PICK L \in Nat : L = Len(q.stk)
  BY <1>1
<1>3. /\ Len(r.stk) = L + 1 /\ r.stk[L + 1] = e
      /\ \A i \in 1..L : r.stk[i] = q.stk[i]
  BY <1>1, <1>2, Appended
<1>4. PICK w : w = [i \in 0..L + 1 |-> IF i = L + 1 THEN r.ns ELSE u[i]]
  OBVIOUS
<1>5. /\ u \in [0..L -> PartialMaps] /\ u[0] = << >> /\ u[L] = q.ns
      /\ \A i \in 1..L : u[i - 1] = IF q.stk[i].kind = "Ns" THEN Undo(u[i], q.stk[i]) ELSE u[i]
  BY <1>2 DEF Past
<1>6. (\A i \in 0..L : w[i] = u[i]) /\ w[L + 1] = r.ns
  BY <1>4
<1>7. w \in [0..L + 1 -> PartialMaps]
  BY <1>1, <1>4, <1>5
<1>8. w[0] = << >>
  BY <1>5, <1>6
<1>9. ASSUME NEW i \in 1..L + 1
      PROVE  w[i - 1] = IF r.stk[i].kind = "Ns" THEN Undo(w[i], r.stk[i]) ELSE w[i]
  <2>1. CASE i = L + 1
    <3>1. w[i - 1] = q.ns /\ w[i] = r.ns /\ r.stk[i] = e
      BY <1>3, <1>5, <1>6, <2>1
    <3> QED
      BY <3>1
  <2>2. CASE i # L + 1
    <3>1. i \in 1..L /\ w[i - 1] = u[i - 1] /\ w[i] = u[i] /\ r.stk[i] = q.stk[i]
      <4>1. i \in 1..L /\ i \in 0..L /\ i - 1 \in 0..L
        BY <2>2
      <4> QED
        BY <1>3, <1>6, <4>1
    <3> QED
      BY <1>5, <3>1
  <2> QED
    BY <2>1, <2>2
<1>10. Past(w, r)
  BY <1>3, <1>6, <1>7, <1>8, <1>9 DEF Past
<1> QED
  BY <1>2, <1>6, <1>10

\* Does this attribute declare the prefix x, or the default name space when x
\* is empty?
Declaring(a, x) ==
  \/ a.name.space = "xmlns" /\ a.name.local # << >> /\ x = Head(a.name.local)
  \/ a.name.space # "xmlns" /\ a.name = Name("", << "xmlns" >>) /\ x = ""

\* One declaration on the decoder's side: an undo record and a new meaning.
LEMMA PushNs ==
  ASSUME NEW r \in Readers, NEW a \in AttrSet, NEW x, Declaring(a, x)
  PROVE  /\ x \in Texts /\ pushNs(r, a) \in Readers
         /\ StkNs(x, Means(r.ns, x), x \in DOMAIN r.ns) \in Entries
         /\ pushNs(r, a).stk = Append(r.stk, StkNs(x, Means(r.ns, x), x \in DOMAIN r.ns))
         /\ pushNs(r, a).ns = With(r.ns, x, a.value)
<1>1. a.value \in Texts /\ a.name \in Names
  BY DEF AttrSet
<1>2. a.name.local \in Seq(Texts)
  BY <1>1 DEF Names
<1>3. x \in Texts
  BY <1>2, FirstPart, Literals DEF Declaring
<1>4. r.ns \in PartialMaps /\ r.stk \in Seq(Entries)
  BY DEF Readers
<1>5. Means(r.ns, x) \in Texts
  BY <1>4, Values, Literals DEF Means
<1>6. StkNs(x, Means(r.ns, x), x \in DOMAIN r.ns) \in Entries
  BY <1>3, <1>5 DEF StkNs, Entries
<1>7. PICK e \in Entries : e = StkNs(x, Means(r.ns, x), x \in DOMAIN r.ns)
  BY <1>6
<1>8. PICK as \in Seq(Entries) : as = Append(r.stk, e)
  BY <1>4, Appended
<1>9. PICK m \in PartialMaps : m = With(r.ns, x, a.value)
  BY <1>1, <1>3, <1>4, WithType
<1>10. PICK prefix : prefix = IF a.name.space = "xmlns" THEN Head(a.name.local) ELSE ""
  OBVIOUS
<1>11. prefix = x
  BY <1>10 DEF Declaring
<1>12. a.name.space = "xmlns" \/ a.name = Name("", << "xmlns" >>)
  BY DEF Declaring
<1>13. pushNs(r, a) = [r EXCEPT !.stk = Append(@, StkNs(prefix, IF prefix \in DOMAIN r.ns THEN r.ns[prefix] ELSE "",
                                                        prefix \in DOMAIN r.ns)),
                                !.ns  = With(@, prefix, a.value)]
  BY <1>10, <1>12 DEF pushNs
<1>14. e = StkNs(prefix, IF prefix \in DOMAIN r.ns THEN r.ns[prefix] ELSE "", prefix \in DOMAIN r.ns)
  BY <1>7, <1>11 DEF Means
<1>15. m = With(r.ns, prefix, a.value)
  BY <1>9, <1>11
<1>16. pushNs(r, a) = [r EXCEPT !.stk = as, !.ns = m]
  BY <1>8, <1>13, <1>14, <1>15
<1>17. pushNs(r, a) \in Readers /\ pushNs(r, a).stk = as /\ pushNs(r, a).ns = m
  BY <1>16 DEF Readers
<1> QED
  BY <1>3, <1>6, <1>7, <1>8, <1>9, <1>17

\* The decoder r has read declarations only since it was r0 in the scopes w0.
Listening(r0, w0, r) ==
  /\ r \in Readers
  /\ Len(r0.stk) <= Len(r.stk)
  /\ \A i \in 1..Len(r0.stk) : r.stk[i] = r0.stk[i]
  /\ \A i \in Len(r0.stk) + 1..Len(r.stk) : r.stk[i].kind = "Ns"
  /\ \E w : Past(w, r) /\ \A i \in 0..Len(r0.stk) : w[i] = w0[i]

\* At first nothing is read.
LEMMA ListeningAtFirst ==
  ASSUME NEW r \in Readers, NEW w, Past(w, r)
  PROVE  Listening(r, w, r)
<1>1. PICK L \in Nat : L = Len(r.stk)
  BY ReaderType
<1>2. \A i \in L + 1..L : r.stk[i].kind = "Ns"
  OBVIOUS
<1>3. \E u : Past(u, r) /\ \A i \in 0..Len(r.stk) : u[i] = w[i]
  OBVIOUS
<1> QED
  BY <1>1, <1>2, <1>3 DEF Listening

\* One more declaration is read.
LEMMA ListeningPush ==
  ASSUME NEW r0 \in Readers, NEW w0, NEW r, Listening(r0, w0, r), NEW a \in AttrSet, NEW x,
         Declaring(a, x)
  PROVE  Listening(r0, w0, pushNs(r, a))
<1>1. r \in Readers
  BY DEF Listening
<1>2. PICK L0 \in Nat : L0 = Len(r0.stk)
  BY ReaderType
<1>3. PICK L \in Nat : L = Len(r.stk)
  BY <1>1, ReaderType
<1>4. PICK e \in Entries : e = StkNs(x, Means(r.ns, x), x \in DOMAIN r.ns)
  BY <1>1, PushNs
<1>5. PICK v \in Readers : v = pushNs(r, a) /\ v.stk = Append(r.stk, e) /\ v.ns = With(r.ns, x, a.value)
  BY <1>1, <1>4, PushNs
<1>6. /\ Len(v.stk) = L + 1 /\ v.stk[L + 1] = e
      /\ \A i \in 1..L : v.stk[i] = r.stk[i]
  <2>1. r.stk \in Seq(Entries)
    BY <1>1 DEF Readers
  <2> QED
    BY <1>3, <1>5, <2>1, Appended
<1>7. e.kind = "Ns"
  BY <1>4 DEF StkNs
<1>8. /\ L0 <= L /\ \A i \in 1..L0 : r.stk[i] = r0.stk[i]
      /\ \A i \in L0 + 1..L : r.stk[i].kind = "Ns"
  BY <1>2, <1>3 DEF Listening
<1>9. L0 <= L + 1 /\ \A i \in 1..L0 : v.stk[i] = r0.stk[i]
  <2>1. \A i \in 1..L0 : i \in 1..L
    BY <1>8
  <2> QED
    BY <1>6, <1>8, <2>1
<1>10. \A i \in L0 + 1..L + 1 : v.stk[i].kind = "Ns"
  <2>1. \A i \in L0 + 1..L + 1 : i = L + 1 \/ (i \in L0 + 1..L /\ i \in 1..L)
    BY <1>8
  <2> QED
    BY <1>6, <1>7, <1>8, <2>1
<1>11. \E w : Past(w, v) /\ \A i \in 0..L0 : w[i] = w0[i]
  <2>1. PICK u : Past(u, r) /\ \A i \in 0..L0 : u[i] = w0[i]
    BY <1>2 DEF Listening
  <2>2. r.ns = Undo(v.ns, e)
    <3>1. r.ns \in PartialMaps /\ a.value \in Texts /\ x \in Texts
      BY <1>1, PushNs DEF Readers, AttrSet
    <3>2. Undo(With(r.ns, x, a.value), StkNs(x, Means(r.ns, x), x \in DOMAIN r.ns)) = r.ns
      BY <3>1, UndoWith
    <3> QED
      BY <1>4, <1>5, <3>2
  <2>3. PICK w : Past(w, v) /\ \A i \in 0..Len(r.stk) : w[i] = u[i]
    <3>1. Past(u, r)
      BY <2>1
    <3>2. v.stk = Append(r.stk, e)
      BY <1>5
    <3>3. r.ns = IF e.kind = "Ns" THEN Undo(v.ns, e) ELSE v.ns
      BY <1>7, <2>2
    <3> QED
      BY <1>1, <3>1, <3>2, <3>3, PastGrows
  <2>4. \A i \in 0..L0 : w[i] = w0[i]
    <3>1. \A i \in 0..L0 : i \in 0..Len(r.stk)
      BY <1>3, <1>8
    <3>2. \A i \in 0..L0 : u[i] = w0[i]
      BY <2>1
    <3>3. \A i \in 0..Len(r.stk) : w[i] = u[i]
      BY <2>3
    <3> QED
      BY <3>1, <3>2, <3>3
  <2> QED
    BY <2>3, <2>4
<1>12. Listening(r0, w0, v)
  BY <1>2, <1>6, <1>9, <1>10, <1>11 DEF Listening
<1> QED
  BY <1>5, <1>12

\* Every prefix but the default one that is in the map stands for something.
Meant(ns) == \A x \in DOMAIN ns : x = "" \/ ns[x] # ""

\* What is no declaration is not read as one.
LEMMA PushNsOther ==
  ASSUME NEW r, NEW a, \A x : ~Declaring(a, x), a.name.space = "xmlns" => a.name.local # << >>
  PROVE  pushNs(r, a) = r
BY DEF pushNs, Declaring

\* The first k numbers are the k-th and those before it.
LEMMA UpTo ==
  ASSUME NEW N \in Nat, NEW k \in 1..N
  PROVE  /\ k \in Nat /\ k \in 0..N /\ k - 1 \in 0..N
         /\ \A i : i \in 1..k <=> i = k \/ i \in 1..k - 1
  OBVIOUS

\* An attribute that, when it declares a prefix, says of it what the printer q
\* thinks.
Truthful(q, a) ==
  /\ a.name.space = "xmlns" => a.name.local # << >>
  /\ \A x : Declaring(a, x) => a.value = nsForPrefix(q, x) /\ (x = "" \/ a.value # "")

\* An attribute declares one prefix at most.
LEMMA DeclaresOne ==
  ASSUME NEW a, NEW x, Declaring(a, x)
  PROVE  \A z : Declaring(a, z) <=> z = x
<1>1. CASE a.name.space = "xmlns"
  <2>1. a.name.local # << >> /\ x = Head(a.name.local)
    BY <1>1 DEF Declaring
  <2>2. ASSUME NEW z
        PROVE  Declaring(a, z) <=> z = Head(a.name.local)
    BY <1>1, <2>1 DEF Declaring
  <2> QED
    BY <2>1, <2>2
<1>2. CASE a.name.space # "xmlns"
  <2>1. a.name = Name("", << "xmlns" >>) /\ x = ""
    BY <1>2 DEF Declaring
  <2>2. ASSUME NEW z
        PROVE  Declaring(a, z) <=> z = ""
    BY <1>2, <2>1 DEF Declaring
  <2> QED
    BY <2>1, <2>2
<1> QED
  BY <1>1, <1>2

\* Does one of the first k attributes declare x?
DeclaredUpTo(attr, k, x) == \E i \in 1..k : Declaring(attr[i], x)

\* Declarations that say of their prefixes what the printer q thinks: then
\* these prefixes, and only these, stand for that.
LEMMA AllNsRead ==
  ASSUME NEW r0 \in Readers, NEW w0, Past(w0, r0), Meant(r0.ns), NEW attr \in Seq(AttrSet), NEW q,
         \A i \in DOMAIN attr : Truthful(q, attr[i])
  PROVE  /\ Listening(r0, w0, pushAllNs(r0, attr))
         /\ Meant(pushAllNs(r0, attr).ns)
         /\ \A x : Means(pushAllNs(r0, attr).ns, x) =
                     IF DeclaredUpTo(attr, Len(attr), x) THEN nsForPrefix(q, x)
                     ELSE Means(r0.ns, x)
<1>1. PICK N \in Nat : N = Len(attr) /\ DOMAIN attr = 1..N
  OBVIOUS
<1> DEFINE Said(r, k) ==
      \A x : Means(r.ns, x) = IF DeclaredUpTo(attr, k, x) THEN nsForPrefix(q, x)
                              ELSE Means(r0.ns, x)
<1>2. PICK G : G = [k \in 0..N |-> {r \in Readers : Listening(r0, w0, r) /\ Meant(r.ns) /\ Said(r, k)}]
  OBVIOUS
<1>3. \A k \in 0..N : \A r : r \in G[k] <=> Listening(r0, w0, r) /\ Meant(r.ns) /\ Said(r, k)
  BY <1>2 DEF Listening
<1> HIDE DEF Said
<1>4. r0 \in G[0]
  <2>1. Said(r0, 0)
    BY DEF Said, DeclaredUpTo
  <2> QED
    BY <1>3, <2>1, ListeningAtFirst
<1>5. ASSUME NEW r \in Readers, NEW i \in 1..N
      PROVE  pushNs(r, attr[i]) \in Readers
  <2>1. attr[i] \in AttrSet
    BY <1>1
  <2>2. CASE \E x : Declaring(attr[i], x)
    BY <2>1, <2>2, PushNs
  <2>3. CASE \A x : ~Declaring(attr[i], x)
    <3>1. attr[i].name.space = "xmlns" => attr[i].name.local # << >>
      BY <1>1 DEF Truthful
    <3> QED
      BY <2>3, <3>1, PushNsOther
  <2> QED
    BY <2>2, <2>3
<1>6. ASSUME NEW k \in 1..N, NEW r \in G[k - 1]
      PROVE  pushNs(r, attr[k]) \in G[k]
  <2>0. /\ k \in 0..N /\ k - 1 \in 0..N
        /\ \A i : i \in 1..k <=> i = k \/ i \in 1..k - 1
    BY <1>1, UpTo
  <2>1. Listening(r0, w0, r) /\ Meant(r.ns) /\ Said(r, k - 1)
    BY <1>3, <2>0
  <2>2. attr[k] \in AttrSet
    BY <1>1
  <2>3. CASE \E x : Declaring(attr[k], x)
    <3>1. PICK x : Declaring(attr[k], x)
      BY <2>3
    <3>2. r \in Readers /\ r.ns \in PartialMaps
      BY <2>1, ReaderType DEF Listening
    <3>3. PICK v : v = pushNs(r, attr[k])
      OBVIOUS
    <3>4. Listening(r0, w0, v)
      BY <2>1, <2>2, <3>1, <3>3, ListeningPush
    <3>5. attr[k].value = nsForPrefix(q, x) /\ (x = "" \/ nsForPrefix(q, x) # "")
      BY <1>1, <3>1 DEF Truthful
    <3>6. v.ns = With(r.ns, x, attr[k].value)
      BY <2>2, <3>1, <3>2, <3>3, PushNs
    <3>7. /\ (\A z : z \in DOMAIN v.ns <=> z \in DOMAIN r.ns \/ z = x)
          /\ v.ns[x] = nsForPrefix(q, x)
          /\ \A z \in DOMAIN r.ns : z # x => v.ns[z] = r.ns[z]
      <4>1. PICK y : y = attr[k].value
        OBVIOUS
      <4>2. PICK f \in PartialMaps : f = v.ns /\ f = With(r.ns, x, y)
        <5>1. r.ns \in PartialMaps /\ x \in Texts /\ y \in Texts
          BY <2>2, <3>1, <3>2, <4>1, PushNs DEF AttrSet
        <5>2. With(r.ns, x, y) \in PartialMaps
          BY <5>1, WithType
        <5> QED
          BY <3>6, <4>1, <5>2
      <4>3. /\ \A z : z \in DOMAIN f <=> z \in DOMAIN r.ns \/ z = x
            /\ f[x] = y
            /\ \A z \in DOMAIN r.ns : z # x => f[z] = r.ns[z]
        BY <4>2, WithEntry
      <4> QED
        BY <3>5, <4>1, <4>2, <4>3
    <3>8. Meant(v.ns)
      BY <2>1, <3>5, <3>7 DEF Meant
    <3>9. \A z : Means(v.ns, z) = IF z = x THEN nsForPrefix(q, x) ELSE Means(r.ns, z)
      BY <3>7 DEF Means
    <3>10. \A z : Declaring(attr[k], z) <=> z = x
      BY <3>1, DeclaresOne
    <3>11. Said(v, k)
      <4> SUFFICES ASSUME NEW z
                   PROVE  Means(v.ns, z) =
                            IF DeclaredUpTo(attr, k, z) THEN nsForPrefix(q, z)
                            ELSE Means(r0.ns, z)
        BY DEF Said
      <4>1. CASE z = x
        <5>1. DeclaredUpTo(attr, k, z)
          BY <2>0, <3>1, <4>1 DEF DeclaredUpTo
        <5> QED
          BY <3>9, <4>1, <5>1
      <4>2. CASE z # x
        <5>1. DeclaredUpTo(attr, k, z) <=> DeclaredUpTo(attr, k - 1, z)
          <6>1. ~Declaring(attr[k], z)
            BY <3>10, <4>2
          <6> QED
            BY <2>0, <6>1 DEF DeclaredUpTo
        <5>2. Means(r.ns, z) = IF DeclaredUpTo(attr, k - 1, z) THEN nsForPrefix(q, z)
                               ELSE Means(r0.ns, z)
          BY <2>1 DEF Said
        <5> QED
          BY <3>9, <4>2, <5>1, <5>2
      <4> QED
        BY <4>1, <4>2
    <3> QED
      BY <1>3, <2>0, <3>3, <3>4, <3>8, <3>11
  <2>4. CASE \A x : ~Declaring(attr[k], x)
    <3>1. attr[k].name.space = "xmlns" => attr[k].name.local # << >>
      BY <1>1 DEF Truthful
    <3>2. pushNs(r, attr[k]) = r
      BY <2>4, <3>1, PushNsOther
    <3>3. \A z : DeclaredUpTo(attr, k, z) <=> DeclaredUpTo(attr, k - 1, z)
      BY <2>0, <2>4 DEF DeclaredUpTo
    <3>4. Said(r, k)
      BY <2>1, <3>3 DEF Said
    <3> QED
      BY <1>3, <2>0, <2>1, <3>2, <3>4
  <2> QED
    BY <2>3, <2>4
<1>7. pushAllNs(r0, attr) \in G[N]
  <2>1. \A r \in Readers, i \in DOMAIN attr : pushNs(r, attr[i]) \in Readers
    BY <1>1, <1>5
  <2>2. \A k \in 1..Len(attr) : \A r \in G[k - 1] : pushNs(r, attr[k]) \in G[k]
    BY <1>1, <1>6
  <2>3. pushAllNs(r0, attr) \in G[Len(attr)]
    BY <1>4, <2>1, <2>2, PushAllNsKeeps
  <2> QED
    BY <1>1, <2>3
<1>8. N \in 0..N
  OBVIOUS
<1> QED
  BY <1>1, <1>3, <1>7, <1>8 DEF Said

\* The element name is on top of the stack, above its undo records and these
\* above the height f.
OnTop(r, name, f) ==
  /\ f \in Nat /\ f < Len(r.stk) /\ r.stk[Len(r.stk)] = StkStart(name)
  /\ f = 0 \/ r.stk[f].kind # "Ns"
  /\ \A i \in f + 1..Len(r.stk) - 1 : r.stk[i].kind = "Ns"

\* The decoder r1 is what is left of r, in the scopes w, below the height h.
ReaderBelow(r, w, h, r1) ==
  /\ r1 \in Readers /\ Len(r1.stk) = h
  /\ \A i \in 1..h : r1.stk[i] = r.stk[i]
  /\ r1.ns = w[h]

\* The end of the element on top of the stack: back to the scope below its undo
\* records.
LEMMA ElementPopped ==
  ASSUME NEW r \in Readers, NEW w, Past(w, r), NEW name, NEW f \in Nat, OnTop(r, name, f)
  PROVE  /\ popElement(r, name).tok = EndElement(name)
         /\ ReaderBelow(r, w, f, popElement(r, name).d)
<1>0. /\ f < Len(r.stk) /\ r.stk[Len(r.stk)] = StkStart(name)
      /\ f = 0 \/ r.stk[f].kind # "Ns"
      /\ \A i \in f + 1..Len(r.stk) - 1 : r.stk[i].kind = "Ns"
  BY DEF OnTop
<1>1. r.stk \in Seq(Entries) /\ r.ns \in PartialMaps
  BY ReaderType
<1>2. PICK L \in Nat : L = Len(r.stk)
  BY <1>1
<1>3. f < L /\ L - 1 \in Nat /\ L # 0
  BY <1>0, <1>2
<1>4. PICK rest \in Seq(Entries) :
           rest = Front(r.stk) /\ Len(rest) = L - 1 /\ \A i \in 1..L - 1 : rest[i] = r.stk[i]
  <2>1. /\ SubSeq(r.stk, 0 + 1, L - 1) \in Seq(Entries)
        /\ Len(SubSeq(r.stk, 0 + 1, L - 1)) = (L - 1) - 0
        /\ \A i \in 1..(L - 1) - 0 : SubSeq(r.stk, 0 + 1, L - 1)[i] = r.stk[0 + i]
    <3>1. L - 1 \in Nat /\ 0 \in Nat /\ 0 <= L - 1 /\ L - 1 <= Len(r.stk)
      BY <1>2, <1>3
    <3> QED
      BY <1>1, <3>1, Part
  <2>2. PICK rest : rest = Front(r.stk)
    OBVIOUS
  <2>3. rest = SubSeq(r.stk, 0 + 1, L - 1) /\ (L - 1) - 0 = L - 1
    BY <1>2, <1>3, <2>2 DEF Front
  <2>4. rest \in Seq(Entries) /\ Len(rest) = L - 1
    BY <2>1, <2>3
  <2>5. \A i \in 1..L - 1 : rest[i] = r.stk[i]
    BY <1>3, <2>1, <2>3
  <2> QED
    BY <2>2, <2>4, <2>5
<1>5. Floor(rest) = f
  <2>1. PICK I : I = {i \in 1..L - 1 : rest[i].kind # "Ns"}
    OBVIOUS
  <2>2. Floor(rest) = IF I # {} THEN Max(I) ELSE 0
    BY <1>4, <2>1 DEF Floor, SelectLastInSeq
  <2>3. \A i \in f + 1..L - 1 : i \notin I
    BY <1>0, <1>2, <1>3, <1>4, <2>1
  <2>4. \A i \in I : i <= f
    BY <2>1, <2>3
  <2>5. CASE f = 0
    <3>1. I = {}
      BY <2>1, <2>4, <2>5
    <3> QED
      BY <2>2, <2>5, <3>1
  <2>6. CASE f # 0
    <3>1. f \in 1..L - 1
      BY <1>3, <2>6
    <3>2. f \in I
      BY <1>0, <1>4, <2>1, <2>6, <3>1
    <3>3. I \in SUBSET (1..L - 1) /\ I # {}
      BY <2>1, <3>2
    <3>4. Max(I) \in I /\ f <= Max(I)
      BY <1>3, <3>2, <3>3, Extremes
    <3>5. Max(I) = f
      <4>1. Max(I) \in 1..L - 1 /\ Max(I) <= f
        BY <2>4, <3>3, <3>4
      <4> QED
        BY <1>3, <3>4, <4>1
    <3> QED
      BY <2>2, <3>3, <3>5
  <2> QED
    BY <2>5, <2>6
<1>6. PICK recs \in Seq(Entries) :
           /\ recs = SubSeq(rest, f + 1, L - 1) /\ Len(recs) = (L - 1) - f
           /\ \A i \in 1..(L - 1) - f : recs[i] = r.stk[f + i]
  <2>1. /\ SubSeq(rest, f + 1, L - 1) \in Seq(Entries)
        /\ Len(SubSeq(rest, f + 1, L - 1)) = (L - 1) - f
        /\ \A i \in 1..(L - 1) - f : SubSeq(rest, f + 1, L - 1)[i] = rest[f + i]
    <3>1. f <= L - 1 /\ L - 1 <= Len(rest)
      BY <1>3, <1>4
    <3> QED
      BY <1>3, <1>4, <3>1, Part
  <2>2. \A i \in 1..(L - 1) - f : rest[f + i] = r.stk[f + i]
    BY <1>3, <1>4
  <2> QED
    BY <2>1, <2>2
<1>7. PICK G : G = [k \in 0..(L - 1) - f |-> {w[f + k]}]
  OBVIOUS
<1>8. \A i \in 0..L : w[i] \in PartialMaps
  BY <1>2 DEF Past
<1>9. ASSUME NEW i \in 1..(L - 1) - f
      PROVE  recs[i] = r.stk[f + i] /\ recs[i].kind = "Ns" /\ w[(f + i) - 1] = Undo(w[f + i], recs[i])
  <2>1. PICK j \in 1..L : j = f + i /\ j \in f + 1..L - 1
    BY <1>3
  <2>2. recs[i] = r.stk[j] /\ r.stk[j].kind = "Ns"
    BY <1>0, <1>2, <1>6, <2>1
  <2>3. w[j - 1] = IF r.stk[j].kind = "Ns" THEN Undo(w[j], r.stk[j]) ELSE w[j]
    BY <1>2 DEF Past
  <2> QED
    BY <2>1, <2>2, <2>3
<1>10. PICK V : V = PartialMaps
  OBVIOUS
<1>11. ASSUME NEW m \in V, NEW i \in 1..(L - 1) - f
       PROVE  Undo(m, recs[i]) \in V
  <2>1. recs[i] \in Entries /\ recs[i].kind = "Ns"
    BY <1>6, <1>9
  <2>2. recs[i].prefix \in Texts /\ recs[i].url \in Texts
    BY <2>1 DEF Entries
  <2> QED
    BY <1>10, <2>2, WithType, WithoutType DEF Undo
<1>12. ASSUME NEW k \in 1..(L - 1) - f, NEW m \in G[k]
       PROVE  Undo(m, recs[k]) \in G[k - 1]
  <2>1. m = w[f + k]
    BY <1>7
  <2>2. k - 1 \in 0..(L - 1) - f /\ f + (k - 1) = (f + k) - 1
    BY <1>3
  <2>3. G[k - 1] = {w[f + (k - 1)]}
    BY <1>7, <2>2
  <2> QED
    BY <1>9, <2>1, <2>2, <2>3
<1>13. w[L - 1] = r.ns
  <2>1. w[L - 1] = IF r.stk[L].kind = "Ns" THEN Undo(w[L], r.stk[L]) ELSE w[L]
    <3>1. \A i \in 1..L : w[i - 1] = IF r.stk[i].kind = "Ns" THEN Undo(w[i], r.stk[i]) ELSE w[i]
      BY <1>2 DEF Past
    <3>2. L \in 1..L
      BY <1>3
    <3> QED
      BY <3>1, <3>2
  <2>2. r.stk[L].kind # "Ns" /\ w[L] = r.ns
    BY <1>0, <1>2 DEF StkStart, Past
  <2> QED
    BY <2>1, <2>2
<1>14. r.ns \in V /\ r.ns \in G[Len(recs)]
  <2>1. (L - 1) - f \in 0..(L - 1) - f /\ f + ((L - 1) - f) = L - 1
    BY <1>3
  <2>2. G[(L - 1) - f] = {w[L - 1]}
    BY <1>7, <2>1
  <2> QED
    BY <1>1, <1>6, <1>10, <1>13, <2>2
<1>15. UndoAll(r.ns, recs) \in G[0]
  <2>0. DOMAIN recs = 1..(L - 1) - f
    BY <1>6
  <2>1. \A m \in V, i \in DOMAIN recs : Undo(m, recs[i]) \in V
    BY <1>11, <2>0
  <2>2. \A k \in 1..Len(recs) : \A m \in G[k] : Undo(m, recs[k]) \in G[k - 1]
    BY <1>6, <1>12
  <2> QED
    BY <1>14, <2>1, <2>2, UndoAllKeeps
<1>16. UndoAll(r.ns, recs) = w[f]
  <2>1. 0 \in 0..(L - 1) - f /\ f + 0 = f
    BY <1>3
  <2>2. G[0] = {w[f]}
    BY <1>7, <2>1
  <2> QED
    BY <1>15, <2>2
<1>17. PICK below \in Seq(Entries) :
            below = SubSeq(rest, 1, f) /\ Len(below) = f /\ \A i \in 1..f : below[i] = r.stk[i]
  <2>1. /\ SubSeq(rest, 0 + 1, f) \in Seq(Entries)
        /\ Len(SubSeq(rest, 0 + 1, f)) = f - 0
        /\ \A i \in 1..f - 0 : SubSeq(rest, 0 + 1, f)[i] = rest[0 + i]
    <3>1. 0 \in Nat /\ 0 <= f /\ f <= Len(rest)
      BY <1>3, <1>4
    <3> QED
      BY <1>4, <3>1, Part
  <2>2. PICK below : below = SubSeq(rest, 1, f)
    OBVIOUS
  <2>3. below = SubSeq(rest, 0 + 1, f) /\ f - 0 = f
    BY <2>2
  <2>4. below \in Seq(Entries) /\ Len(below) = f
    BY <2>1, <2>3
  <2>5. \A i \in 1..f : below[i] = r.stk[i]
    <3>1. \A i \in 1..f : below[i] = rest[i] /\ i \in 1..L - 1
      BY <1>3, <2>1, <2>3
    <3> QED
      BY <1>4, <3>1
  <2> QED
    BY <2>2, <2>4, <2>5
<1>18. PICK m \in PartialMaps : m = w[f]
  BY <1>3, <1>8
<1>19. r.stk # << >> /\ Last(r.stk) = StkStart(name)
  BY <1>0, <1>1, <1>2, <1>3 DEF Last
<1>20. popElement(r, name) =
         [d   |-> [r EXCEPT !.stk = SubSeq(rest, 1, f),
                            !.ns  = UndoAll(@, SubSeq(rest, f + 1, Len(rest)))],
          tok |-> EndElement(name)]
  BY <1>4, <1>5, <1>19 DEF popElement
<1>21. [r EXCEPT !.stk = SubSeq(rest, 1, f), !.ns = UndoAll(@, SubSeq(rest, f + 1, Len(rest)))] =
         [r EXCEPT !.stk = below, !.ns = m]
  <2>1. UndoAll(r.ns, SubSeq(rest, f + 1, Len(rest))) = m
    BY <1>4, <1>6, <1>16, <1>18
  <2> QED
    BY <1>17, <2>1
<1>22. PICK v : v = [r EXCEPT !.stk = below, !.ns = m]
  OBVIOUS
<1>23. v \in Readers /\ v.stk = below /\ v.ns = m
  BY <1>22 DEF Readers
<1>24. popElement(r, name).d = v /\ popElement(r, name).tok = EndElement(name)
  BY <1>20, <1>21, <1>22
<1>25. ReaderBelow(r, w, f, v)
  BY <1>17, <1>18, <1>23 DEF ReaderBelow
<1> QED
  BY <1>24, <1>25

-----------------------------------------------------------------------------
(* Names, written in the printer's scope and read in the decoder's.        *)

\* Every prefix and the default name space stand for the same to both.
Same(s, ns) == Meant(ns) /\ \A x \in Texts : nsForPrefix(s, x) = Means(ns, x)

\* A name is written with its own prefix, with one of the name space, or with
\* none.
LEMMA NameWritten ==
  ASSUME NEW s, NEW name, NEW isAttr \in BOOLEAN, Writable(s, name.space, isAttr) \/ (isAttr /\ name.space = "")
  PROVE  \/ name.space = xmlURL /\ writeName(s, name, isAttr) = << "xml" >> \o name.local
         \/ /\ ~isAttr /\ name.space = s.defaultNS
            /\ writeName(s, name, isAttr) = name.local
         \/ /\ name.space \in DOMAIN s.attrPrefix /\ s.attrPrefix[name.space] # ""
            /\ writeName(s, name, isAttr) = << s.attrPrefix[name.space] >> \o name.local
         \/ /\ name.space \in DOMAIN s.attrPrefix /\ s.attrPrefix[name.space] = ""
         \/ /\ isAttr /\ name.space = "" /\ writeName(s, name, isAttr) = name.local
<1>1. PICK url : url = name.space
  OBVIOUS
<1>2. PICK prefix : prefix = prefixForNS(s, url, isAttr)
  OBVIOUS
<1>3. writeName(s, name, isAttr) = IF prefix = "" THEN name.local ELSE << prefix >> \o name.local
  BY <1>1, <1>2 DEF writeName
<1>4. CASE url = xmlURL
  <2>1. prefix = "xml" /\ prefix # ""
    BY <1>2, <1>4 DEF prefixForNS
  <2> QED
    BY <1>1, <1>3, <1>4, <2>1
<1>5. CASE url # xmlURL /\ ~isAttr /\ url = s.defaultNS
  <2>1. prefix = ""
    BY <1>2, <1>5 DEF prefixForNS
  <2> QED
    BY <1>1, <1>3, <1>5, <2>1
<1>6. CASE url # xmlURL /\ (isAttr \/ url # s.defaultNS) /\ url \in DOMAIN s.attrPrefix
  <2>1. prefix = s.attrPrefix[url]
    BY <1>2, <1>6 DEF prefixForNS
  <2> QED
    BY <1>1, <1>3, <1>6, <2>1
<1>7. CASE url # xmlURL /\ isAttr /\ url = "" /\ url \notin DOMAIN s.attrPrefix
  <2>1. prefix = ""
    BY <1>2, <1>7 DEF prefixForNS
  <2> QED
    BY <1>1, <1>3, <1>7, <2>1
<1> QED
  BY <1>1, <1>4, <1>5, <1>6, <1>7 DEF Writable

\* One part in front of another: nsname takes them apart.
LEMMA Parts ==
  ASSUME NEW x \in Texts, NEW local \in Seq(Texts), Len(local) = 1
  PROVE  /\ nsname(<< x >> \o local) = Name(x, local) /\ nsname(local) = Name("", local)
         /\ << x >> \o local \in Seq(Texts) /\ Head(<< x >> \o local) = x
         /\ Len(<< x >> \o local) = 2
<1>1. << x >> \in Seq(Texts) /\ Len(<< x >>) = 1
  OBVIOUS
<1>2. /\ << x >> \o local \in Seq(Texts) /\ Len(<< x >> \o local) = 1 + 1
      /\ \A i \in 1..1 + 1 : (<< x >> \o local)[i] = IF i <= 1 THEN << x >>[i] ELSE local[i - 1]
  BY <1>1, ConcatProperties
<1>3. PICK n \in Seq(Texts) : n = << x >> \o local
  BY <1>2
<1>4. Len(n) = 2 /\ n[1] = x /\ n[2] = local[1]
  <2>1. 1 \in 1..1 + 1 /\ 2 \in 1..1 + 1 /\ 1 + 1 = 2 /\ 2 - 1 = 1 /\ << x >>[1] = x
    OBVIOUS
  <2> QED
    BY <1>2, <1>3, <2>1
<1>5. Head(n) = x
  BY <1>4
<1>6. Tail(n) = local
  <2>1. /\ Tail(n) \in Seq(Texts) /\ Len(Tail(n)) = 1
        /\ \A i \in 1..Len(Tail(n)) : Tail(n)[i] = n[i + 1]
    BY <1>4, HeadTailProperties
  <2>2. PICK t \in Seq(Texts) : t = Tail(n) /\ Len(t) = 1 /\ t[1] = local[1]
    <3>1. PICK t \in Seq(Texts) : t = Tail(n) /\ Len(t) = 1 /\ \A i \in 1..Len(t) : t[i] = n[i + 1]
      BY <2>1
    <3>2. 1 \in 1..Len(t) /\ 1 + 1 = 2
      BY <3>1
    <3>3. t[1] = n[2]
      BY <3>1, <3>2
    <3> QED
      BY <1>4, <3>1, <3>3
  <2>3. t = local
    BY <2>2
  <2> QED
    BY <2>2, <2>3
<1>8. nsname(n) = Name(x, local)
  <2>1. PICK h, t : h = Head(n) /\ t = Tail(n)
    OBVIOUS
  <2>2. nsname(n) = IF Len(n) = 1 THEN Name("", n) ELSE Name(h, t)
    BY <2>1 DEF nsname
  <2>3. Len(n) # 1
    BY <1>4
  <2> QED
    BY <1>5, <1>6, <2>1, <2>2, <2>3
<1>7. nsname(local) = Name("", local)
  BY DEF nsname
<1> QED
  BY <1>3, <1>4, <1>5, <1>7, <1>8

\* The fields of a name.
LEMMA NameFields ==
  ASSUME NEW x \in Texts, NEW local \in Seq(Texts), NEW y \in Texts
  PROVE  /\ Name(x, local).space = x /\ Name(x, local).local = local
         /\ [Name(x, local) EXCEPT !.space = y] = Name(y, local)
BY DEF Name

\* What translate does with a prefix.
LEMMA Translated ==
  ASSUME NEW ns \in PartialMaps, NEW x \in Texts, NEW local \in Seq(Texts),
         NEW y \in Texts, x # "xmlns", Plainly(local),
         \/ x = "xml" /\ xmlURL \notin DOMAIN ns /\ y = xmlURL
         \/ x # "xml" /\ y = IF x \in DOMAIN ns THEN ns[x] ELSE x
  PROVE  /\ translate(ns, Name(x, local), TRUE) = Name(y, local)
         /\ x # "" => translate(ns, Name(x, local), FALSE) = Name(y, local)
<1>1. /\ Name(x, local).space = x /\ Name(x, local).local = local
      /\ [Name(x, local) EXCEPT !.space = y] = Name(y, local)
  BY NameFields
<1>2. PICK n : n = Name(x, local)
  OBVIOUS
<1>3. local # << "xmlns" >>
  <2>1. local[1] # "xmlns"
    BY DEF Plainly
  <2>2. ASSUME local = << "xmlns" >>
        PROVE  FALSE
    BY <2>1, <2>2
  <2> QED
    BY <2>2
<1>4. PICK url : url = IF n.space = "xml" THEN xmlURL ELSE n.space
  OBVIOUS
<1>5. y = IF url \in DOMAIN ns THEN ns[url] ELSE url
  BY <1>1, <1>2, <1>4
<1>6. translate(ns, n, TRUE) = [n EXCEPT !.space = y]
  BY <1>1, <1>2, <1>3, <1>4, <1>5 DEF translate
<1>7. x # "" => translate(ns, n, FALSE) = [n EXCEPT !.space = y]
  BY <1>1, <1>2, <1>4, <1>5 DEF translate
<1> QED
  BY <1>1, <1>2, <1>6, <1>7

\* The prefix x, which is XML's own or declared, stands for the name space url.
PrefixOf(s, x, url) ==
  \/ x = "xml" /\ url = xmlURL
  \/ url \in DOMAIN s.attrPrefix /\ x = s.attrPrefix[url]

\* A name with a prefix of its name space is read as it was written.
LEMMA PrefixReads ==
  ASSUME NEW s \in Scopes, Bijective(s), NEW ns \in PartialMaps, Same(s, ns),
         NEW url \in Texts, NEW local \in Seq(Texts), Plainly(local), NEW x \in Texts,
         PrefixOf(s, x, url)
  PROVE  /\ translate(ns, Name(x, local), TRUE) = Name(url, local)
         /\ translate(ns, Name(x, local), FALSE) = Name(url, local)
<1>2. \A z \in Texts : nsForPrefix(s, z) = IF z \in DOMAIN ns THEN ns[z] ELSE ""
  BY DEF Same, Means
<1>3. \A z \in DOMAIN ns : z = "" \/ ns[z] # ""
  BY DEF Same, Meant
<1>4. CASE x = "xml" /\ url = xmlURL
  <2>1. xmlURL \notin DOMAIN s.attrNS
    BY DEF Bijective, Reserved
  <2>2. xmlURL # ""
    BY DEF xmlURL
  <2>3. nsForPrefix(s, xmlURL) = ""
    BY <2>1, <2>2 DEF nsForPrefix
  <2>4. url \notin DOMAIN ns
    BY <1>2, <1>3, <1>4, <2>2, <2>3, Literals
  <2>5. x # "xmlns" /\ x # "" /\ (x = "xml" /\ xmlURL \notin DOMAIN ns /\ url = xmlURL)
    BY <1>4, <2>4
  <2> QED
    BY <2>5, Translated
<1>5. CASE url \in DOMAIN s.attrPrefix /\ x = s.attrPrefix[url]
  <2>1. x \in DOMAIN s.attrNS /\ s.attrNS[x] = url /\ x \notin Reserved /\ url # ""
    BY <1>5 DEF Bijective
  <2>2. x # "" /\ x # "xml" /\ x # "xmlns"
    BY <2>1 DEF Reserved
  <2>3. nsForPrefix(s, x) = url
    BY <2>1, <2>2 DEF nsForPrefix
  <2>4. url = IF x \in DOMAIN ns THEN ns[x] ELSE x
    BY <1>2, <2>1, <2>3
  <2> QED
    BY <2>2, <2>4, Translated
<1> QED
  BY <1>4, <1>5 DEF PrefixOf

\* An element's name is read as it was written.
LEMMA ElementReads ==
  ASSUME NEW s \in Scopes, Bijective(s), NEW ns \in PartialMaps, Same(s, ns),
         NEW name \in Names, Plainly(name.local), Writable(s, name.space, FALSE)
  PROVE  translate(ns, nsname(writeName(s, name, FALSE)), TRUE) = name
<1>1. PICK url \in Texts, local \in Seq(Texts) : name = Name(url, local) /\ name.space = url /\ name.local = local
  BY DEF Names, Name
<1>2. \/ url = xmlURL /\ writeName(s, name, FALSE) = << "xml" >> \o local
      \/ url = s.defaultNS /\ writeName(s, name, FALSE) = local
      \/ /\ url \in DOMAIN s.attrPrefix
         /\ writeName(s, name, FALSE) = << s.attrPrefix[url] >> \o local
  <2>1. url \in DOMAIN s.attrPrefix => s.attrPrefix[url] # ""
    BY DEF Bijective, Reserved
  <2>2. Writable(s, name.space, FALSE) \/ (FALSE /\ name.space = "")
    OBVIOUS
  <2>3. \/ name.space = xmlURL /\ writeName(s, name, FALSE) = << "xml" >> \o name.local
        \/ /\ ~FALSE /\ name.space = s.defaultNS
           /\ writeName(s, name, FALSE) = name.local
        \/ /\ name.space \in DOMAIN s.attrPrefix /\ s.attrPrefix[name.space] # ""
           /\ writeName(s, name, FALSE) = << s.attrPrefix[name.space] >> \o name.local
        \/ /\ name.space \in DOMAIN s.attrPrefix /\ s.attrPrefix[name.space] = ""
        \/ /\ FALSE /\ name.space = "" /\ writeName(s, name, FALSE) = name.local
    BY <2>2, NameWritten
  <2> QED
    BY <1>1, <2>1, <2>3
<1>3. CASE url = xmlURL /\ writeName(s, name, FALSE) = << "xml" >> \o local
  <2>1. PICK x \in Texts : x = "xml"
    BY Literals
  <2>2. translate(ns, Name(x, local), TRUE) = Name(url, local)
    <3>1. Plainly(local) /\ PrefixOf(s, x, url)
      BY <1>1, <1>3, <2>1 DEF PrefixOf
    <3> QED
      BY <3>1, PrefixReads
  <2>3. nsname(<< x >> \o local) = Name(x, local)
    BY <1>1, Parts DEF Plainly
  <2> QED
    BY <1>1, <1>3, <2>1, <2>2, <2>3
<1>4. CASE url = s.defaultNS /\ writeName(s, name, FALSE) = local
  <2>1. nsname(local) = Name("", local)
    BY <1>1, Parts, Literals DEF Plainly
  <2>2. PICK x \in Texts : x = "" /\ x # "xml" /\ x # "xmlns"
    BY Literals
  <2>3. url = IF x \in DOMAIN ns THEN ns[x] ELSE x
    BY <1>4, <2>2 DEF Same, Means, nsForPrefix
  <2>4. Plainly(local)
    BY <1>1
  <2>5. translate(ns, Name(x, local), TRUE) = Name(url, local)
    BY <2>2, <2>3, <2>4, Translated
  <2> QED
    BY <1>1, <1>4, <2>1, <2>2, <2>5
<1>5. CASE url \in DOMAIN s.attrPrefix /\ writeName(s, name, FALSE) = << s.attrPrefix[url] >> \o local
  <2>1. PICK x \in Texts : x = s.attrPrefix[url]
    BY <1>5, Values DEF Scopes
  <2>2. translate(ns, Name(x, local), TRUE) = Name(url, local)
    <3>1. Plainly(local) /\ PrefixOf(s, x, url)
      BY <1>1, <1>5, <2>1 DEF PrefixOf
    <3> QED
      BY <3>1, PrefixReads
  <2>3. nsname(<< x >> \o local) = Name(x, local)
    BY <1>1, Parts DEF Plainly
  <2> QED
    BY <1>1, <1>5, <2>1, <2>2, <2>3
<1> QED
  BY <1>2, <1>3, <1>4, <1>5

\* So is an attribute's, which the default name space says nothing of.
LEMMA AttrReads ==
  ASSUME NEW s \in Scopes, Bijective(s), NEW ns \in PartialMaps, Same(s, ns),
         NEW name \in Names, Plainly(name.local), name.space = "" \/ Writable(s, name.space, TRUE)
  PROVE  translate(ns, nsname(writeName(s, name, TRUE)), FALSE) = name
<1>1. PICK url \in Texts, local \in Seq(Texts) : name = Name(url, local) /\ name.space = url /\ name.local = local
  BY DEF Names, Name
<1>2. \/ url = xmlURL /\ writeName(s, name, TRUE) = << "xml" >> \o local
      \/ url = "" /\ writeName(s, name, TRUE) = local
      \/ /\ url \in DOMAIN s.attrPrefix
         /\ writeName(s, name, TRUE) = << s.attrPrefix[url] >> \o local
  <2>1. url \in DOMAIN s.attrPrefix => s.attrPrefix[url] # ""
    BY DEF Bijective, Reserved
  <2>2. Writable(s, name.space, TRUE) \/ (TRUE /\ name.space = "")
    OBVIOUS
  <2>3. \/ name.space = xmlURL /\ writeName(s, name, TRUE) = << "xml" >> \o name.local
        \/ /\ ~TRUE /\ name.space = s.defaultNS
           /\ writeName(s, name, TRUE) = name.local
        \/ /\ name.space \in DOMAIN s.attrPrefix /\ s.attrPrefix[name.space] # ""
           /\ writeName(s, name, TRUE) = << s.attrPrefix[name.space] >> \o name.local
        \/ /\ name.space \in DOMAIN s.attrPrefix /\ s.attrPrefix[name.space] = ""
        \/ /\ TRUE /\ name.space = "" /\ writeName(s, name, TRUE) = name.local
    BY <2>2, NameWritten
  <2> QED
    BY <1>1, <2>1, <2>3
<1>3. CASE url = xmlURL /\ writeName(s, name, TRUE) = << "xml" >> \o local
  <2>1. PICK x \in Texts : x = "xml"
    BY Literals
  <2>2. translate(ns, Name(x, local), FALSE) = Name(url, local)
    <3>1. Plainly(local) /\ PrefixOf(s, x, url)
      BY <1>1, <1>3, <2>1 DEF PrefixOf
    <3> QED
      BY <3>1, PrefixReads
  <2>3. nsname(<< x >> \o local) = Name(x, local)
    BY <1>1, Parts DEF Plainly
  <2> QED
    BY <1>1, <1>3, <2>1, <2>2, <2>3
<1>4. CASE url = "" /\ writeName(s, name, TRUE) = local
  <2>1. nsname(local) = Name("", local)
    BY <1>1, Parts, Literals DEF Plainly
  <2>2. translate(ns, name, FALSE) = name
    BY <1>1, <1>4 DEF translate
  <2> QED
    BY <1>1, <1>4, <2>1, <2>2
<1>5. CASE url \in DOMAIN s.attrPrefix /\ writeName(s, name, TRUE) = << s.attrPrefix[url] >> \o local
  <2>1. PICK x \in Texts : x = s.attrPrefix[url]
    BY <1>5, Values DEF Scopes
  <2>2. translate(ns, Name(x, local), FALSE) = Name(url, local)
    <3>1. Plainly(local) /\ PrefixOf(s, x, url)
      BY <1>1, <1>5, <2>1 DEF PrefixOf
    <3> QED
      BY <3>1, PrefixReads
  <2>3. nsname(<< x >> \o local) = Name(x, local)
    BY <1>1, Parts DEF Plainly
  <2> QED
    BY <1>1, <1>5, <2>1, <2>2, <2>3
<1> QED
  BY <1>2, <1>3, <1>4, <1>5

-----------------------------------------------------------------------------
(* The attributes of a start tag, as the decoder first has them.           *)

AttrTexts == [qname : Seq(Texts), value : Texts]

\* An attribute before its name is translated.
raw(t) == Attr(nsname(t.qname), t.value)

\* An attribute that declares nothing.
Quiet(a) == ~isNamespace(a.name) /\ \A x : ~Declaring(a, x)

\* A name in two parts, and one in one, as attributes.
LEMMA RawFields ==
  ASSUME NEW name \in Names, NEW value \in Texts
  PROVE  /\ Attr(name, value) \in AttrSet /\ Attr(name, value).name = name
         /\ Attr(name, value).value = value
BY DEF Attr, AttrSet

\* A name that declares nothing.
LEMMA QuietName ==
  ASSUME NEW x \in Texts, NEW local \in Seq(Texts), Plainly(local), x # "xmlns",
         NEW value \in Texts
  PROVE  Quiet(Attr(Name(x, local), value)) /\ Name(x, local) \in Names
<1>1. local # << "xmlns" >>
  <2>1. local[1] # "xmlns"
    BY DEF Plainly
  <2>2. ASSUME local = << "xmlns" >>
        PROVE  FALSE
    BY <2>1, <2>2
  <2> QED
    BY <2>2
<1>2. PICK n : n = Name(x, local)
  OBVIOUS
<1>3. n \in Names /\ n.space = x /\ n.local = local
  BY <1>2 DEF Name, Names
<1>4. PICK a : a = Attr(n, value)
  OBVIOUS
<1>5. a.name = n
  BY <1>4 DEF Attr
<1>6. n # Name("", << "xmlns" >>)
  <2>1. Name("", << "xmlns" >>).local = << "xmlns" >>
    BY DEF Name
  <2> QED
    BY <1>1, <1>3, <2>1
<1>7. ~isNamespace(n)
  BY <1>1, <1>3 DEF isNamespace
<1>8. \A y : ~Declaring(a, y)
  BY <1>3, <1>5, <1>6 DEF Declaring
<1> QED
  BY <1>2, <1>3, <1>4, <1>5, <1>7, <1>8 DEF Quiet

\* What is written of an attribute in a name space is not read as a declaration.
LEMMA KeptRaw ==
  ASSUME NEW s \in Scopes, Bijective(s), NEW name \in Names, Plainly(name.local),
         name.space = "" \/ Writable(s, name.space, TRUE), NEW value \in Texts
  PROVE  /\ AttrText(writeName(s, name, TRUE), value) \in AttrTexts
         /\ raw(AttrText(writeName(s, name, TRUE), value)) \in AttrSet
         /\ Quiet(raw(AttrText(writeName(s, name, TRUE), value)))
         /\ raw(AttrText(writeName(s, name, TRUE), value)).name = nsname(writeName(s, name, TRUE))
         /\ raw(AttrText(writeName(s, name, TRUE), value)).value = value
<1>1. PICK url \in Texts, local \in Seq(Texts) : name.space = url /\ name.local = local
  BY DEF Names
<1>2. Plainly(local) /\ Len(local) = 1
  BY <1>1 DEF Plainly
<1>3. PICK qname \in Seq(Texts), x \in Texts :
           qname = writeName(s, name, TRUE) /\ x # "xmlns" /\ nsname(qname) = Name(x, local)
  <2>1. url \in DOMAIN s.attrPrefix => s.attrPrefix[url] # ""
    BY DEF Bijective, Reserved
  <2>2. Writable(s, name.space, TRUE) \/ (TRUE /\ name.space = "")
    OBVIOUS
  <2>3. \/ name.space = xmlURL /\ writeName(s, name, TRUE) = << "xml" >> \o name.local
        \/ /\ ~TRUE /\ name.space = s.defaultNS
           /\ writeName(s, name, TRUE) = name.local
        \/ /\ name.space \in DOMAIN s.attrPrefix /\ s.attrPrefix[name.space] # ""
           /\ writeName(s, name, TRUE) = << s.attrPrefix[name.space] >> \o name.local
        \/ /\ name.space \in DOMAIN s.attrPrefix /\ s.attrPrefix[name.space] = ""
        \/ /\ TRUE /\ name.space = "" /\ writeName(s, name, TRUE) = name.local
    BY <2>2, NameWritten
  <2>4. CASE writeName(s, name, TRUE) = << "xml" >> \o local
    <3>1. << "xml" >> \o local \in Seq(Texts) /\ nsname(<< "xml" >> \o local) = Name("xml", local)
      BY <1>2, Parts, Literals
    <3>2. "xml" # "xmlns"
      OBVIOUS
    <3> QED
      BY <2>4, <3>1, <3>2, Literals
  <2>5. CASE url \in DOMAIN s.attrPrefix /\ writeName(s, name, TRUE) = << s.attrPrefix[url] >> \o local
    <3>1. PICK x \in Texts : x = s.attrPrefix[url]
      BY <2>5, Values DEF Scopes
    <3>2. x \notin Reserved
      BY <2>5, <3>1 DEF Bijective
    <3>3. x # "xmlns"
      BY <3>2 DEF Reserved
    <3>4. << x >> \o local \in Seq(Texts) /\ nsname(<< x >> \o local) = Name(x, local)
      BY <1>2, Parts
    <3> QED
      BY <2>5, <3>1, <3>3, <3>4
  <2>6. CASE writeName(s, name, TRUE) = local
    <3>1. nsname(local) = Name("", local)
      BY <1>2, Parts, Literals
    <3>2. "" # "xmlns"
      OBVIOUS
    <3> QED
      BY <2>6, <3>1, <3>2, Literals
  <2> QED
    BY <1>1, <2>1, <2>3, <2>4, <2>5, <2>6
<1>4. Quiet(Attr(Name(x, local), value)) /\ Name(x, local) \in Names
  BY <1>2, <1>3, QuietName
<1>5. PICK n \in Names : n = Name(x, local)
  BY <1>4
<1>6. PICK t : t = AttrText(qname, value)
  OBVIOUS
<1>7. t \in AttrTexts /\ t.qname = qname /\ t.value = value
  BY <1>3, <1>6 DEF AttrText, AttrTexts
<1>8. raw(t) = Attr(n, value)
  BY <1>3, <1>5, <1>7 DEF raw
<1>9. Attr(n, value) \in AttrSet /\ Attr(n, value).name = n /\ Attr(n, value).value = value
  BY RawFields
<1> QED
  BY <1>3, <1>4, <1>5, <1>6, <1>7, <1>8, <1>9

\* Sequences of one part and of two.
LEMMA Pair ==
  ASSUME NEW e \in Texts, NEW x \in Texts
  PROVE  /\ << x >> \in Seq(Texts) /\ Len(<< x >>) = 1 /\ << e >> \o << x >> = << e, x >>
         /\ << x >> # << >> /\ Head(<< x >>) = x
<1>1. << x >> \in Seq(Texts) /\ Len(<< x >>) = 1 /\ << x >>[1] = x /\ << x >> # << >> /\ Head(<< x >>) = x
  OBVIOUS
<1>2. << e >> \in Seq(Texts) /\ Len(<< e >>) = 1 /\ << e >>[1] = e
  OBVIOUS
<1>3. /\ << e >> \o << x >> \in Seq(Texts) /\ Len(<< e >> \o << x >>) = 1 + 1
      /\ \A i \in 1..1 + 1 : (<< e >> \o << x >>)[i] = IF i <= 1 THEN << e >>[i] ELSE << x >>[i - 1]
  BY <1>1, <1>2, ConcatProperties
<1>4. PICK n \in Seq(Texts) : n = << e >> \o << x >>
  BY <1>3
<1>5. Len(n) = 2 /\ n[1] = e /\ n[2] = x
  <2>1. 1 \in 1..1 + 1 /\ 2 \in 1..1 + 1 /\ 1 + 1 = 2 /\ 2 - 1 = 1
    OBVIOUS
  <2> QED
    BY <1>1, <1>2, <1>3, <1>4, <2>1
<1>6. n = << e, x >>
  BY <1>5
<1> QED
  BY <1>1, <1>4, <1>6

\* A declaration is read as one of the same prefix.
LEMMA DeclRaw ==
  ASSUME NEW x \in Texts, NEW value \in Texts
  PROVE  /\ AttrText(declName(x), value) \in AttrTexts
         /\ raw(AttrText(declName(x), value)) \in AttrSet
         /\ raw(AttrText(declName(x), value)).value = value
         /\ Declaring(raw(AttrText(declName(x), value)), x)
         /\ isNamespace(raw(AttrText(declName(x), value)).name)
         /\ raw(AttrText(declName(x), value)).name.space = "xmlns" =>
              raw(AttrText(declName(x), value)).name.local # << >>
         /\ \/ raw(AttrText(declName(x), value)).name.space = "xmlns"
            \/ raw(AttrText(declName(x), value)).name = Name("", << "xmlns" >>)
<1>1. PICK t : t = AttrText(declName(x), value)
  OBVIOUS
<1>2. t.qname = declName(x) /\ t.value = value
  BY <1>1 DEF AttrText
<1>3. CASE x = ""
  <2>1. << "xmlns" >> \in Seq(Texts) /\ Len(<< "xmlns" >>) = 1
    BY Literals, Pair
  <2>2. nsname(<< "xmlns" >>) = Name("", << "xmlns" >>)
    BY <2>1, Parts, Literals
  <2>3. declName(x) = << "xmlns" >>
    BY <1>3 DEF declName
  <2>4. PICK n \in Names : n = Name("", << "xmlns" >>)
    BY <2>1, Literals DEF Names, Name
  <2>5. n.space = "" /\ n.local = << "xmlns" >>
    BY <2>4 DEF Name
  <2>6. PICK a \in AttrSet : a = raw(t) /\ a.name = n /\ a.value = value
    <3>1. raw(t) = Attr(n, value)
      BY <1>2, <2>2, <2>3, <2>4 DEF raw
    <3> QED
      BY <3>1, RawFields
  <2>7. a.name.space # "xmlns"
    BY <2>5, <2>6
  <2>8. Declaring(a, x)
    BY <1>3, <2>4, <2>6, <2>7 DEF Declaring
  <2>9. isNamespace(a.name)
    BY <2>5, <2>6 DEF isNamespace
  <2>10. t \in AttrTexts
    BY <1>1, <2>1, <2>3 DEF AttrText, AttrTexts
  <2> QED
    BY <1>1, <2>4, <2>6, <2>7, <2>8, <2>9, <2>10
<1>4. CASE x # ""
  <2>1. PICK e \in Texts : e = "xmlns"
    BY Literals
  <2>2. PICK local \in Seq(Texts) : local = << x >> /\ Len(local) = 1 /\ local # << >> /\ Head(local) = x
    <3>1. << x >> \in Seq(Texts) /\ Len(<< x >>) = 1 /\ << x >> # << >> /\ Head(<< x >>) = x
      BY Pair
    <3> QED
      BY <3>1
  <2>3. /\ << e >> \o local \in Seq(Texts) /\ Len(<< e >> \o local) = 2
        /\ nsname(<< e >> \o local) = Name(e, local)
    BY <2>2, Parts
  <2>4. << e >> \o local = << e, x >>
    BY <2>2, Pair
  <2>5. declName(x) = << e, x >>
    BY <1>4, <2>1 DEF declName
  <2>6. PICK n \in Names : n = Name(e, local)
    BY <2>1, <2>2 DEF Names, Name
  <2>7. n.space = "xmlns" /\ n.local = local /\ local # << >> /\ Head(local) = x
    <3>1. n.space = e /\ n.local = local
      BY <2>6, NameFields, Literals
    <3> QED
      BY <2>1, <2>2, <3>1
  <2>8. PICK a \in AttrSet : a = raw(t) /\ a.name = n /\ a.value = value
    <3>1. raw(t) = Attr(n, value)
      BY <1>2, <2>3, <2>4, <2>5, <2>6 DEF raw
    <3> QED
      BY <3>1, RawFields
  <2>9. Declaring(a, x)
    BY <2>7, <2>8 DEF Declaring
  <2>10. isNamespace(a.name)
    BY <2>7, <2>8 DEF isNamespace
  <2>11. t \in AttrTexts
    BY <1>1, <2>3, <2>4, <2>5 DEF AttrText, AttrTexts
  <2> QED
    BY <1>1, <2>7, <2>8, <2>9, <2>10, <2>11
<1> QED
  BY <1>3, <1>4

-----------------------------------------------------------------------------
(* The attributes that declare nothing.                                    *)

\* One turn of Undeclaring.
keep(s, a) == IF isNamespace(a.name) THEN s ELSE Append(s, a)

\* The attributes kept of the first k, for each k.
Sieve(U, attr) ==
  /\ U \in [0..Len(attr) -> Seq(AttrSet)]
  /\ U[0] = << >> /\ U[Len(attr)] = Undeclaring(attr)
  /\ \A k \in 1..Len(attr) : U[k] = keep(U[k - 1], attr[k])

\* Undeclaring loops over the attributes in their order.
LEMMA SieveExists ==
  ASSUME NEW attr \in Seq(AttrSet)
  PROVE  \E U : Sieve(U, attr)
<1> DEFINE Iter(g) ==
      g = [S \in SUBSET DOMAIN attr |->
             IF S = {} THEN << >> ELSE keep(g[S \ {Max(S)}], attr[Max(S)])]
<1>1. PICK N \in Nat : N = Len(attr) /\ DOMAIN attr = 1..N
  OBVIOUS
<1>2. PICK V : V = Seq(AttrSet) /\ << >> \in V
  <2>1. << >> \in Seq(AttrSet)
    OBVIOUS
  <2> QED
    BY <2>1
<1>3. ASSUME NEW r \in V, NEW i \in 1..N
      PROVE  keep(r, attr[i]) \in V
  <2>1. attr[i] \in AttrSet
    BY <1>1
  <2>2. Append(r, attr[i]) \in V
    BY <1>2, <2>1
  <2> QED
    BY <2>2 DEF keep
<1>4. PICK F \in [V \X (1..N) -> V] :
             \A r \in V, i \in 1..N : F[<< r, i >>] = keep(r, attr[i])
  <2> DEFINE F == [x \in V \X (1..N) |-> keep(x[1], attr[x[2]])]
  <2>1. F \in [V \X (1..N) -> V]
    BY <1>3
  <2>2. \A r \in V, i \in 1..N : F[<< r, i >>] = keep(r, attr[i])
    OBVIOUS
  <2> HIDE DEF F
  <2> QED
    BY <2>1, <2>2
<1>5. PICK g \in [SUBSET (1..N) -> V] :
             IsFold(g, N, << >>, F, [S \in SUBSET (1..N) |-> Max(S)])
  BY <1>2, LeftFoldExists
<1>6. \A S \in SUBSET (1..N) :
        S # {} => F[<< g[S \ {Max(S)}], Max(S) >>] = keep(g[S \ {Max(S)}], attr[Max(S)])
  BY <1>4, Extremes
<1>7. Iter(g)
  BY <1>1, <1>5, <1>6 DEF IsFold
<1>8. PICK it : it = CHOOSE h : Iter(h)
  OBVIOUS
<1>9. Iter(it)
  BY <1>7, <1>8
<1>10. Undeclaring(attr) = it[DOMAIN attr]
  BY <1>8 DEF Undeclaring, FoldLeft, MapThenFoldSet, keep
<1>11. it[{}] = << >>
  BY <1>9
<1>12. ASSUME NEW k \in 1..N
      PROVE  it[1..k] = keep(it[1..k - 1], attr[k])
  <2>1. 1..k # {} /\ Max(1..k) = k /\ (1..k) \ {k} = 1..k - 1
    BY LastOf
  <2>2. 1..k \in SUBSET DOMAIN attr
    BY <1>1
  <2>3. it[1..k] = keep(it[(1..k) \ {Max(1..k)}], attr[Max(1..k)])
    BY <1>9, <2>1, <2>2
  <2> QED
    BY <2>1, <2>3
<1> HIDE DEF Iter
<1>13. PICK U : U = [k \in 0..N |-> it[1..k]]
  OBVIOUS
<1>14. U[0] = << >>
  BY <1>11, <1>13
<1>15. ASSUME NEW k \in 1..N
       PROVE  U[k] = keep(U[k - 1], attr[k])
  BY <1>1, <1>12, <1>13, UpTo
<1>16. \A k \in 0..N : U[k] \in V
  <2>1. PICK K : K = {k \in 0..N : U[k] \in V}
    OBVIOUS
  <2>2. 0 \in K
    <3>1. 0 \in 0..N
      OBVIOUS
    <3> QED
      BY <1>2, <1>14, <2>1, <3>1
  <2>3. ASSUME NEW k \in Nat, k < N, k \in K
        PROVE  k + 1 \in K
    <3>1. k + 1 \in 1..N /\ k + 1 \in 0..N /\ (k + 1) - 1 = k
      BY <1>1, <2>3
    <3>2. U[k + 1] = keep(U[k], attr[k + 1])
      BY <1>15, <3>1
    <3>3. U[k] \in V
      BY <2>1, <2>3
    <3> QED
      BY <1>3, <2>1, <3>1, <3>2, <3>3
  <2>4. \A k \in 0..N : k \in K
    BY <2>2, <2>3, InductionUpTo
  <2> QED
    BY <2>1, <2>4
<1>17. U[N] = Undeclaring(attr)
  BY <1>1, <1>10, <1>13
<1> QED
  BY <1>1, <1>2, <1>13, <1>14, <1>15, <1>16, <1>17 DEF Sieve

\* What is kept are attributes of the list that declare nothing; and when no
\* two of the list have the same name, no two of those have.
LEMMA KeptAttrs ==
  ASSUME NEW attr \in Seq(AttrSet)
  PROVE  /\ Undeclaring(attr) \in Seq(AttrSet)
         /\ \A i \in 1..Len(Undeclaring(attr)) :
              /\ \E j \in 1..Len(attr) : Undeclaring(attr)[i] = attr[j]
              /\ ~isNamespace(Undeclaring(attr)[i].name)
         /\ (\A i, j \in 1..Len(attr) : attr[i].name = attr[j].name => i = j) =>
              \A i, j \in 1..Len(Undeclaring(attr)) :
                Undeclaring(attr)[i].name = Undeclaring(attr)[j].name => i = j
<1>1. PICK N \in Nat : N = Len(attr) /\ DOMAIN attr = 1..N
  OBVIOUS
<1>2. PICK U : Sieve(U, attr)
  BY SieveExists
<1>3. /\ U \in [0..N -> Seq(AttrSet)] /\ U[0] = << >> /\ U[N] = Undeclaring(attr)
      /\ \A k \in 1..N : U[k] = keep(U[k - 1], attr[k])
  BY <1>1, <1>2 DEF Sieve
<1> DEFINE From(s, k)  == \A i \in 1..Len(s) : /\ \E j \in 1..k : s[i] = attr[j]
                                               /\ ~isNamespace(s[i].name)
           Apart(s, n) == \A i, j \in 1..n : s[i].name = s[j].name => i = j
<1>4. PICK K : K = {k \in 0..N : From(U[k], k) /\ (Apart(attr, N) => Apart(U[k], Len(U[k])))}
  OBVIOUS
<1>5. 0 \in K
  <2>1. From(U[0], 0) /\ Apart(U[0], Len(U[0]))
    BY <1>3
  <2> QED
    BY <1>1, <1>4, <2>1
<1>6. ASSUME NEW k \in Nat, k < N, k \in K
      PROVE  k + 1 \in K
  <2>1. k + 1 \in 1..N /\ k + 1 \in 0..N /\ (k + 1) - 1 = k /\ k \in 0..N
    BY <1>1, <1>6
  <2>2. PICK s \in Seq(AttrSet), a \in AttrSet : s = U[k] /\ a = attr[k + 1]
    BY <1>1, <1>3, <2>1
  <2>3. U[k + 1] = keep(s, a)
    BY <1>3, <2>1, <2>2
  <2>4. From(s, k) /\ (Apart(attr, N) => Apart(s, Len(s)))
    BY <1>4, <1>6, <2>2
  <2>5. CASE isNamespace(a.name)
    <3>1. U[k + 1] = s
      BY <2>3, <2>5 DEF keep
    <3>2. From(s, k + 1)
      BY <2>1, <2>4
    <3> QED
      BY <1>4, <2>1, <2>4, <3>1, <3>2
  <2>6. CASE ~isNamespace(a.name)
    <3>1. PICK L \in Nat : L = Len(s)
      OBVIOUS
    <3>2. PICK t \in Seq(AttrSet) : t = U[k + 1] /\ t = Append(s, a)
      <4>1. Append(s, a) \in Seq(AttrSet)
        OBVIOUS
      <4>2. U[k + 1] = Append(s, a)
        BY <2>3, <2>6 DEF keep
      <4> QED
        BY <4>1, <4>2
    <3>3. Len(t) = L + 1 /\ t[L + 1] = a /\ \A i \in 1..L : t[i] = s[i]
      BY <3>1, <3>2, Appended
    <3>4. \A i \in 1..L + 1 : i = L + 1 \/ i \in 1..L
      BY <3>1
    <3>5. From(t, k + 1)
      <4> SUFFICES ASSUME NEW i \in 1..L + 1
                   PROVE  (\E j \in 1..k + 1 : t[i] = attr[j]) /\ ~isNamespace(t[i].name)
        BY <3>3
      <4>1. CASE i = L + 1
        <5>1. k + 1 \in 1..k + 1
          OBVIOUS
        <5> QED
          BY <2>2, <2>6, <3>3, <4>1, <5>1
      <4>2. CASE i \in 1..L
        <5>1. \E j \in 1..k : s[i] = attr[j]
          BY <2>4, <3>1, <4>2
        <5>2. ~isNamespace(s[i].name)
          BY <2>4, <3>1, <4>2
        <5>3. \A j \in 1..k : j \in 1..k + 1
          OBVIOUS
        <5> QED
          BY <3>3, <4>2, <5>1, <5>2, <5>3
      <4> QED
        BY <3>4, <4>1, <4>2
    <3>6. ASSUME Apart(attr, N)
          PROVE  Apart(t, L + 1)
      <4>1. \A i \in 1..L : s[i].name # a.name
        <5> SUFFICES ASSUME NEW i \in 1..L, s[i].name = a.name
                     PROVE  FALSE
          OBVIOUS
        <5>1. PICK j \in 1..k : s[i] = attr[j]
          BY <2>4, <3>1
        <5>2. j \in 1..N /\ j # k + 1
          BY <2>1
        <5> QED
          BY <2>1, <2>2, <3>6, <5>1, <5>2
      <4>2. Apart(s, L)
        BY <2>4, <3>1, <3>6
      <4> QED
        BY <3>3, <3>4, <4>1, <4>2
    <3> QED
      BY <1>4, <2>1, <3>2, <3>3, <3>5, <3>6
  <2> QED
    BY <2>5, <2>6
<1>7. \A k \in 0..N : k \in K
  BY <1>5, <1>6, InductionUpTo
<1>8. N \in 0..N
  BY <1>1
<1>9. From(U[N], N) /\ (Apart(attr, N) => Apart(U[N], Len(U[N]))) /\ U[N] \in Seq(AttrSet)
  BY <1>3, <1>4, <1>7, <1>8
<1> QED
  BY <1>1, <1>3, <1>9

\* The text of an attribute, and an attribute that has one, should it need it.
Text(q, a) == AttrText(writeName(q, a.name, TRUE), a.value)
Textual(q, a) == ~isNamespace(a.name) => a.name.local # << >> /\ Text(q, a) \in AttrTexts

\* The attributes of the tag are those, with their names written out.
LEMMA WrittenAttrs ==
  ASSUME NEW q, NEW attr \in Seq(AttrSet), \A i \in 1..Len(attr) : Textual(q, attr[i])
  PROVE  /\ writeAttrs(q, attr) \in Seq(AttrTexts)
         /\ Len(writeAttrs(q, attr)) = Len(Undeclaring(attr))
         /\ \A i \in 1..Len(Undeclaring(attr)) :
              writeAttrs(q, attr)[i] = Text(q, Undeclaring(attr)[i])
<1>1. PICK N \in Nat : N = Len(attr) /\ DOMAIN attr = 1..N
  OBVIOUS
<1>2. PICK U : Sieve(U, attr)
  BY SieveExists
<1>3. /\ U \in [0..N -> Seq(AttrSet)] /\ U[0] = << >> /\ U[N] = Undeclaring(attr)
      /\ \A k \in 1..N : U[k] = keep(U[k - 1], attr[k])
  BY <1>1, <1>2 DEF Sieve
<1>4. \A i \in 1..N : attr[i] \in AttrSet /\ Textual(q, attr[i])
  BY <1>1
<1>5. PICK V : V = Seq(AttrTexts)
  OBVIOUS
<1>6. PICK G : G = [k \in 0..N |-> {s \in V : Len(s) = Len(U[k]) /\ \A i \in 1..Len(U[k]) : s[i] = Text(q, U[k][i])}]
  OBVIOUS
<1>7. << >> \in V /\ << >> \in G[0]
  <2>1. << >> \in Seq(AttrTexts) /\ Len(<< >>) = 0
    OBVIOUS
  <2>2. 0 \in 0..N
    BY <1>1
  <2> QED
    BY <1>3, <1>5, <1>6, <2>1, <2>2
<1>8. ASSUME NEW r, NEW i \in 1..N
      PROVE  written(q, r, attr[i]) = IF isNamespace(attr[i].name) THEN r ELSE Append(r, Text(q, attr[i]))
  BY <1>4 DEF written, Text, Textual
<1>9. ASSUME NEW r \in V, NEW i \in 1..N
      PROVE  written(q, r, attr[i]) \in V
  <2>1. CASE isNamespace(attr[i].name)
    BY <1>8, <2>1
  <2>2. CASE ~isNamespace(attr[i].name)
    <3>1. PICK t \in AttrTexts : t = Text(q, attr[i])
      BY <1>4, <2>2 DEF Textual
    <3>2. Append(r, t) \in V
      BY <1>5
    <3> QED
      BY <1>8, <2>2, <3>1, <3>2
  <2> QED
    BY <2>1, <2>2
<1>10. ASSUME NEW k \in 1..N, NEW r \in G[k - 1]
       PROVE  written(q, r, attr[k]) \in G[k]
  <2>1. k \in 0..N /\ k - 1 \in 0..N
    BY <1>1, UpTo
  <2>2. PICK u \in Seq(AttrSet), a \in AttrSet : u = U[k - 1] /\ a = attr[k]
    <3>1. U[k - 1] \in Seq(AttrSet) /\ attr[k] \in AttrSet
      BY <1>3, <1>4, <2>1
    <3> QED
      BY <3>1
  <2>3. U[k] = keep(u, a)
    BY <1>3, <2>2
  <2>4. r \in V /\ Len(r) = Len(u) /\ \A i \in 1..Len(u) : r[i] = Text(q, u[i])
    BY <1>6, <2>1, <2>2
  <2>5. CASE isNamespace(a.name)
    BY <1>6, <1>8, <2>1, <2>2, <2>3, <2>4, <2>5 DEF keep
  <2>6. CASE ~isNamespace(a.name)
    <3>1. PICK L \in Nat : L = Len(u) /\ L = Len(r)
      BY <2>4
    <3>2. PICK t \in AttrTexts : t = Text(q, a)
      BY <1>4, <2>2, <2>6 DEF Textual
    <3>3. PICK v \in Seq(AttrSet) : v = U[k] /\ v = Append(u, a)
      <4>1. Append(u, a) \in Seq(AttrSet)
        OBVIOUS
      <4>2. U[k] = Append(u, a)
        BY <2>3, <2>6 DEF keep
      <4> QED
        BY <4>1, <4>2
    <3>4. PICK s \in Seq(AttrTexts) : s = written(q, r, attr[k]) /\ s = Append(r, t)
      <4>1. Append(r, t) \in Seq(AttrTexts)
        BY <1>5, <2>4
      <4>2. written(q, r, attr[k]) = Append(r, t)
        BY <1>8, <2>2, <2>6, <3>2
      <4> QED
        BY <4>1, <4>2
    <3>5. Len(v) = L + 1 /\ v[L + 1] = a /\ \A i \in 1..L : v[i] = u[i]
      <4>1. L = Len(u) /\ v = Append(u, a)
        BY <3>1, <3>3
      <4> QED
        BY <4>1, Appended
    <3>6. Len(s) = L + 1 /\ s[L + 1] = t /\ \A i \in 1..L : s[i] = r[i]
      BY <1>5, <2>4, <3>1, <3>4, Appended
    <3>7. \A i \in 1..L + 1 : s[i] = Text(q, v[i])
      <4>1. \A i \in 1..L + 1 : i = L + 1 \/ i \in 1..L
        BY <3>1
      <4>2. \A i \in 1..L : s[i] = Text(q, v[i])
        BY <2>4, <3>1, <3>5, <3>6
      <4> QED
        BY <3>2, <3>5, <3>6, <4>1, <4>2
    <3> QED
      BY <1>5, <1>6, <2>1, <3>3, <3>4, <3>5, <3>6, <3>7
  <2> QED
    BY <2>5, <2>6
<1>11. writeAttrs(q, attr) \in G[N]
  <2>1. \A r \in V, i \in DOMAIN attr : written(q, r, attr[i]) \in V
    BY <1>1, <1>9
  <2>2. \A k \in 1..Len(attr) : \A r \in G[k - 1] : written(q, r, attr[k]) \in G[k]
    BY <1>1, <1>10
  <2>3. writeAttrs(q, attr) \in G[Len(attr)]
    BY <1>7, <2>1, <2>2, WriteAttrsKeeps
  <2> QED
    BY <1>1, <2>3
<1>12. N \in 0..N
  BY <1>1
<1> QED
  BY <1>3, <1>5, <1>6, <1>11, <1>12

\* The text of a start tag's attributes, and what the decoder first has of them.
attrTexts(q, attr) == writeNamespaces(q) \o writeAttrs(q, attr)
rawAttrs(q, attr) == [i \in DOMAIN attrTexts(q, attr) |-> raw(attrTexts(q, attr)[i])]

\* The declarations above the mark m say what can be said in XML.
Announced(q, m) ==
  \A j \in m + 1..Len(q.prefixes) :
    q.prefixes[j].prefix # "" =>
      q.prefixes[j].prefix \notin Reserved /\ nsForPrefix(q, q.prefixes[j].prefix) # ""

\* There is a way to write an attribute.
Sound(q, a) ==
  \/ isNamespace(a.name)
  \/ Plainly(a.name.local) /\ (a.name.space = "" \/ Writable(ScopeOf(q), a.name.space, TRUE))

\* The printer and its scope write a name alike.
LEMMA ScopeWrites ==
  ASSUME NEW q, NEW name, NEW isAttr
  PROVE  writeName(ScopeOf(q), name, isAttr) = writeName(q, name, isAttr)
BY DEF writeName, prefixForNS, ScopeOf

\* What a prefix stands for is a name space.
LEMMA LooksType ==
  ASSUME NEW q \in Printers, NEW x \in Texts
  PROVE  nsForPrefix(q, x) \in Texts
<1>1. ScopeOf(q) \in Scopes
  BY ScopeType
<1>2. nsForPrefix(ScopeOf(q), x) \in Texts
  BY <1>1, SetType
<1> QED
  BY <1>2, ScopeLooks

\* The text of one attribute that declares nothing.
LEMMA SoundText ==
  ASSUME NEW q \in Printers, Bijective(ScopeOf(q)), NEW a \in AttrSet, Sound(q, a),
         ~isNamespace(a.name)
  PROVE  /\ a.name.local # << >> /\ Text(q, a) \in AttrTexts /\ raw(Text(q, a)) \in AttrSet
         /\ Quiet(raw(Text(q, a))) /\ raw(Text(q, a)).value = a.value
         /\ raw(Text(q, a)).name = nsname(writeName(q, a.name, TRUE))
<1>1. a.name \in Names /\ a.value \in Texts /\ a.name.local \in Seq(Texts)
  BY DEF AttrSet, Names
<1>2. Plainly(a.name.local) /\ (a.name.space = "" \/ Writable(ScopeOf(q), a.name.space, TRUE))
  BY DEF Sound
<1>3. a.name.local # << >>
  <2>1. PICK local \in Seq(Texts) : local = a.name.local /\ Len(local) = 1
    BY <1>1, <1>2 DEF Plainly
  <2>2. local # << >>
    BY <2>1, EmptySeq
  <2> QED
    BY <2>1, <2>2
<1>4. PICK s \in Scopes : s = ScopeOf(q) /\ Bijective(s)
  BY ScopeType
<1>5. PICK name \in Names, value \in Texts : name = a.name /\ value = a.value
  BY <1>1
<1>6. Plainly(name.local) /\ (name.space = "" \/ Writable(s, name.space, TRUE))
  BY <1>2, <1>4, <1>5
<1>7. /\ AttrText(writeName(s, name, TRUE), value) \in AttrTexts
      /\ raw(AttrText(writeName(s, name, TRUE), value)) \in AttrSet
      /\ Quiet(raw(AttrText(writeName(s, name, TRUE), value)))
      /\ raw(AttrText(writeName(s, name, TRUE), value)).name = nsname(writeName(s, name, TRUE))
      /\ raw(AttrText(writeName(s, name, TRUE), value)).value = value
  BY <1>4, <1>6, KeptRaw
<1>8. writeName(s, name, TRUE) = writeName(q, a.name, TRUE)
  BY <1>4, <1>5, ScopeWrites
<1>9. Text(q, a) = AttrText(writeName(s, name, TRUE), value)
  BY <1>5, <1>8 DEF Text
<1> QED
  BY <1>3, <1>5, <1>7, <1>8, <1>9

\* The declarations of a start tag, one by one.
LEMMA DeclTexts ==
  ASSUME NEW q \in Printers, NEW m, LastMark(q, m)
  PROVE  /\ m \in Nat /\ Len(q.prefixes) \in Nat /\ Len(q.prefixes) - m \in Nat
         /\ writeNamespaces(q) \in Seq(AttrTexts)
         /\ Len(writeNamespaces(q)) = Len(q.prefixes) - m
         /\ \A i \in 1..Len(q.prefixes) - m :
              /\ (Len(q.prefixes) + 1) - i \in m + 1..Len(q.prefixes)
              /\ q.prefixes[(Len(q.prefixes) + 1) - i].prefix \in Texts
              /\ writeNamespaces(q)[i] =
                   AttrText(declName(q.prefixes[(Len(q.prefixes) + 1) - i].prefix),
                            nsForPrefix(q, q.prefixes[(Len(q.prefixes) + 1) - i].prefix))
<1>1. PICK L \in Nat : L = Len(q.prefixes)
  BY DEF Printers
<1>2. m \in 1..L /\ m \in Nat /\ L - m \in Nat
  BY <1>1 DEF LastMark
<1> DEFINE Pre(i) == q.prefixes[(L + 1) - i].prefix
<1>3. ASSUME NEW i \in 1..L - m
      PROVE  (L + 1) - i \in m + 1..L /\ Pre(i) \in Texts /\ nsForPrefix(q, Pre(i)) \in Texts
  <2>1. (L + 1) - i \in m + 1..L /\ (L + 1) - i \in 1..L
    BY <1>2
  <2>2. Pre(i) \in Texts
    BY <1>1, <2>1, RecordType
  <2> QED
    BY <2>1, <2>2, LooksType
<1>4. writeNamespaces(q) = [i \in 1..L - m |-> AttrText(declName(Pre(i)), nsForPrefix(q, Pre(i)))]
  <2>1. writeNamespaces(q) =
          [i \in 1..Len(q.prefixes) - m |->
             AttrText(declName(q.prefixes[(Len(q.prefixes) + 1) - i].prefix),
                      nsForPrefix(q, q.prefixes[(Len(q.prefixes) + 1) - i].prefix))]
    BY WrittenNamespaces
  <2> QED
    BY <1>1, <2>1
<1> HIDE DEF Pre
<1>5. ASSUME NEW i \in 1..L - m
      PROVE  AttrText(declName(Pre(i)), nsForPrefix(q, Pre(i))) \in AttrTexts
  BY <1>3, DeclRaw
<1>6. writeNamespaces(q) \in [1..L - m -> AttrTexts]
  BY <1>4, <1>5
<1>7. writeNamespaces(q) \in Seq(AttrTexts) /\ Len(writeNamespaces(q)) = L - m
  BY <1>2, <1>6
<1>8. \A i \in 1..L - m : writeNamespaces(q)[i] = AttrText(declName(Pre(i)), nsForPrefix(q, Pre(i)))
  BY <1>4
<1> QED
  BY <1>1, <1>2, <1>3, <1>7, <1>8 DEF Pre

\* Is this one of the prefixes declared above the mark m?
DeclaredHere(q, m, x) == \E j \in m + 1..Len(q.prefixes) : q.prefixes[j].prefix = x

\* A declaration of the element q is in is read as what q thinks.
LEMMA RawDecl ==
  ASSUME NEW q \in Printers, NEW m, LastMark(q, m), Announced(q, m), NEW x,
         DeclaredHere(q, m, x)
  PROVE  /\ raw(AttrText(declName(x), nsForPrefix(q, x))) \in AttrSet
         /\ Truthful(q, raw(AttrText(declName(x), nsForPrefix(q, x))))
         /\ \A z : Declaring(raw(AttrText(declName(x), nsForPrefix(q, x))), z) <=> z = x
         /\ isNamespace(raw(AttrText(declName(x), nsForPrefix(q, x))).name)
<1>1. PICK L \in Nat : L = Len(q.prefixes)
  BY DEF Printers
<1>2. x \in Texts
  <2>1. PICK j \in m + 1..L : x = q.prefixes[j].prefix
    BY <1>1 DEF DeclaredHere
  <2>2. j \in 1..L
    BY <1>1 DEF LastMark
  <2> QED
    BY <1>1, <2>1, <2>2, RecordType
<1>3. PICK url \in Texts : url = nsForPrefix(q, x)
  BY <1>2, LooksType
<1>4. x = "" \/ url # ""
  BY <1>3 DEF Announced, DeclaredHere
<1>5. PICK a : a = raw(AttrText(declName(x), url))
  OBVIOUS
<1>6. /\ a \in AttrSet /\ a.value = url /\ Declaring(a, x) /\ isNamespace(a.name)
      /\ a.name.space = "xmlns" => a.name.local # << >>
  BY <1>2, <1>5, DeclRaw
<1>7. \A z : Declaring(a, z) <=> z = x
  BY <1>6, DeclaresOne
<1>8. Truthful(q, a)
  BY <1>3, <1>4, <1>6, <1>7 DEF Truthful
<1> QED
  BY <1>3, <1>5, <1>6, <1>7, <1>8

\* A sequence after another: its places come after the other's.
LEMMA Joined ==
  ASSUME NEW S, NEW s \in Seq(S), NEW t \in Seq(S)
  PROVE  /\ s \o t \in Seq(S) /\ Len(s \o t) = Len(s) + Len(t)
         /\ \A i \in 1..Len(s) : (s \o t)[i] = s[i]
         /\ \A i \in 1..Len(t) : (s \o t)[Len(s) + i] = t[i]
<1>0. PICK K \in Nat, M \in Nat : K = Len(s) /\ M = Len(t)
  OBVIOUS
<1>1. /\ s \o t \in Seq(S) /\ Len(s \o t) = Len(s) + Len(t)
      /\ \A i \in 1..Len(s) + Len(t) : (s \o t)[i] = IF i <= Len(s) THEN s[i] ELSE t[i - Len(s)]
  BY ConcatProperties
<1>2. PICK j : j = s \o t
  OBVIOUS
<1>3. Len(j) = K + M /\ \A i \in 1..K + M : j[i] = IF i <= K THEN s[i] ELSE t[i - K]
  BY <1>0, <1>1, <1>2
<1>4. ASSUME NEW i \in 1..K
      PROVE  j[i] = s[i]
  BY <1>3
<1>5. ASSUME NEW i \in 1..M
      PROVE  j[K + i] = t[i]
  <2>1. K + i \in 1..K + M /\ ~(K + i <= K) /\ (K + i) - K = i
    OBVIOUS
  <2> QED
    BY <1>3, <2>1
<1> QED
  BY <1>0, <1>1, <1>2, <1>3, <1>4, <1>5

\* The places of two sequences in a row.
LEMMA Halves ==
  ASSUME NEW K \in Nat, NEW M \in Nat
  PROVE  /\ \A i \in 1..K : i \in 1..K + M
         /\ \A i \in 1..M : K + i \in 1..K + M
  OBVIOUS

\* Each of them is a place of one of the two.
LEMMA Half ==
  ASSUME NEW K \in Nat, NEW M \in Nat, NEW i \in 1..K + M
  PROVE  i \in 1..K \/ \E n \in 1..M : i = K + n
<1>1. ASSUME ~(i <= K)
      PROVE  \E n \in 1..M : i = K + n
  <2>1. i - K \in 1..M /\ i = K + (i - K)
    BY <1>1
  <2> QED
    BY <2>1
<1> QED
  BY <1>1

\* The attributes A of the start tag of the element q is in, written as T: its
\* K declarations, the last first, then the attributes kept.
TagAttrs(q, m, K, kept, A, T) ==
  /\ A \in Seq(AttrSet) /\ Len(A) = K + Len(kept) /\ T \in Seq(AttrTexts)
  /\ Len(T) = K + Len(kept)
  /\ \A i \in 1..K :
       /\ isNamespace(A[i].name) /\ Truthful(q, A[i])
       /\ (Len(q.prefixes) + 1) - i \in m + 1..Len(q.prefixes)
       /\ \A x : Declaring(A[i], x) <=> x = q.prefixes[(Len(q.prefixes) + 1) - i].prefix
       /\ T[i].qname = declName(q.prefixes[(Len(q.prefixes) + 1) - i].prefix)
  /\ \A i \in 1..Len(kept) :
       /\ A[K + i].name = nsname(writeName(q, kept[i].name, TRUE))
       /\ A[K + i].value = kept[i].value
       /\ Quiet(A[K + i]) /\ Sound(q, kept[i])
       /\ T[K + i].qname = writeName(q, kept[i].name, TRUE)

\* The attributes as they are read from a start tag: the declarations, then
\* those that declare nothing.
LEMMA RawAttrs ==
  ASSUME NEW q \in Printers, Bijective(ScopeOf(q)), NEW m, LastMark(q, m), Announced(q, m),
         NEW attr \in Seq(AttrSet), \A i \in 1..Len(attr) : Sound(q, attr[i]),
         NEW K \in Nat, K = Len(q.prefixes) - m, NEW kept \in Seq(AttrSet),
         kept = Undeclaring(attr)
  PROVE  TagAttrs(q, m, K, kept, rawAttrs(q, attr), attrTexts(q, attr))
<1>1. PICK L \in Nat : L = Len(q.prefixes)
  BY DEF Printers
<1>2. PICK N \in Nat : N = Len(attr) /\ DOMAIN attr = 1..N
  OBVIOUS
<1>3. /\ kept \in Seq(AttrSet)
      /\ \A i \in 1..Len(kept) : /\ \E j \in 1..N : kept[i] = attr[j]
                                 /\ ~isNamespace(kept[i].name)
  BY <1>2, KeptAttrs
<1>4. PICK M \in Nat : M = Len(kept) /\ DOMAIN kept = 1..M
  BY <1>3
<1>5. PICK decls \in Seq(AttrTexts) : decls = writeNamespaces(q) /\ Len(decls) = K
  BY DeclTexts
<1>6. m \in Nat /\ L - m = K
  BY <1>1, DeclTexts
<1>7. ASSUME NEW i \in 1..K
      PROVE  /\ (L + 1) - i \in m + 1..L
             /\ decls[i] = AttrText(declName(q.prefixes[(L + 1) - i].prefix),
                                    nsForPrefix(q, q.prefixes[(L + 1) - i].prefix))
  BY <1>1, <1>5, DeclTexts
<1>8. ASSUME NEW i \in 1..N
      PROVE  Textual(q, attr[i])
  <2>1. PICK a \in AttrSet : a = attr[i]
    BY <1>2
  <2>2. Sound(q, a)
    BY <1>2, <2>1
  <2>3. ~isNamespace(a.name) => a.name.local # << >> /\ Text(q, a) \in AttrTexts
    BY <2>2, SoundText
  <2> QED
    BY <2>1, <2>3 DEF Textual
<1>9. PICK rest \in Seq(AttrTexts) :
           rest = writeAttrs(q, attr) /\ Len(rest) = M /\ \A i \in 1..M : rest[i] = Text(q, kept[i])
  BY <1>2, <1>4, <1>8, WrittenAttrs
<1>10. PICK T \in Seq(AttrTexts) :
            /\ T = attrTexts(q, attr) /\ Len(T) = K + M
            /\ \A i \in 1..K : T[i] = decls[i]
            /\ \A i \in 1..M : T[K + i] = rest[i]
  <2>1. /\ decls \o rest \in Seq(AttrTexts) /\ Len(decls \o rest) = K + M
        /\ \A i \in 1..K : (decls \o rest)[i] = decls[i]
        /\ \A i \in 1..M : (decls \o rest)[K + i] = rest[i]
    <3>1. Len(decls) = K /\ Len(rest) = M
      BY <1>5, <1>9
    <3>2. /\ decls \o rest \in Seq(AttrTexts) /\ Len(decls \o rest) = Len(decls) + Len(rest)
          /\ \A i \in 1..Len(decls) : (decls \o rest)[i] = decls[i]
          /\ \A i \in 1..Len(rest) : (decls \o rest)[Len(decls) + i] = rest[i]
      BY Joined
    <3> QED
      BY <3>1, <3>2
  <2>2. attrTexts(q, attr) = decls \o rest
    BY <1>5, <1>9 DEF attrTexts
  <2> QED
    BY <2>1, <2>2
<1>11. \A i \in 1..K : T[i] = decls[i] /\ i \in 1..K + M
  BY <1>10, Halves
<1>12. \A i \in 1..M : T[K + i] = Text(q, kept[i]) /\ K + i \in 1..K + M
  BY <1>9, <1>10, Halves
<1>13. PICK A : A = rawAttrs(q, attr)
  OBVIOUS
<1>14. DOMAIN T = 1..K + M /\ A = [i \in 1..K + M |-> raw(T[i])]
  BY <1>10, <1>13 DEF rawAttrs
<1>15. ASSUME NEW i \in 1..K
       PROVE  /\ A[i] \in AttrSet /\ Truthful(q, A[i]) /\ isNamespace(A[i].name)
              /\ \A x : Declaring(A[i], x) <=> x = q.prefixes[(L + 1) - i].prefix
              /\ T[i].qname = declName(q.prefixes[(L + 1) - i].prefix)
  <2>1. PICK j \in m + 1..L : j = (L + 1) - i
    BY <1>7
  <2>2. PICK x : x = q.prefixes[j].prefix
    OBVIOUS
  <2>3. T[i] = AttrText(declName(x), nsForPrefix(q, x))
    BY <1>7, <1>11, <2>1, <2>2
  <2>4. A[i] = raw(AttrText(declName(x), nsForPrefix(q, x)))
    BY <1>11, <1>14, <2>3
  <2>5. A[i] \in AttrSet /\ Truthful(q, A[i]) /\ isNamespace(A[i].name) /\ \A z : Declaring(A[i], z) <=> z = x
    <3>1. DeclaredHere(q, m, x)
      BY <1>1, <2>2 DEF DeclaredHere
    <3>2. PICK b : b = raw(AttrText(declName(x), nsForPrefix(q, x)))
      OBVIOUS
    <3>3. b \in AttrSet /\ Truthful(q, b) /\ isNamespace(b.name) /\ \A z : Declaring(b, z) <=> z = x
      BY <3>1, <3>2, RawDecl
    <3> QED
      BY <2>4, <3>2, <3>3
  <2>6. T[i].qname = declName(x)
    <3>1. AttrText(declName(x), nsForPrefix(q, x)).qname = declName(x)
      BY DEF AttrText
    <3> QED
      BY <2>3, <3>1
  <2> QED
    BY <2>1, <2>2, <2>5, <2>6
<1>16. ASSUME NEW i \in 1..M
       PROVE  /\ A[K + i] \in AttrSet /\ Truthful(q, A[K + i])
              /\ A[K + i].name = nsname(writeName(q, kept[i].name, TRUE))
              /\ A[K + i].value = kept[i].value
              /\ Quiet(A[K + i]) /\ Sound(q, kept[i])
              /\ T[K + i].qname = writeName(q, kept[i].name, TRUE)
  <2>1. PICK a \in AttrSet : a = kept[i]
    BY <1>3, <1>4
  <2>2. Sound(q, a) /\ ~isNamespace(a.name)
    BY <1>2, <1>3, <1>4, <2>1
  <2>3. /\ raw(Text(q, a)) \in AttrSet
        /\ Quiet(raw(Text(q, a))) /\ raw(Text(q, a)).value = a.value
        /\ raw(Text(q, a)).name = nsname(writeName(q, a.name, TRUE))
    BY <2>2, SoundText
  <2>4. PICK b \in AttrSet : b = raw(Text(q, a))
    BY <2>3
  <2>5. A[K + i] = b
    BY <1>12, <1>14, <2>1, <2>4
  <2>6. Truthful(q, b)
    <3>1. \A x : ~Declaring(b, x)
      BY <2>3, <2>4 DEF Quiet
    <3>2. b.name.space # "xmlns"
      BY <2>3, <2>4 DEF Quiet, isNamespace
    <3> QED
      BY <3>1, <3>2 DEF Truthful
  <2>7. T[K + i].qname = writeName(q, a.name, TRUE)
    <3>1. Text(q, a).qname = writeName(q, a.name, TRUE)
      BY DEF Text, AttrText
    <3> QED
      BY <1>12, <2>1, <3>1
  <2> QED
    BY <2>1, <2>2, <2>3, <2>4, <2>5, <2>6, <2>7
<1>17. ASSUME NEW i \in 1..K + M
       PROVE  A[i] \in AttrSet
  <2>1. i \in 1..K \/ \E n \in 1..M : i = K + n
    BY Half
  <2> QED
    BY <1>15, <1>16, <2>1
<1>18. A \in Seq(AttrSet) /\ Len(A) = K + M
  <2>1. PICK n \in Nat : n = K + M
    OBVIOUS
  <2>2. A \in [1..n -> AttrSet]
    BY <1>14, <1>17, <2>1
  <2>3. A \in Seq(AttrSet) /\ Len(A) = n
    BY <2>2
  <2> QED
    BY <2>1, <2>3
<1>19. TagAttrs(q, m, K, kept, A, T)
  BY <1>1, <1>4, <1>6, <1>7, <1>10, <1>15, <1>16, <1>18 DEF TagAttrs
<1> QED
  BY <1>10, <1>13, <1>19

-----------------------------------------------------------------------------
(* What a caller encodes.                                                  *)

\* An attribute that the printer does not refuse declares what XML allows, or
\* is in a name space with proper prefixes.
LEMMA ProperSuited ==
  ASSUME NEW a \in AttrSet, Proper(a), ~Redefines(a)
  PROVE  /\ Declares(a) /\ Suited(a)
         /\ isNamespace(a.name) \/ Plainly(a.name.local)
<1>1. a.name \in Names /\ a.name.local \in Seq(Texts)
  BY DEF AttrSet, Names
<1>2. CASE a.name.space = "xmlns" /\ Len(a.name.local) = 1 /\ a.name.local[1] \notin Reserved
  <2>1. isNamespace(a.name)
    BY <1>2 DEF isNamespace
  <2>2. PICK local \in Seq(Texts) : local = a.name.local /\ Len(local) = 1 /\ local[1] \notin Reserved
    BY <1>1, <1>2
  <2>3. local # << >>
    BY <2>2, EmptySeq
  <2>4. Head(local) = local[1]
    BY <2>3, FirstPart
  <2>5. Declares(a)
    BY <2>2, <2>3, <2>4 DEF Declares
  <2> QED
    BY <2>1, <2>5 DEF Suited
<1>3. CASE a.name.local = << "xmlns" >> /\ a.name.space \notin {"xmlns", "xml", xmlURL}
  <2>1. isNamespace(a.name)
    BY <1>3 DEF isNamespace
  <2>2. Declares(a)
    BY <1>3 DEF Declares
  <2> QED
    BY <2>1, <2>2 DEF Suited
<1>4. CASE a.name.space \in NameSpaces \ {"xmlns"} /\ Plainly(a.name.local)
  <2>1. a.name.local # << "xmlns" >>
    <3>1. a.name.local[1] # "xmlns"
      BY <1>4 DEF Plainly
    <3>2. ASSUME a.name.local = << "xmlns" >>
          PROVE  FALSE
      BY <3>1, <3>2
    <3> QED
      BY <3>2
  <2>2. ~isNamespace(a.name)
    BY <1>4, <2>1 DEF isNamespace
  <2>3. Declares(a)
    BY <2>2 DEF Declares
  <2>4. PICK url \in NameSpaces : url = a.name.space
    BY <1>4
  <2>5. Hinted(url)
    BY TokensAssumption DEF Hinted, Texts
  <2>6. Suited(a)
    BY <2>4, <2>5 DEF Suited
  <2> QED
    BY <1>4, <2>3, <2>6
<1> QED
  BY <1>2, <1>3, <1>4 DEF Proper

\* The start elements a caller may encode.
Startable(name, attr) ==
  /\ name \in Names /\ Hinted(name.space) /\ Plainly(name.local)
  /\ attr \in Seq(AttrSet) /\ \A i \in DOMAIN attr : Proper(attr[i])

\* They are made of the names and the attributes there are.
LEMMA CallerStarts ==
  ASSUME NEW name \in Elements, NEW attr \in AttrLists
  PROVE  /\ Startable(name, attr)
         /\ Startable(name, Append(attr, Attr(Name("", << "xmlns" >>), name.space)))
<1>1. name \in Names /\ Plainly(name.local) /\ name.space \in NameSpaces
  <2>1. name \in [space : NameSpaces, local : Seq(STRING)] /\ Plainly(name.local)
    BY TokensAssumption
  <2>2. \A url \in NameSpaces : url \in Texts
    BY TokensAssumption DEF Texts
  <2>3. name \in [space : NameSpaces, local : Seq(Texts)]
    BY <2>1 DEF Texts
  <2>4. PICK url \in NameSpaces, local \in Seq(Texts) : name = [space |-> url, local |-> local]
    BY <2>3
  <2>5. url \in Texts /\ name.space = url
    BY <2>2, <2>4
  <2>6. name \in Names
    BY <2>4, <2>5 DEF Names
  <2> QED
    BY <2>1, <2>5, <2>6
<1>2. Hinted(name.space)
  <2>1. PICK url \in NameSpaces : url = name.space
    BY <1>1
  <2>2. Hinted(url)
    BY TokensAssumption DEF Hinted, Texts
  <2> QED
    BY <2>1, <2>2
<1>3. attr \in Seq(AttrSet) /\ \A i \in DOMAIN attr : Proper(attr[i])
  BY TokensAssumption DEF Names, AttrSet, Texts
<1>4. PICK a \in AttrSet : a = Attr(Name("", << "xmlns" >>), name.space) /\ Proper(a)
  <2>1. PICK local \in Seq(Texts) : local = << "xmlns" >>
    BY Literals, Pair
  <2>2. PICK n \in Names : n = Name("", local) /\ n.space = "" /\ n.local = local
    <3>1. PICK x \in Texts : x = ""
      BY Literals
    <3>2. Name(x, local) \in Names /\ Name(x, local).space = x /\ Name(x, local).local = local
      BY DEF Names, Name
    <3> QED
      BY <3>1, <3>2
  <2>3. name.space \in Texts
    BY <1>1 DEF Names
  <2>4. PICK a \in AttrSet : a = Attr(n, name.space) /\ a.name = n
    BY <2>3, RawFields
  <2>5. "" # "xmlns" /\ "" # "xml" /\ "" # xmlURL
    BY DEF xmlURL
  <2>6. Proper(a)
    BY <2>1, <2>2, <2>4, <2>5 DEF Proper
  <2> QED
    BY <2>1, <2>2, <2>4, <2>6
<1>5. PICK more \in Seq(AttrSet) : more = Append(attr, a)
  BY <1>3, Appended
<1>6. \A i \in DOMAIN more : Proper(more[i])
  <2>1. PICK N \in Nat : N = Len(attr) /\ DOMAIN attr = 1..N
    BY <1>3
  <2>2. Len(more) = N + 1 /\ more[N + 1] = a /\ \A i \in 1..N : more[i] = attr[i]
    BY <1>3, <1>5, <2>1, Appended
  <2>3. DOMAIN more = 1..N + 1
    BY <1>5, <2>2
  <2> SUFFICES ASSUME NEW i \in 1..N + 1
               PROVE  Proper(more[i])
    BY <2>3
  <2>4. i = N + 1 \/ i \in 1..N
    BY <2>1
  <2> QED
    BY <1>3, <1>4, <2>1, <2>2, <2>4
<1> QED
  BY <1>1, <1>2, <1>3, <1>4, <1>5, <1>6 DEF Startable

\* What is startable and not refused can be asked of the printer.
LEMMA StartableAsked ==
  ASSUME NEW name, NEW attr, Startable(name, attr), \A i \in DOMAIN attr : ~Redefines(attr[i])
  PROVE  Asked(name, attr)
<1>1. attr \in Seq(AttrSet)
  BY DEF Startable
<1>2. ASSUME NEW i \in DOMAIN attr
      PROVE  Declares(attr[i]) /\ Suited(attr[i])
  <2>1. attr[i] \in AttrSet
    BY <1>1
  <2>2. Proper(attr[i]) /\ ~Redefines(attr[i])
    BY DEF Startable
  <2> QED
    BY <2>1, <2>2, ProperSuited
<1> QED
  BY <1>2 DEF Asked, Startable

\* There is a way to write what the printer has prefixes for.
LEMMA KnownSound ==
  ASSUME NEW q, NEW a \in AttrSet, Proper(a), ~Redefines(a), Known(q, a)
  PROVE  Sound(q, a)
<1>1. isNamespace(a.name) \/ Plainly(a.name.local)
  BY ProperSuited
<1>2. ScopeOf(q).attrPrefix = q.attrPrefix
  BY DEF ScopeOf
<1> QED
  BY <1>1, <1>2 DEF Known, Sound, Writable

-----------------------------------------------------------------------------
(* Token, for each item the printer writes.                                *)

\* A decoder that reads what the printer writes reads on.
LEMMA ReaderReads ==
  ASSUME NEW r \in Readers
  PROVE  ~AtEOF(r) /\ r.err = "nil" /\ r.needClose = FALSE
<1>1. r.err = "nil" /\ r.needClose = FALSE /\ r.stk \in Seq(Entries)
  BY DEF Readers
<1>2. SUFFICES ASSUME r.stk # << >>
               PROVE  Last(r.stk).kind # "EOF"
  BY <1>1 DEF AtEOF
<1>3. Last(r.stk) \in Entries
  BY <1>1, <1>2 DEF Last
<1> QED
  BY <1>3 DEF Entries

\* The attributes B are the attributes A with their names translated.
Translates(ns, A, B) ==
  B = [i \in DOMAIN A |-> [A[i] EXCEPT !.name = translate(ns, A[i].name, FALSE)]]

\* What Token gives for a start tag with the name and the attributes A, when the
\* declarations among these have led to inner.
TagToken(inner, name, A, t) ==
  /\ t.d = pushElement(inner, name) /\ t.tok.kind = "Start" /\ t.tok.name = name
  /\ Translates(inner.ns, A, t.tok.attr)

\* The start tag: its declarations, then its name and its attributes.
LEMMA TokenStart ==
  ASSUME NEW r \in Readers, NEW qname, NEW texts, NEW raws, NEW inner, NEW name,
         raws = [i \in DOMAIN texts |-> raw(texts[i])], inner = pushAllNs(r, raws),
         name = translate(inner.ns, nsname(qname), TRUE)
  PROVE  TagToken(inner, name, raws, Token(r, StartTag(qname, texts, FALSE)))
<1> DEFINE tag == StartTag(qname, texts, FALSE)
           read == rawToken(r, tag)
<1>1. ~AtEOF(r) /\ r.err = "nil" /\ r.needClose = FALSE
  BY ReaderReads
<1>2. tag.kind = "Start" /\ tag.qname = qname /\ tag.attr = texts /\ tag.empty = FALSE
  BY DEF StartTag
<1> HIDE DEF tag
<1>3. rawStart(r, tag) = [d |-> r, tok |-> StartElement(nsname(qname), raws)]
  BY <1>2 DEF rawStart, raw
<1>4. read = rawStart(r, tag)
  BY <1>1, <1>2 DEF rawToken
<1>5. /\ read.d = r /\ read.tok.kind = "Start" /\ read.tok.name = nsname(qname)
      /\ read.tok.attr = raws
  BY <1>3, <1>4 DEF StartElement
<1> HIDE DEF read
<1>6. Token(r, tag) =
        [d |-> pushElement(inner, name),
         tok |-> StartElement(name, [i \in DOMAIN raws |->
                   [raws[i] EXCEPT !.name = translate(inner.ns, raws[i].name, FALSE)]])]
  BY <1>1, <1>5 DEF Token, read
<1> DEFINE attrs == [i \in DOMAIN raws |->
                      [raws[i] EXCEPT !.name = translate(inner.ns, raws[i].name, FALSE)]]
<1> HIDE DEF attrs
<1>7. Token(r, tag) = [d |-> pushElement(inner, name), tok |-> StartElement(name, attrs)]
  BY <1>6 DEF attrs
<1>8. Token(r, tag).d = pushElement(inner, name) /\ Token(r, tag).tok = StartElement(name, attrs)
  BY <1>7
<1>9. /\ StartElement(name, attrs).kind = "Start" /\ StartElement(name, attrs).name = name
      /\ StartElement(name, attrs).attr = attrs
  BY DEF StartElement
<1> QED
  BY <1>8, <1>9 DEF tag, attrs, TagToken, Translates

\* The end tag: the end of the element with its name.
LEMMA TokenEnd ==
  ASSUME NEW r \in Readers, NEW qname
  PROVE  Token(r, EndTag(qname)) = popElement(r, translate(r.ns, nsname(qname), TRUE))
<1> DEFINE tag == EndTag(qname)
           read == rawToken(r, tag)
<1>1. ~AtEOF(r) /\ r.err = "nil" /\ r.needClose = FALSE
  BY ReaderReads
<1>2. tag.kind = "End" /\ tag.qname = qname
  BY DEF EndTag
<1> HIDE DEF tag
<1>3. read = [d |-> r, tok |-> EndElement(nsname(qname))]
  BY <1>1, <1>2 DEF rawToken
<1>4. read.d = r /\ read.tok.kind = "End" /\ read.tok.name = nsname(qname)
  BY <1>3 DEF EndElement
<1> HIDE DEF read
<1>5. Token(r, tag) = popElement(r, translate(r.ns, nsname(qname), TRUE))
  BY <1>1, <1>4 DEF Token, read
<1> QED
  BY <1>5 DEF tag

\* Anything else is handed on.
LEMMA TokenRest ==
  ASSUME NEW r \in Readers, NEW it,
         \/ it.kind \in {"CharData", "Comment", "Directive"}
         \/ it.kind = "ProcInst" /\ it.supported
  PROVE  Token(r, it).d = r /\ Token(r, it).tok.kind = it.kind
<1> DEFINE read == rawToken(r, it)
<1>1. ~AtEOF(r) /\ r.err = "nil" /\ r.needClose = FALSE
  BY ReaderReads
<1>2. read.d = r /\ read.tok.kind = it.kind
  <2>1. CASE it.kind \in {"CharData", "Comment", "Directive"}
    <3>1. read = [d |-> r, tok |-> it]
      BY <1>1, <2>1 DEF rawToken, rawOther
    <3> QED
      BY <3>1
  <2>2. CASE it.kind = "ProcInst" /\ it.supported
    <3>1. read = [d |-> r, tok |-> [kind |-> "ProcInst"]]
      BY <1>1, <2>2 DEF rawToken, rawProcInst, Other
    <3> QED
      BY <2>2, <3>1
  <2> QED
    BY <2>1, <2>2
<1>3. it.kind # "Start" /\ it.kind # "End"
  OBVIOUS
<1> HIDE DEF read
<1>4. Token(r, it) = read
  BY <1>1, <1>2, <1>3 DEF Token, read
<1> QED
  BY <1>2, <1>4

-----------------------------------------------------------------------------
(* A start tag, written and read.                                          *)

\* What declares nothing says nothing wrong.
LEMMA QuietTruthful ==
  ASSUME NEW q, NEW a, Quiet(a)
  PROVE  Truthful(q, a)
BY DEF Quiet, Truthful, isNamespace

\* The places of the declarations, the last first.
LEMMA Backwards ==
  ASSUME NEW L \in Nat, NEW m \in Nat, NEW K \in Nat, K = L - m, NEW j \in m + 1..L
  PROVE  (L + 1) - j \in 1..K /\ (L + 1) - ((L + 1) - j) = j
OBVIOUS

\* The prefixes a start tag declares are those the element's records are of.
LEMMA RawDeclares ==
  ASSUME NEW q \in Printers, Bijective(ScopeOf(q)), NEW m, LastMark(q, m), Announced(q, m),
         NEW attr \in Seq(AttrSet), \A i \in 1..Len(attr) : Sound(q, attr[i])
  PROVE  /\ rawAttrs(q, attr) \in Seq(AttrSet)
         /\ \A i \in DOMAIN rawAttrs(q, attr) : Truthful(q, rawAttrs(q, attr)[i])
         /\ \A x : DeclaredUpTo(rawAttrs(q, attr), Len(rawAttrs(q, attr)), x)
                     <=> DeclaredHere(q, m, x)
<1>1. PICK L \in Nat : L = Len(q.prefixes)
  BY DeclTexts
<1>2. m \in Nat /\ L - m \in Nat
  BY <1>1, DeclTexts
<1>3. PICK K \in Nat : K = L - m
  BY <1>2
<1>4. PICK kept \in Seq(AttrSet) : kept = Undeclaring(attr)
  BY KeptAttrs
<1> DEFINE B == rawAttrs(q, attr)
<1>0. K = Len(q.prefixes) - m
  BY <1>1, <1>3
<1>5. /\ B \in Seq(AttrSet) /\ Len(B) = K + Len(kept)
      /\ \A i \in 1..K :
           /\ (Len(q.prefixes) + 1) - i \in m + 1..Len(q.prefixes)
           /\ \A x : Declaring(B[i], x) <=> x = q.prefixes[(Len(q.prefixes) + 1) - i].prefix
           /\ Truthful(q, B[i])
      /\ \A i \in 1..Len(kept) : Quiet(B[K + i])
  <2>1. TagAttrs(q, m, K, kept, B, attrTexts(q, attr))
    BY <1>0, <1>4, RawAttrs
  <2> HIDE DEF B
  <2> QED
    BY <2>1 DEF TagAttrs
<1> HIDE DEF B
<1>6. PICK M \in Nat : M = Len(kept)
  OBVIOUS
<1>7. PICK A \in Seq(AttrSet) : A = B /\ Len(A) = K + M
  BY <1>5, <1>6
<1>8. \A i \in 1..K :
        /\ (L + 1) - i \in m + 1..L /\ Truthful(q, A[i])
        /\ \A x : Declaring(A[i], x) <=> x = q.prefixes[(L + 1) - i].prefix
  BY <1>1, <1>5, <1>7
<1>9. \A i \in 1..M : Quiet(A[K + i])
  BY <1>5, <1>6, <1>7
<1>10. DOMAIN A = 1..K + M
  BY <1>7
<1>11. ASSUME NEW i \in 1..K + M
       PROVE  Truthful(q, A[i])
  <2>1. CASE i \in 1..K
    BY <1>8, <2>1
  <2>2. CASE \E n \in 1..M : i = K + n
    BY <1>9, <2>2, QuietTruthful
  <2> QED
    BY <2>1, <2>2, Half
<1>12. ASSUME NEW x
       PROVE  DeclaredUpTo(A, K + M, x) <=> DeclaredHere(q, m, x)
  <2>1. ASSUME DeclaredUpTo(A, K + M, x)
        PROVE  DeclaredHere(q, m, x)
    <3>1. PICK i \in 1..K + M : Declaring(A[i], x)
      BY <2>1 DEF DeclaredUpTo
    <3>2. i \in 1..K
      <4>1. ASSUME NEW n \in 1..M, i = K + n
            PROVE  FALSE
        BY <1>9, <3>1, <4>1 DEF Quiet
      <4> QED
        BY <4>1, Half
    <3>3. (L + 1) - i \in m + 1..L /\ x = q.prefixes[(L + 1) - i].prefix
      BY <1>8, <3>1, <3>2
    <3> QED
      BY <1>1, <3>3 DEF DeclaredHere
  <2>2. ASSUME DeclaredHere(q, m, x)
        PROVE  DeclaredUpTo(A, K + M, x)
    <3>1. PICK j \in m + 1..L : q.prefixes[j].prefix = x
      BY <1>1, <2>2 DEF DeclaredHere
    <3>2. PICK i \in 1..K : i = (L + 1) - j /\ (L + 1) - i = j
      BY <1>2, <1>3, Backwards
    <3>3. Declaring(A[i], x)
      BY <1>8, <3>1, <3>2
    <3> QED
      BY <3>3, Halves DEF DeclaredUpTo
  <2> QED
    BY <2>1, <2>2
<1> QED
  BY <1>7, <1>10, <1>11, <1>12 DEF B

\* The declarations of a start tag bring the decoder into the printer's scope.
LEMMA RawsRead ==
  ASSUME NEW q \in Printers, Bijective(ScopeOf(q)), NEW m, LastMark(q, m), Announced(q, m),
         NEW attr \in Seq(AttrSet), \A i \in 1..Len(attr) : Sound(q, attr[i]),
         NEW r \in Readers, NEW w, Past(w, r), NEW q0, Same(ScopeOf(q0), r.ns),
         \A x : ~DeclaredHere(q, m, x) => nsForPrefix(q, x) = nsForPrefix(q0, x),
         NEW inner, inner = pushAllNs(r, rawAttrs(q, attr))
  PROVE  Listening(r, w, inner) /\ Same(ScopeOf(q), inner.ns)
<1>1. PICK A \in Seq(AttrSet) : A = rawAttrs(q, attr)
  BY RawDeclares
<1>2. /\ \A i \in DOMAIN A : Truthful(q, A[i])
      /\ \A x : DeclaredUpTo(A, Len(A), x) <=> DeclaredHere(q, m, x)
  BY <1>1, RawDeclares
<1>3. Meant(r.ns) /\ \A x \in Texts : nsForPrefix(q0, x) = Means(r.ns, x)
  BY ScopeLooks DEF Same
<1>4. /\ Listening(r, w, inner) /\ Meant(inner.ns)
      /\ \A x : Means(inner.ns, x) =
                  IF DeclaredUpTo(A, Len(A), x) THEN nsForPrefix(q, x) ELSE Means(r.ns, x)
  BY <1>1, <1>2, <1>3, AllNsRead
<1>5. ASSUME NEW x \in Texts
      PROVE  nsForPrefix(ScopeOf(q), x) = Means(inner.ns, x)
  <2>1. nsForPrefix(ScopeOf(q), x) = nsForPrefix(q, x)
    BY ScopeLooks
  <2>2. CASE DeclaredHere(q, m, x)
    BY <1>2, <1>4, <2>1, <2>2
  <2>3. CASE ~DeclaredHere(q, m, x)
    BY <1>2, <1>3, <1>4, <2>1, <2>3
  <2> QED
    BY <2>2, <2>3
<1> QED
  BY <1>4, <1>5 DEF Same

\* The printer q1 is in the element name, that q in the scopes u is about to
\* write the start of.
Entered(q, u, q1, name) ==
  /\ q1 \in Printers /\ q1.tags = Append(q.tags, name)
  /\ Len(q.prefixes) < Len(q1.prefixes)
  /\ \A i \in 1..Len(q.prefixes) : q1.prefixes[i] = q.prefixes[i]
  /\ \A i \in Len(q.prefixes) + 1..Len(q1.prefixes) :
       q1.prefixes[i].mark <=> i = Len(q.prefixes) + 1
  /\ \E v : History(v, q1) /\ \A i \in 0..Len(q.prefixes) : v[i] = u[i]
  /\ Writable(ScopeOf(q1), name.space, FALSE)

\* The prefixes of a start element: its records are above a mark, and there is a
\* way to write all that is in it.
LEMMA PrefixedEnters ==
  ASSUME MaxNumber \in Nat, NEW q \in Printers, NEW u, History(u, q), NEW name, NEW attr,
         Startable(name, attr), \A i \in DOMAIN attr : ~Redefines(attr[i]),
         NEW start, start.name = name, start.attr = attr,
         NEW q1, q1 = Prefixed(q, start), q1.seq <= MaxNumber
  PROVE  /\ Entered(q, u, q1, name) /\ Bijective(ScopeOf(q1))
         /\ LastMark(q1, Len(q.prefixes) + 1) /\ Announced(q1, Len(q.prefixes) + 1)
         /\ \A i \in 1..Len(attr) : Sound(q1, attr[i])
         /\ \A x : ~DeclaredHere(q1, Len(q.prefixes) + 1, x) =>
                     nsForPrefix(q1, x) = nsForPrefix(q, x)
<1>1. Asked(name, attr) /\ name \in Names /\ attr \in Seq(AttrSet)
  BY StartableAsked DEF Startable
<1>2. PICK L \in Nat : L = Len(q.prefixes)
  BY DEF Printers
<1>3. PICK o \in Printers :
           /\ o = Opening(q, name) /\ o.prefixes = Append(q.prefixes, Mark)
           /\ o.tags = Append(q.tags, name) /\ ScopeOf(o) = ScopeOf(q)
  BY <1>1, MarkHistory
<1>4. PICK v0 : /\ History(v0, o) /\ \A i \in 0..L : v0[i] = u[i]
                /\ Opened(o, v0, q1) /\ Writable(q1, name.space, FALSE)
                /\ \A i \in DOMAIN attr : Known(q1, attr[i])
  <2>1. Begun(q, u, name, attr, q1)
    BY <1>1, PrefixedOpened
  <2> QED
    BY <1>2, <1>3, <2>1 DEF Begun
<1>5. q.prefixes \in Seq(Records) /\ Mark \in Records /\ Mark.mark
  BY Literals DEF Printers, Records, Mark
<1>6. /\ Len(o.prefixes) = L + 1 /\ o.prefixes[L + 1].mark
      /\ \A i \in 1..L : o.prefixes[i] = q.prefixes[i]
  BY <1>2, <1>3, <1>5, Appended
<1>7. /\ q1 \in Printers /\ q1.tags = o.tags /\ L + 1 <= Len(q1.prefixes)
      /\ \A i \in 1..L + 1 : q1.prefixes[i] = o.prefixes[i]
      /\ \A i \in (L + 1) + 1..Len(q1.prefixes) :
           /\ ~q1.prefixes[i].mark
           /\ q1.prefixes[i].prefix # "" =>
                q1.prefixes[i].prefix \notin Reserved /\ nsForPrefix(q1, q1.prefixes[i].prefix) # ""
      /\ \A x : (\A i \in (L + 1) + 1..Len(q1.prefixes) : q1.prefixes[i].prefix # x)
                  => nsForPrefix(q1, x) = nsForPrefix(o, x)
      /\ \E v : History(v, q1) /\ \A i \in 0..L + 1 : v[i] = v0[i]
  <2>1. /\ q1 \in Printers /\ q1.tags = o.tags /\ Len(o.prefixes) <= Len(q1.prefixes)
        /\ \A i \in 1..Len(o.prefixes) : q1.prefixes[i] = o.prefixes[i]
        /\ \A i \in Len(o.prefixes) + 1..Len(q1.prefixes) :
             /\ ~q1.prefixes[i].mark
             /\ q1.prefixes[i].prefix # "" =>
                  /\ q1.prefixes[i].prefix \notin Reserved
                  /\ nsForPrefix(q1, q1.prefixes[i].prefix) # ""
        /\ \A x : (\A i \in Len(o.prefixes) + 1..Len(q1.prefixes) : q1.prefixes[i].prefix # x)
                    => nsForPrefix(q1, x) = nsForPrefix(o, x)
        /\ \E v : History(v, q1) /\ \A i \in 0..Len(o.prefixes) : v[i] = v0[i]
    BY <1>4 DEF Opened
  <2> QED
    BY <1>6, <2>1
<1>8. PICK N \in Nat : N = Len(q1.prefixes) /\ L < N
  <2>1. q1.prefixes \in Seq(Records)
    BY <1>7 DEF Printers
  <2>2. PICK N \in Nat : N = Len(q1.prefixes)
    BY <2>1
  <2>3. L + 1 <= N
    BY <1>7, <2>2
  <2> QED
    BY <2>2, <2>3
<1>9. ASSUME NEW i \in L + 1..N
      PROVE  q1.prefixes[i].mark <=> i = L + 1
  <2>1. i = L + 1 \/ i \in (L + 1) + 1..N
    OBVIOUS
  <2>2. L + 1 \in 1..L + 1 /\ L + 1 \notin (L + 1) + 1..N
    BY <1>2
  <2> QED
    BY <1>6, <1>7, <1>8, <2>1, <2>2
<1>10. \E v : History(v, q1) /\ \A i \in 0..L : v[i] = u[i]
  <2>1. PICK v : History(v, q1) /\ \A i \in 0..L + 1 : v[i] = v0[i]
    BY <1>7
  <2>2. \A i \in 0..L : i \in 0..L + 1
    OBVIOUS
  <2> QED
    BY <1>4, <2>1, <2>2
<1>11. Bijective(ScopeOf(q1))
  BY <1>4, OpenedBijective
<1>12. Entered(q, u, q1, name)
  <2>1. Writable(ScopeOf(q1), name.space, FALSE)
    BY <1>4 DEF Writable, ScopeOf
  <2>2. \A i \in 1..L : q1.prefixes[i] = q.prefixes[i]
    <3>1. \A i \in 1..L : i \in 1..L + 1
      OBVIOUS
    <3> QED
      BY <1>6, <1>7, <3>1
  <2>3. q1.tags = Append(q.tags, name)
    BY <1>3, <1>7
  <2> QED
    BY <1>2, <1>7, <1>8, <1>9, <1>10, <2>1, <2>2, <2>3 DEF Entered
<1>13. LastMark(q1, L + 1)
  <2>1. L + 1 \in 1..N /\ q1.prefixes[L + 1].mark
    BY <1>8, <1>9
  <2> QED
    BY <1>7, <1>8, <2>1 DEF LastMark
<1>14. Announced(q1, L + 1)
  BY <1>7 DEF Announced
<1>15. ASSUME NEW i \in 1..Len(attr)
       PROVE  Sound(q1, attr[i])
  <2>1. PICK a \in AttrSet : a = attr[i] /\ i \in DOMAIN attr
    BY <1>1
  <2>2. Proper(a) /\ ~Redefines(a) /\ Known(q1, a)
    BY <1>4, <2>1 DEF Startable
  <2>3. Sound(q1, a)
    BY <2>2, KnownSound
  <2> QED
    BY <2>1, <2>3
<1>16. ASSUME NEW x, ~DeclaredHere(q1, L + 1, x)
       PROVE  nsForPrefix(q1, x) = nsForPrefix(q, x)
  <2>1. nsForPrefix(q1, x) = nsForPrefix(o, x)
    BY <1>7, <1>16 DEF DeclaredHere
  <2>2. nsForPrefix(o, x) = nsForPrefix(q, x)
    <3>1. nsForPrefix(ScopeOf(o), x) = nsForPrefix(o, x)
      BY ScopeLooks
    <3>2. nsForPrefix(ScopeOf(q), x) = nsForPrefix(q, x)
      BY ScopeLooks
    <3> QED
      BY <1>3, <3>1, <3>2
  <2> QED
    BY <2>1, <2>2
<1> QED
  BY <1>2, <1>11, <1>12, <1>13, <1>14, <1>15, <1>16

\* Translating a name gives one, and a declaration stays one.
LEMMA TranslateKeeps ==
  ASSUME NEW ns \in PartialMaps, NEW n \in Names
  PROVE  /\ translate(ns, n, FALSE) \in Names
         /\ isNamespace(n) => isNamespace(translate(ns, n, FALSE))
<1>1. PICK url \in Texts : url = IF n.space = "xml" THEN xmlURL ELSE n.space
  BY Literals DEF Names
<1>2. PICK y \in Texts : y = IF url \in DOMAIN ns THEN ns[url] ELSE url
  BY Values
<1>3. PICK c \in Names : c = [n EXCEPT !.space = y] /\ c.local = n.local
  <2>1. [n EXCEPT !.space = y] \in Names /\ [n EXCEPT !.space = y].local = n.local
    BY DEF Names
  <2> QED
    BY <2>1
<1>4. translate(ns, n, FALSE) = n \/ translate(ns, n, FALSE) = c
  BY <1>1, <1>2, <1>3 DEF translate
<1>5. n.space = "xmlns" => translate(ns, n, FALSE) = n
  BY DEF translate
<1> QED
  BY <1>3, <1>4, <1>5 DEF isNamespace

\* These attributes are K declarations followed by those that are kept.
Followed(attr, K, kept) ==
  /\ Len(attr) = K + Len(kept) /\ \A i \in 1..K : isNamespace(attr[i].name)
  /\ \A i \in 1..Len(kept) : attr[K + i] = kept[i] /\ ~isNamespace(kept[i].name)

\* Undeclaring keeps those.
LEMMA Sifted ==
  ASSUME NEW attr \in Seq(AttrSet), NEW K \in Nat, NEW kept \in Seq(AttrSet),
         Followed(attr, K, kept)
  PROVE  Undeclaring(attr) = kept
<1>0. PICK M \in Nat : M = Len(kept) /\ DOMAIN kept = 1..M
  OBVIOUS
<1>10. /\ Len(attr) = K + M /\ \A i \in 1..K : isNamespace(attr[i].name)
       /\ \A i \in 1..M : attr[K + i] = kept[i] /\ ~isNamespace(kept[i].name)
  BY <1>0 DEF Followed
<1>1. PICK U : Sieve(U, attr)
  BY SieveExists
<1>2. /\ U \in [0..K + M -> Seq(AttrSet)] /\ U[0] = << >> /\ U[K + M] = Undeclaring(attr)
      /\ \A k \in 1..K + M : U[k] = keep(U[k - 1], attr[k])
  BY <1>1, <1>10 DEF Sieve
<1>3. \A k \in 0..K : U[k] = << >>
  <2>1. PICK G : G = {k \in 0..K : U[k] = << >>}
    OBVIOUS
  <2>2. 0 \in G
    BY <1>2, <2>1
  <2>3. ASSUME NEW k \in Nat, k < K, k \in G
        PROVE  k + 1 \in G
    <3>1. k + 1 \in 1..K /\ k + 1 \in 1..K + M /\ (k + 1) - 1 = k /\ k + 1 \in 0..K
      BY <2>3
    <3>2. U[k + 1] = keep(U[k], attr[k + 1])
      BY <1>2, <3>1
    <3>3. U[k + 1] = U[k]
      BY <1>10, <3>1, <3>2 DEF keep
    <3> QED
      BY <2>1, <2>3, <3>1, <3>3
  <2>4. \A k \in 0..K : k \in G
    BY <2>2, <2>3, InductionUpTo
  <2> QED
    BY <2>1, <2>4
<1>4. PICK H : H = {n \in 0..M : /\ Len(U[K + n]) = n
                                 /\ \A i \in 1..n : U[K + n][i] = kept[i]}
  OBVIOUS
<1>5. 0 \in H
  <2>1. U[K + 0] = << >>
    BY <1>3
  <2> QED
    BY <1>4, <2>1
<1>6. ASSUME NEW n \in Nat, n < M, n \in H
      PROVE  n + 1 \in H
  <2>1. n + 1 \in 1..M /\ K + (n + 1) \in 1..K + M /\ (K + (n + 1)) - 1 = K + n /\ K + n \in 0..K + M
    BY <1>6
  <2>2. PICK s \in Seq(AttrSet) : s = U[K + n] /\ Len(s) = n /\ \A i \in 1..n : s[i] = kept[i]
    BY <1>2, <1>4, <1>6, <2>1
  <2>3. PICK a \in AttrSet : a = kept[n + 1] /\ attr[K + (n + 1)] = a /\ ~isNamespace(a.name)
    BY <1>0, <1>10, <2>1
  <2>4. U[K + (n + 1)] = Append(s, a)
    BY <1>2, <2>1, <2>2, <2>3 DEF keep
  <2>5. /\ Len(Append(s, a)) = n + 1 /\ Append(s, a)[n + 1] = a
        /\ \A i \in 1..n : Append(s, a)[i] = s[i]
    <3>1. /\ Len(Append(s, a)) = Len(s) + 1 /\ Append(s, a)[Len(s) + 1] = a
          /\ \A i \in 1..Len(s) : Append(s, a)[i] = s[i]
      BY Appended
    <3> QED
      BY <2>2, <3>1
  <2>6. ASSUME NEW i \in 1..n + 1
        PROVE  Append(s, a)[i] = kept[i]
    <3>1. i = n + 1 \/ i \in 1..n
      OBVIOUS
    <3> QED
      BY <2>2, <2>3, <2>5, <3>1
  <2>7. /\ Len(U[K + (n + 1)]) = n + 1
        /\ \A i \in 1..n + 1 : U[K + (n + 1)][i] = kept[i]
    BY <2>4, <2>5, <2>6
  <2>8. n + 1 \in 0..M
    BY <2>1
  <2> QED
    BY <1>4, <2>7, <2>8
<1>7. M \in H
  <2>1. \A n \in 0..M : n \in H
    BY <1>5, <1>6, InductionUpTo
  <2> QED
    BY <2>1
<1>8. PICK s \in Seq(AttrSet) : s = Undeclaring(attr) /\ Len(s) = M /\ \A i \in 1..M : s[i] = kept[i]
  <2>1. Len(U[K + M]) = M /\ \A i \in 1..M : U[K + M][i] = kept[i]
    BY <1>4, <1>7
  <2>2. U[K + M] \in Seq(AttrSet)
    BY <1>2
  <2> QED
    BY <1>2, <2>1, <2>2
<1>9. s = kept
  BY <1>0, <1>8
<1> QED
  BY <1>8, <1>9

\* What is read of the attributes in the printer's scope are the attributes
\* that declare nothing, as they were encoded.
LEMMA AttrsRead ==
  ASSUME NEW q \in Printers, Bijective(ScopeOf(q)), NEW m, LastMark(q, m), Announced(q, m),
         NEW attr \in Seq(AttrSet), \A i \in 1..Len(attr) : Sound(q, attr[i]),
         NEW ns \in PartialMaps, Same(ScopeOf(q), ns), NEW B, Translates(ns, rawAttrs(q, attr), B)
  PROVE  Undeclaring(B) = Undeclaring(attr)
<1> DEFINE T == attrTexts(q, attr)
<1> HIDE DEF T
<1>12. PICK K \in Nat : K = Len(q.prefixes) - m
  BY DeclTexts
<1>13. PICK kept \in Seq(AttrSet) : kept = Undeclaring(attr)
  BY KeptAttrs
<1>14. TagAttrs(q, m, K, kept, rawAttrs(q, attr), T)
  BY <1>12, <1>13, RawAttrs DEF T
<1>15. PICK A : A = rawAttrs(q, attr)
  OBVIOUS
<1>16. TagAttrs(q, m, K, kept, A, T) /\ Translates(ns, A, B)
  BY <1>14, <1>15
<1>1. PICK M \in Nat : M = Len(kept) /\ DOMAIN kept = 1..M
  OBVIOUS
<1>2. /\ A \in Seq(AttrSet) /\ Len(A) = K + M
      /\ \A i \in 1..K : isNamespace(A[i].name)
      /\ \A i \in 1..M :
           /\ A[K + i].name = nsname(writeName(q, kept[i].name, TRUE))
           /\ A[K + i].value = kept[i].value /\ Sound(q, kept[i])
  BY <1>1, <1>16 DEF TagAttrs
<1>3. DOMAIN A = 1..K + M
  BY <1>2
<1>4. ASSUME NEW i \in 1..K + M
      PROVE  /\ B[i] \in AttrSet /\ B[i].name = translate(ns, A[i].name, FALSE)
             /\ B[i].value = A[i].value
             /\ isNamespace(A[i].name) => isNamespace(B[i].name)
  <2>1. PICK a \in AttrSet : a = A[i]
    BY <1>2, <1>3
  <2>2. a.name \in Names
    BY DEF AttrSet
  <2>3. PICK n \in Names : n = translate(ns, a.name, FALSE) /\ (isNamespace(a.name) => isNamespace(n))
    BY <2>2, TranslateKeeps
  <2>4. B[i] = [a EXCEPT !.name = n]
    BY <1>3, <1>16, <2>1, <2>3 DEF Translates
  <2>5. [a EXCEPT !.name = n] \in AttrSet /\ [a EXCEPT !.name = n].name = n
        /\ [a EXCEPT !.name = n].value = a.value
    BY DEF AttrSet
  <2> QED
    BY <2>1, <2>3, <2>4, <2>5
<1>5. PICK N \in Nat : N = K + M
  OBVIOUS
<1>6. B \in [1..N -> AttrSet]
  BY <1>3, <1>4, <1>5, <1>16 DEF Translates
<1>7. B \in Seq(AttrSet) /\ Len(B) = N
  BY <1>6
<1>8. ASSUME NEW i \in 1..M
      PROVE  B[K + i] = kept[i]
  <2>1. PICK a \in AttrSet : a = kept[i] /\ ~isNamespace(a.name) /\ Sound(q, a)
    <3>1. kept[i] \in AttrSet
      BY <1>1
    <3>2. ~isNamespace(kept[i].name) /\ Sound(q, kept[i])
      BY <1>1, <1>2, <1>13, KeptAttrs
    <3> QED
      BY <3>1, <3>2
  <2>2. a.name \in Names
    BY DEF AttrSet
  <2>3. Plainly(a.name.local) /\ (a.name.space = "" \/ Writable(ScopeOf(q), a.name.space, TRUE))
    BY <2>1 DEF Sound
  <2>4. translate(ns, nsname(writeName(ScopeOf(q), a.name, TRUE)), FALSE) = a.name
    BY <2>2, <2>3, ScopeType, AttrReads
  <2>5. writeName(ScopeOf(q), a.name, TRUE) = writeName(q, a.name, TRUE)
    BY ScopeWrites
  <2>6. K + i \in 1..K + M
    BY Halves
  <2>7. PICK b \in AttrSet : b = B[K + i] /\ b.name = a.name /\ b.value = a.value
    <3>1. B[K + i] \in AttrSet /\ B[K + i].name = translate(ns, A[K + i].name, FALSE)
          /\ B[K + i].value = A[K + i].value
      BY <1>4, <2>6
    <3>2. A[K + i].name = nsname(writeName(q, a.name, TRUE)) /\ A[K + i].value = a.value
      BY <1>2, <2>1
    <3> QED
      BY <2>4, <2>5, <3>1, <3>2
  <2>8. b = a
    <3>1. b = [name |-> b.name, value |-> b.value]
      BY DEF AttrSet
    <3>2. a = [name |-> a.name, value |-> a.value]
      BY DEF AttrSet
    <3> QED
      BY <2>7, <3>1, <3>2
  <2> QED
    BY <2>1, <2>7, <2>8
<1>9. \A i \in 1..K : isNamespace(B[i].name)
  BY <1>2, <1>4, Halves
<1>10. \A i \in 1..M : ~isNamespace(kept[i].name)
  BY <1>1, <1>13, KeptAttrs
<1>11. Followed(B, K, kept)
  BY <1>1, <1>5, <1>7, <1>8, <1>9, <1>10 DEF Followed
<1> QED
  BY <1>7, <1>11, <1>13, Sifted

\* The decoder r1 is in the element name, that r in the scopes w is about to
\* read the start of.
Nested(r, w, r1, name) ==
  /\ r1 \in Readers /\ Len(r.stk) < Len(r1.stk)
  /\ \A i \in 1..Len(r.stk) : r1.stk[i] = r.stk[i]
  /\ \A i \in Len(r.stk) + 1..Len(r1.stk) - 1 : r1.stk[i].kind = "Ns"
  /\ r1.stk[Len(r1.stk)] = StkStart(name)
  /\ \E v : Past(v, r1) /\ \A i \in 0..Len(r.stk) : v[i] = w[i]

\* The declarations and then the element go on the stack.
LEMMA ElementPushed ==
  ASSUME NEW r \in Readers, NEW w, NEW inner, Listening(r, w, inner), NEW name \in Names
  PROVE  /\ Nested(r, w, pushElement(inner, name), name)
         /\ pushElement(inner, name).ns = inner.ns
<1>1. PICK L \in Nat : L = Len(r.stk)
  BY ReaderType
<1>2. /\ inner \in Readers /\ L <= Len(inner.stk)
      /\ \A i \in 1..L : inner.stk[i] = r.stk[i]
      /\ \A i \in L + 1..Len(inner.stk) : inner.stk[i].kind = "Ns"
  BY <1>1 DEF Listening
<1>3. PICK w1 : Past(w1, inner) /\ \A i \in 0..L : w1[i] = w[i]
  BY <1>1 DEF Listening
<1>4. PICK N \in Nat : N = Len(inner.stk) /\ L <= N /\ inner.stk \in Seq(Entries)
  BY <1>2, ReaderType
<1>5. PICK e \in Entries : e = StkStart(name) /\ e.kind # "Ns"
  <2>1. StkStart(name) \in Entries /\ StkStart(name).kind # "Ns"
    BY DEF StkStart, Entries
  <2> QED
    BY <2>1
<1>6. PICK r1 \in Readers :
           r1 = pushElement(inner, name) /\ r1.stk = Append(inner.stk, e) /\ r1.ns = inner.ns
  <2>1. Append(inner.stk, e) \in Seq(Entries)
    BY <1>4, Appended
  <2>2. pushElement(inner, name) = [inner EXCEPT !.stk = Append(inner.stk, e)]
    BY <1>5 DEF pushElement
  <2>3. [inner EXCEPT !.stk = Append(inner.stk, e)] \in Readers
    BY <1>2, <2>1 DEF Readers
  <2>4. /\ [inner EXCEPT !.stk = Append(inner.stk, e)].stk = Append(inner.stk, e)
        /\ [inner EXCEPT !.stk = Append(inner.stk, e)].ns = inner.ns
    BY <1>2 DEF Readers
  <2> QED
    BY <2>2, <2>3, <2>4
<1>7. /\ Len(r1.stk) = N + 1 /\ r1.stk[N + 1] = e
      /\ \A i \in 1..N : r1.stk[i] = inner.stk[i]
  <2>1. /\ Len(Append(inner.stk, e)) = Len(inner.stk) + 1
        /\ Append(inner.stk, e)[Len(inner.stk) + 1] = e
        /\ \A i \in 1..Len(inner.stk) : Append(inner.stk, e)[i] = inner.stk[i]
    BY <1>4, Appended
  <2> QED
    BY <1>4, <1>6, <2>1
<1>8. \E v : Past(v, r1) /\ \A i \in 0..L : v[i] = w[i]
  <2>1. inner.ns = IF e.kind = "Ns" THEN Undo(r1.ns, e) ELSE r1.ns
    BY <1>5, <1>6
  <2>2. \E v : Past(v, r1) /\ \A i \in 0..Len(inner.stk) : v[i] = w1[i]
    <3>1. inner \in Readers /\ Past(w1, inner) /\ r1.stk = Append(inner.stk, e)
      BY <1>2, <1>3, <1>6
    <3> QED
      BY <2>1, <3>1, PastGrows
  <2>3. \A i \in 0..L : i \in 0..Len(inner.stk)
    BY <1>4
  <2> QED
    BY <1>3, <2>2, <2>3
<1>9. \A i \in 1..L : r1.stk[i] = r.stk[i]
  BY <1>2, <1>4, <1>7
<1>10. \A i \in L + 1..N : r1.stk[i].kind = "Ns"
  BY <1>2, <1>4, <1>7
<1>11. (N + 1) - 1 = N /\ L < N + 1
  BY <1>4
<1>12. Nested(r, w, r1, name)
  BY <1>1, <1>5, <1>7, <1>8, <1>9, <1>10, <1>11 DEF Nested
<1> QED
  BY <1>6, <1>12

\* The start of the element name with the attributes attr, written by the
\* printer q in its scope, is what t gives, read by the decoder r in the scopes w.
StartRead(q, name, attr, r, w, t) ==
  /\ Nested(r, w, t.d, name) /\ Same(ScopeOf(q), t.d.ns)
  /\ t.tok.kind = "Start" /\ t.tok.name = name
  /\ Undeclaring(t.tok.attr) = Undeclaring(attr)

\* A start tag brings the decoder into the element and into the printer's
\* scope, and is read as it was encoded.
LEMMA TagRead ==
  ASSUME NEW q \in Printers, Bijective(ScopeOf(q)), NEW m, LastMark(q, m), Announced(q, m),
         NEW attr \in Seq(AttrSet), \A i \in 1..Len(attr) : Sound(q, attr[i]),
         NEW r \in Readers, NEW w, Past(w, r), NEW q0, Same(ScopeOf(q0), r.ns),
         \A x : ~DeclaredHere(q, m, x) => nsForPrefix(q, x) = nsForPrefix(q0, x),
         NEW name \in Names, Plainly(name.local), Writable(ScopeOf(q), name.space, FALSE),
         NEW t, t = Token(r, StartTag(writeName(q, name, FALSE), attrTexts(q, attr), FALSE))
  PROVE  StartRead(q, name, attr, r, w, t)
<1>1. PICK inner : inner = pushAllNs(r, rawAttrs(q, attr))
  OBVIOUS
<1>2. Listening(r, w, inner) /\ Same(ScopeOf(q), inner.ns)
  BY <1>1, RawsRead
<1>3. inner.ns \in PartialMaps
  BY <1>2, ReaderType DEF Listening
<1>4. translate(inner.ns, nsname(writeName(q, name, FALSE)), TRUE) = name
  <2>1. translate(inner.ns, nsname(writeName(ScopeOf(q), name, FALSE)), TRUE) = name
    BY <1>2, <1>3, ScopeType, ElementReads
  <2>2. writeName(ScopeOf(q), name, FALSE) = writeName(q, name, FALSE)
    BY ScopeWrites
  <2> QED
    BY <2>1, <2>2
<1>5. PICK A : A = rawAttrs(q, attr)
  OBVIOUS
<1>6. /\ t.d = pushElement(inner, name) /\ t.tok.kind = "Start" /\ t.tok.name = name
      /\ Translates(inner.ns, A, t.tok.attr)
  <2>1. A = [i \in DOMAIN attrTexts(q, attr) |-> raw(attrTexts(q, attr)[i])]
    BY <1>5 DEF rawAttrs
  <2>2. inner = pushAllNs(r, A)
    BY <1>1, <1>5
  <2>3. TagToken(inner, name, A, t)
    BY <1>4, <2>1, <2>2, TokenStart
  <2> QED
    BY <2>3 DEF TagToken
<1>7. Nested(r, w, t.d, name) /\ t.d.ns = inner.ns
  <2>1. Nested(r, w, pushElement(inner, name), name) /\ pushElement(inner, name).ns = inner.ns
    BY <1>2, ElementPushed
  <2> QED
    BY <1>6, <2>1
<1>8. Undeclaring(t.tok.attr) = Undeclaring(attr)
  <2>1. PICK ns \in PartialMaps : ns = inner.ns
    BY <1>3
  <2>2. Same(ScopeOf(q), ns) /\ Translates(ns, rawAttrs(q, attr), t.tok.attr)
    BY <1>2, <1>5, <1>6, <2>1
  <2> QED
    BY <2>2, AttrsRead
<1> QED
  BY <1>2, <1>6, <1>7, <1>8 DEF StartRead

-----------------------------------------------------------------------------
(* The open elements on both stacks.                                       *)

\* at[1], ..., at[T + 1] are heights of a stack of N entries, from the bottom
\* to the top.
Heights(at, T, N) ==
  /\ at \in [1..T + 1 -> 0..N] /\ at[1] = 0 /\ at[T + 1] = N
  /\ \A j, k \in 1..T + 1 : j < k => at[j] < at[k]

\* One more height, for one more element, and one less.
Higher(at, T, N) == [k \in 1..(T + 1) + 1 |-> IF k = (T + 1) + 1 THEN N ELSE at[k]]
Lower(at, T) == [k \in 1..T |-> at[k]]

\* The stack grows.
LEMMA HeightsGrow ==
  ASSUME NEW T \in Nat, NEW N \in Nat, NEW N1 \in Nat, N < N1, NEW at, Heights(at, T, N)
  PROVE  /\ Heights(Higher(at, T, N1), T + 1, N1)
         /\ \A k \in 1..T + 1 : Higher(at, T, N1)[k] = at[k]
         /\ Higher(at, T, N1)[(T + 1) + 1] = N1
<1>1. PICK up : up = Higher(at, T, N1)
  OBVIOUS
<1>2. /\ at \in [1..T + 1 -> 0..N] /\ at[1] = 0 /\ at[T + 1] = N
      /\ \A j, k \in 1..T + 1 : j < k => at[j] < at[k]
  BY DEF Heights
<1>3. \A k \in 1..T + 1 : k \in 1..(T + 1) + 1 /\ k # (T + 1) + 1 /\ up[k] = at[k] /\ at[k] \in 0..N
  BY <1>1, <1>2 DEF Higher
<1>4. (T + 1) + 1 \in 1..(T + 1) + 1 /\ up[(T + 1) + 1] = N1
  BY <1>1 DEF Higher
<1>5. \A k \in 1..(T + 1) + 1 : k \in 1..T + 1 \/ k = (T + 1) + 1
  OBVIOUS
<1>6. \A k \in 1..(T + 1) + 1 : up[k] \in 0..N1
  BY <1>3, <1>4, <1>5
<1>7. up \in [1..(T + 1) + 1 -> 0..N1]
  BY <1>1, <1>6 DEF Higher
<1>8. ASSUME NEW j \in 1..(T + 1) + 1, NEW k \in 1..(T + 1) + 1, j < k
      PROVE  up[j] < up[k]
  <2>1. j \in 1..T + 1 /\ up[j] = at[j] /\ at[j] \in 0..N
    BY <1>3, <1>8
  <2>2. CASE k \in 1..T + 1
    BY <1>2, <1>3, <1>8, <2>1, <2>2
  <2>3. CASE k = (T + 1) + 1
    BY <1>4, <2>1, <2>3
  <2> QED
    BY <1>5, <2>2, <2>3
<1>9. 1 \in 1..T + 1 /\ up[1] = 0
  BY <1>2, <1>3
<1>10. Heights(up, T + 1, N1)
  BY <1>4, <1>7, <1>8, <1>9 DEF Heights
<1> QED
  BY <1>1, <1>3, <1>4, <1>10

\* The stack shrinks by what is above the highest height but one.
LEMMA HeightsShrink ==
  ASSUME NEW T \in Nat, T # 0, NEW N \in Nat, NEW at, Heights(at, T, N)
  PROVE  /\ at[T] \in Nat /\ at[T] < N /\ at[T + 1] = N
         /\ T - 1 \in Nat /\ (T - 1) + 1 = T
         /\ Heights(Lower(at, T), T - 1, at[T])
         /\ \A k \in 1..T : Lower(at, T)[k] = at[k] /\ at[k] <= at[T]
<1>1. PICK S \in Nat : S = T - 1 /\ S + 1 = T
  OBVIOUS
<1>2. PICK low : low = Lower(at, T)
  OBVIOUS
<1>3. /\ at \in [1..T + 1 -> 0..N] /\ at[1] = 0 /\ at[T + 1] = N
      /\ \A j, k \in 1..T + 1 : j < k => at[j] < at[k]
  BY DEF Heights
<1>4. /\ T \in 1..T + 1 /\ T + 1 \in 1..T + 1 /\ 1 \in 1..T /\ T \in 1..T
      /\ \A k \in 1..T : k \in 1..T + 1
  OBVIOUS
<1>5. PICK M \in Nat : M = at[T] /\ M < N
  BY <1>3, <1>4
<1>6. ASSUME NEW k \in 1..T
      PROVE  low[k] = at[k] /\ at[k] \in 0..M
  <2>1. low[k] = at[k] /\ at[k] \in 0..N
    BY <1>2, <1>3, <1>4 DEF Lower
  <2>2. k < T => at[k] < at[T]
    BY <1>3, <1>4
  <2>3. k < T \/ k = T
    OBVIOUS
  <2> QED
    BY <1>5, <2>1, <2>2, <2>3
<1>7. low \in [1..T -> 0..M]
  BY <1>2, <1>6 DEF Lower
<1>8. low[1] = 0 /\ low[T] = M
  BY <1>3, <1>4, <1>5, <1>6
<1>9. \A j, k \in 1..T : j < k => low[j] < low[k]
  BY <1>3, <1>4, <1>6
<1>10. Heights(low, S, M)
  BY <1>1, <1>7, <1>8, <1>9 DEF Heights
<1> QED
  BY <1>1, <1>2, <1>3, <1>5, <1>6, <1>10

\* Where the first n elements begin on the one stack, and end on the other.
Bottoms(at, n) == {at[k] + 1 : k \in 1..n}
Tops(at, n)    == {at[k + 1] : k \in 1..n}

\* Heights of one stack: as many as there are.
LEMMA HeightsCount ==
  ASSUME NEW T \in Nat, NEW N \in Nat, NEW at, Heights(at, T, N), NEW n \in 0..T
  PROVE  Cardinality(Bottoms(at, n)) = n /\ Cardinality(Tops(at, n)) = n
<1>1. /\ at \in [1..T + 1 -> 0..N]
      /\ \A j, k \in 1..T + 1 : j < k => at[j] < at[k]
  BY DEF Heights
<1>2. \A k \in 1..n : k \in 1..T + 1 /\ k + 1 \in 1..T + 1 /\ at[k] \in Nat /\ at[k + 1] \in Nat
  BY <1>1
<1>3. \A j, k \in 1..n : j # k => at[j] # at[k] /\ at[j + 1] # at[k + 1]
  <2> SUFFICES ASSUME NEW j \in 1..n, NEW k \in 1..n, j # k
               PROVE  at[j] # at[k] /\ at[j + 1] # at[k + 1]
    OBVIOUS
  <2>1. j < k \/ k < j
    OBVIOUS
  <2>2. j < k => at[j] < at[k] /\ at[j + 1] < at[k + 1]
    BY <1>1, <1>2
  <2>3. k < j => at[k] < at[j] /\ at[k + 1] < at[j + 1]
    BY <1>1, <1>2
  <2> QED
    BY <1>2, <2>1, <2>2, <2>3
<1>4. ASSUME NEW f \in [1..n -> Nat], \A j, k \in 1..n : j # k => f[j] # f[k]
      PROVE  Cardinality({f[k] : k \in 1..n}) = n
  <2>1. f \in Bijection(1..n, {f[k] : k \in 1..n})
    BY <1>4 DEF Bijection, Injection, Surjection, IsInjective
  <2>2. ExistsBijection(1..n, {f[k] : k \in 1..n})
    BY <2>1 DEF ExistsBijection
  <2> QED
    BY <2>2, FS_CountingElements
<1>5. Cardinality({at[k] + 1 : k \in 1..n}) = n
  <2>1. PICK f \in [1..n -> Nat] : \A k \in 1..n : f[k] = at[k] + 1
    <3>1. [k \in 1..n |-> at[k] + 1] \in [1..n -> Nat]
      BY <1>2
    <3> QED
      BY <3>1
  <2>2. ASSUME NEW j \in 1..n, NEW k \in 1..n, j # k
        PROVE  f[j] # f[k]
    <3>1. at[j] \in Nat /\ at[k] \in Nat /\ at[j] # at[k]
      BY <1>2, <1>3, <2>2
    <3>2. f[j] = at[j] + 1 /\ f[k] = at[k] + 1
      BY <2>1
    <3> QED
      BY <3>1, <3>2
  <2>3. {f[k] : k \in 1..n} = {at[k] + 1 : k \in 1..n}
    BY <2>1
  <2> QED
    BY <1>4, <2>2, <2>3
<1>6. Cardinality({at[k + 1] : k \in 1..n}) = n
  <2>1. PICK f \in [1..n -> Nat] : \A k \in 1..n : f[k] = at[k + 1]
    <3>1. [k \in 1..n |-> at[k + 1]] \in [1..n -> Nat]
      BY <1>2
    <3> QED
      BY <3>1
  <2>2. \A j, k \in 1..n : j # k => f[j] # f[k]
    BY <1>2, <1>3, <2>1
  <2>3. {f[k] : k \in 1..n} = {at[k + 1] : k \in 1..n}
    BY <2>1
  <2> QED
    BY <1>4, <2>2, <2>3
<1> QED
  BY <1>5, <1>6 DEF Bottoms, Tops

\* The printer's marks, and the elements on the decoder's stack.
MarksOf(q)  == {i \in 1..Len(q.prefixes) : q.prefixes[i].mark}
StartsOf(r) == {i \in 1..Len(r.stk) : r.stk[i].kind = "Start"}

\* The element name is open on the decoder's stack r, in the scope u[b] of the
\* printer's history and the scope w[e] of the decoder's, and these agree.
Frame(r, u, w, name, b, e) ==
  /\ r.stk[e] = StkStart(name) /\ Plainly(name.local)
  /\ Writable(u[b], name.space, FALSE) /\ Same(u[b], w[e])

\* The printer q and the decoder r have the same elements open: the k-th is
\* above the height at[k] of the one stack and dp[k] of the other.
Framed(q, r, u, w, at, dp) ==
  /\ q \in Printers /\ r \in Readers /\ History(u, q) /\ Past(w, r)
  /\ Heights(at, Len(q.tags), Len(q.prefixes)) /\ Heights(dp, Len(q.tags), Len(r.stk))
  /\ MarksOf(q) = {at[k] + 1 : k \in 1..Len(q.tags)}
  /\ StartsOf(r) = {dp[k + 1] : k \in 1..Len(q.tags)}
  /\ \A k \in 1..Len(q.tags) : Frame(r, u, w, q.tags[k], at[k + 1], dp[k + 1])

\* The same, whatever the scopes and the heights.
Paired(q, r) == \E u, w, at, dp : Framed(q, r, u, w, at, dp)

\* The sizes of the stacks are numbers.
LEMMA Sizes ==
  ASSUME NEW q \in Printers, NEW r \in Readers
  PROVE  /\ Len(q.tags) \in Nat /\ Len(q.prefixes) \in Nat /\ Len(r.stk) \in Nat
         /\ q.tags \in Seq(Names) /\ q.prefixes \in Seq(Records) /\ r.stk \in Seq(Entries)
         /\ ScopeOf(q) \in Scopes /\ r.ns \in PartialMaps
BY ScopeType, ReaderType DEF Printers

\* An element more: one mark, on top of the others.
LEMMA MarksGrow ==
  ASSUME NEW q \in Printers, NEW u, NEW q1, NEW name, Entered(q, u, q1, name)
  PROVE  MarksOf(q1) = MarksOf(q) \cup {Len(q.prefixes) + 1}
<1>1. PICK L \in Nat : L = Len(q.prefixes)
  BY DEF Printers
<1>2. PICK N \in Nat : N = Len(q1.prefixes) /\ L < N
  <2>1. q1.prefixes \in Seq(Records) /\ L < Len(q1.prefixes)
    BY <1>1 DEF Entered, Printers
  <2> QED
    BY <2>1
<1>3. /\ \A i \in 1..L : q1.prefixes[i] = q.prefixes[i]
      /\ \A i \in L + 1..N : q1.prefixes[i].mark <=> i = L + 1
  BY <1>1, <1>2 DEF Entered
<1>4. \A i \in 1..N : i \in 1..L \/ i \in L + 1..N
  OBVIOUS
<1>5. (\A i \in 1..L : i \in 1..N /\ i \notin L + 1..N) /\ L + 1 \in L + 1..N /\ L + 1 \in 1..N
  BY <1>2
<1>6. ASSUME NEW i
      PROVE  i \in MarksOf(q1) <=> i \in MarksOf(q) \cup {L + 1}
  <2>1. i \in MarksOf(q1) <=> i \in 1..N /\ q1.prefixes[i].mark
    BY <1>2 DEF MarksOf
  <2>2. i \in MarksOf(q) <=> i \in 1..L /\ q.prefixes[i].mark
    BY <1>1 DEF MarksOf
  <2>3. CASE i \in 1..L
    BY <1>3, <1>5, <2>1, <2>2, <2>3
  <2>4. CASE i \in L + 1..N
    BY <1>3, <1>5, <2>1, <2>2, <2>4
  <2>5. CASE i \notin 1..N
    BY <1>5, <2>1, <2>2, <2>5
  <2> QED
    BY <1>4, <2>3, <2>4, <2>5
<1> QED
  BY <1>1, <1>6

\* One element on the decoder's stack, above its declarations.
LEMMA StartsGrow ==
  ASSUME NEW r \in Readers, NEW w, NEW r1, NEW name, Nested(r, w, r1, name)
  PROVE  StartsOf(r1) = StartsOf(r) \cup {Len(r1.stk)}
<1>1. PICK L \in Nat : L = Len(r.stk)
  BY ReaderType
<1>2. PICK N \in Nat : N = Len(r1.stk) /\ L < N
  <2>1. Len(r1.stk) \in Nat /\ L < Len(r1.stk)
    BY <1>1, ReaderType DEF Nested
  <2> QED
    BY <2>1
<1>3. /\ \A i \in 1..L : r1.stk[i] = r.stk[i]
      /\ \A i \in L + 1..N - 1 : r1.stk[i].kind = "Ns"
      /\ r1.stk[N].kind = "Start"
  BY <1>1, <1>2 DEF Nested, StkStart
<1>4. \A i \in 1..N : i \in 1..L \/ i \in L + 1..N - 1 \/ i = N
  OBVIOUS
<1>5. /\ \A i \in 1..L : i \in 1..N /\ i # N
      /\ \A i \in L + 1..N - 1 : i \notin 1..L /\ i # N /\ i \in 1..N
      /\ N \in 1..N /\ N \notin 1..L
  BY <1>2
<1>6. ASSUME NEW i
      PROVE  i \in StartsOf(r1) <=> i \in StartsOf(r) \cup {N}
  <2>1. i \in StartsOf(r1) <=> i \in 1..N /\ r1.stk[i].kind = "Start"
    BY <1>2 DEF StartsOf
  <2>2. i \in StartsOf(r) <=> i \in 1..L /\ r.stk[i].kind = "Start"
    BY <1>1 DEF StartsOf
  <2>3. CASE i \in 1..L
    BY <1>3, <1>5, <2>1, <2>2, <2>3
  <2>4. CASE i \in L + 1..N - 1
    BY <1>3, <1>5, <2>1, <2>2, <2>4
  <2>5. CASE i = N
    BY <1>3, <1>5, <2>1, <2>2, <2>5
  <2>6. CASE i \notin 1..N
    BY <1>5, <2>1, <2>2, <2>6
  <2> QED
    BY <1>4, <2>3, <2>4, <2>5, <2>6
<1> QED
  BY <1>2, <1>6

\* The start of an element, written and read.
LEMMA FramedGrows ==
  ASSUME NEW q, NEW r, NEW u, NEW w, NEW at, NEW dp, Framed(q, r, u, w, at, dp),
         NEW name \in Names, Plainly(name.local), NEW q1, Entered(q, u, q1, name),
         NEW r1, Nested(r, w, r1, name), Same(ScopeOf(q1), r1.ns)
  PROVE  Paired(q1, r1)
<1>1. q \in Printers /\ r \in Readers /\ q1 \in Printers /\ r1 \in Readers
  BY DEF Framed, Entered, Nested
<1>2. PICK T \in Nat, L \in Nat, S \in Nat, L1 \in Nat, S1 \in Nat :
           /\ T = Len(q.tags) /\ L = Len(q.prefixes) /\ S = Len(r.stk)
           /\ L1 = Len(q1.prefixes) /\ S1 = Len(r1.stk)
  BY <1>1, Sizes
<1>3. L < L1 /\ S < S1
  BY <1>2 DEF Entered, Nested
<1>4. PICK u1 : History(u1, q1) /\ \A i \in 0..L : u1[i] = u[i]
  BY <1>2 DEF Entered
<1>5. PICK w1 : Past(w1, r1) /\ \A i \in 0..S : w1[i] = w[i]
  BY <1>2 DEF Nested
<1>6. /\ Heights(at, T, L) /\ Heights(dp, T, S)
      /\ MarksOf(q) = {at[k] + 1 : k \in 1..T} /\ StartsOf(r) = {dp[k + 1] : k \in 1..T}
      /\ \A k \in 1..T : Frame(r, u, w, q.tags[k], at[k + 1], dp[k + 1])
  BY <1>2 DEF Framed
<1>7. PICK at1 : /\ Heights(at1, T + 1, L1) /\ \A k \in 1..T + 1 : at1[k] = at[k]
                 /\ at1[(T + 1) + 1] = L1
  BY <1>3, <1>6, HeightsGrow
<1>8. PICK dp1 : /\ Heights(dp1, T + 1, S1) /\ \A k \in 1..T + 1 : dp1[k] = dp[k]
                 /\ dp1[(T + 1) + 1] = S1
  BY <1>3, <1>6, HeightsGrow
<1>9. /\ Len(q1.tags) = T + 1 /\ q1.tags[T + 1] = name
      /\ \A k \in 1..T : q1.tags[k] = q.tags[k]
  <2>1. q1.tags = Append(q.tags, name) /\ q.tags \in Seq(Names)
    BY <1>1, Sizes DEF Entered
  <2>2. /\ Len(Append(q.tags, name)) = Len(q.tags) + 1
        /\ Append(q.tags, name)[Len(q.tags) + 1] = name
        /\ \A i \in 1..Len(q.tags) : Append(q.tags, name)[i] = q.tags[i]
    BY <2>1, Appended
  <2> QED
    BY <1>2, <2>1, <2>2
<1>10. \A k : k \in 1..T + 1 <=> k \in 1..T \/ k = T + 1
  OBVIOUS
<1>11. \A k \in 1..T : k \in 1..T + 1 /\ k + 1 \in 1..T + 1
  OBVIOUS
<1>12. MarksOf(q1) = {at1[k] + 1 : k \in 1..T + 1}
  <2>1. MarksOf(q1) = MarksOf(q) \cup {L + 1}
    BY <1>1, <1>2, MarksGrow
  <2>2. at[T + 1] = L /\ T + 1 \in 1..T + 1
    BY <1>6 DEF Heights
  <2>3. \A k \in 1..T : at1[k] = at[k]
    BY <1>7, <1>11
  <2>4. at1[T + 1] = L
    BY <1>7, <2>2
  <2> QED
    BY <1>6, <1>10, <2>1, <2>3, <2>4
<1>13. StartsOf(r1) = {dp1[k + 1] : k \in 1..T + 1}
  <2>1. StartsOf(r1) = StartsOf(r) \cup {S1}
    BY <1>1, <1>2, StartsGrow
  <2>2. \A k \in 1..T : dp1[k + 1] = dp[k + 1]
    BY <1>8, <1>11
  <2> QED
    BY <1>6, <1>8, <1>10, <2>1, <2>2
<1>14. ASSUME NEW k \in 1..T
       PROVE  Frame(r1, u1, w1, q1.tags[k], at1[k + 1], dp1[k + 1])
  <2>1. PICK b \in 0..L : b = at[k + 1] /\ b = at1[k + 1]
    BY <1>6, <1>7, <1>11 DEF Heights
  <2>2. PICK e \in 1..S : e = dp[k + 1] /\ e = dp1[k + 1]
    <3>1. dp[k + 1] \in 0..S /\ dp[k + 1] = dp1[k + 1]
      BY <1>6, <1>8, <1>11 DEF Heights
    <3>2. 1 < k + 1 /\ 1 \in 1..T + 1 /\ dp[1] = 0
      BY <1>6 DEF Heights
    <3>3. dp[1] < dp[k + 1]
      BY <1>6, <1>11, <3>2 DEF Heights
    <3> QED
      BY <3>1, <3>2, <3>3
  <2>3. Frame(r, u, w, q.tags[k], b, e)
    BY <1>6, <2>1, <2>2
  <2>4. u1[b] = u[b] /\ w1[e] = w[e] /\ r1.stk[e] = r.stk[e]
    <3>1. e \in 0..S
      OBVIOUS
    <3> QED
      BY <1>2, <1>4, <1>5, <3>1 DEF Nested
  <2>5. Frame(r1, u1, w1, q.tags[k], b, e)
    BY <2>3, <2>4 DEF Frame
  <2> QED
    BY <1>9, <2>1, <2>2, <2>5
<1>15. Frame(r1, u1, w1, q1.tags[T + 1], at1[(T + 1) + 1], dp1[(T + 1) + 1])
  <2>1. u1[L1] = ScopeOf(q1) /\ w1[S1] = r1.ns
    BY <1>2, <1>4, <1>5 DEF History, Past
  <2>2. r1.stk[S1] = StkStart(name) /\ Writable(ScopeOf(q1), name.space, FALSE)
    BY <1>2 DEF Nested, Entered
  <2>3. Frame(r1, u1, w1, name, L1, S1)
    BY <2>1, <2>2 DEF Frame
  <2> QED
    BY <1>7, <1>8, <1>9, <2>3
<1>16. \A k \in 1..T + 1 : Frame(r1, u1, w1, q1.tags[k], at1[k + 1], dp1[k + 1])
  BY <1>10, <1>14, <1>15
<1>17. Framed(q1, r1, u1, w1, at1, dp1)
  BY <1>1, <1>2, <1>4, <1>5, <1>7, <1>8, <1>9, <1>12, <1>13, <1>16 DEF Framed
<1> QED
  BY <1>17 DEF Paired

\* T elements are open.
Depth(q, T) == T = Len(q.tags) /\ T # 0

\* The innermost element: above the last mark of the one stack, and on top of
\* the other with nothing but its declarations below.
LEMMA FramedTop ==
  ASSUME NEW q, NEW r, NEW u, NEW w, NEW at, NEW dp, Framed(q, r, u, w, at, dp),
         NEW T \in Nat, Depth(q, T)
  PROVE  /\ LastMark(q, at[T] + 1) /\ at[T] \in Nat
         /\ OnTop(r, q.tags[T], dp[T]) /\ dp[T] \in Nat
         /\ Writable(ScopeOf(q), q.tags[T].space, FALSE) /\ Plainly(q.tags[T].local)
         /\ Same(ScopeOf(q), r.ns)
<1>1. q \in Printers /\ r \in Readers
  BY DEF Framed
<1>2. PICK L \in Nat, S \in Nat : L = Len(q.prefixes) /\ S = Len(r.stk)
  BY <1>1, Sizes
<1>3. /\ Heights(at, T, L) /\ Heights(dp, T, S)
      /\ MarksOf(q) = {at[k] + 1 : k \in 1..T} /\ StartsOf(r) = {dp[k + 1] : k \in 1..T}
      /\ \A k \in 1..T : Frame(r, u, w, q.tags[k], at[k + 1], dp[k + 1])
  BY <1>2 DEF Framed, Depth
<1>6. T # 0 /\ T \in 1..T
  BY DEF Depth
<1>4. PICK a \in Nat : a = at[T] /\ a < L /\ at[T + 1] = L /\ \A k \in 1..T : at[k] <= a
  BY <1>3, <1>6, HeightsShrink
<1>5. PICK d1 \in Nat : d1 = dp[T] /\ d1 < S /\ dp[T + 1] = S /\ \A k \in 1..T : dp[k] <= d1
  BY <1>3, <1>6, HeightsShrink
<1>7. LastMark(q, a + 1)
  <2>1. a + 1 \in MarksOf(q)
    BY <1>3, <1>4, <1>6
  <2>2. a + 1 \in 1..L /\ q.prefixes[a + 1].mark
    BY <1>2, <2>1 DEF MarksOf
  <2>3. ASSUME NEW i \in (a + 1) + 1..L
        PROVE  ~q.prefixes[i].mark
    <3>1. \A k \in 1..T : at[k] \in Nat
      BY <1>3 DEF Heights
    <3>2. \A k \in 1..T : i # at[k] + 1
      BY <1>4, <2>3, <3>1
    <3>3. i \notin MarksOf(q)
      BY <1>3, <3>2
    <3>4. i \in 1..L
      BY <1>4
    <3> QED
      BY <1>2, <3>3, <3>4 DEF MarksOf
  <2> QED
    BY <1>2, <2>2, <2>3 DEF LastMark
<1>8. Frame(r, u, w, q.tags[T], L, S)
  BY <1>3, <1>4, <1>5, <1>6
<1>9. u[L] = ScopeOf(q) /\ w[S] = r.ns
  BY <1>2 DEF Framed, History, Past
<1>10. d1 = 0 \/ r.stk[d1].kind # "Ns"
  <2> SUFFICES ASSUME d1 # 0
               PROVE  r.stk[d1].kind # "Ns"
    OBVIOUS
  <2>1. T # 1
    BY <1>3, <1>5 DEF Heights
  <2>2. PICK k \in 1..T : k + 1 = T
    <3>1. T - 1 \in 1..T /\ (T - 1) + 1 = T
      BY <1>6, <2>1
    <3> QED
      BY <3>1
  <2>3. d1 \in StartsOf(r)
    BY <1>3, <1>5, <2>2
  <2> QED
    BY <2>3 DEF StartsOf
<1>11. ASSUME NEW i \in d1 + 1..S - 1
       PROVE  r.stk[i].kind = "Ns"
  <2>1. i \in 1..S /\ i # S
    BY <1>5
  <2>2. \A k \in 1..T : i # dp[k + 1]
    <3> SUFFICES ASSUME NEW k \in 1..T
                 PROVE  i # dp[k + 1]
      OBVIOUS
    <3>1. CASE k = T
      BY <1>5, <2>1, <3>1
    <3>2. CASE k # T
      <4>1. k + 1 \in 1..T
        BY <3>2
      <4>2. k + 1 \in 1..T + 1
        OBVIOUS
      <4>3. dp[k + 1] <= d1 /\ dp[k + 1] \in Nat
        BY <1>3, <1>5, <4>1, <4>2 DEF Heights
      <4> QED
        BY <1>11, <4>3
    <3> QED
      BY <3>1, <3>2
  <2>3. i \notin StartsOf(r)
    BY <1>3, <2>2
  <2>4. r.stk[i].kind # "Start"
    BY <1>2, <2>1, <2>3 DEF StartsOf
  <2>5. r.stk[i] \in Entries
    <3>1. r.stk \in Seq(Entries)
      BY <1>1, ReaderType
    <3> QED
      BY <1>2, <2>1, <3>1
  <2> QED
    BY <2>4, <2>5 DEF Entries
<1>12. /\ r.stk[S] = StkStart(q.tags[T]) /\ Plainly(q.tags[T].local)
       /\ Writable(ScopeOf(q), q.tags[T].space, FALSE) /\ Same(ScopeOf(q), r.ns)
  BY <1>8, <1>9 DEF Frame
<1>13. OnTop(r, q.tags[T], d1)
  BY <1>2, <1>5, <1>10, <1>11, <1>12 DEF OnTop
<1> QED
  BY <1>4, <1>5, <1>7, <1>12, <1>13

\* Its marks are those of q that are below.
LEMMA MarksShrink ==
  ASSUME NEW q \in Printers, NEW u, NEW h \in Nat, h <= Len(q.prefixes), NEW q1,
         PrinterBelow(q, u, h, q1)
  PROVE  MarksOf(q1) = {i \in MarksOf(q) : i <= h}
<1>1. PICK L \in Nat : L = Len(q.prefixes) /\ h <= L
  BY DEF Printers
<1>2. Len(q1.prefixes) = h /\ \A i \in 1..h : q1.prefixes[i] = q.prefixes[i]
  BY DEF PrinterBelow
<1>3. \A i \in 1..L : i <= h <=> i \in 1..h
  OBVIOUS
<1>4. \A i \in 1..h : i \in 1..L
  BY <1>1
<1> QED
  BY <1>1, <1>2, <1>3, <1>4 DEF MarksOf

\* So are its elements.
LEMMA StartsShrink ==
  ASSUME NEW r \in Readers, NEW w, NEW h \in Nat, h <= Len(r.stk), NEW r1,
         ReaderBelow(r, w, h, r1)
  PROVE  StartsOf(r1) = {i \in StartsOf(r) : i <= h}
<1>1. PICK L \in Nat : L = Len(r.stk) /\ h <= L
  BY ReaderType
<1>2. Len(r1.stk) = h /\ \A i \in 1..h : r1.stk[i] = r.stk[i]
  BY DEF ReaderBelow
<1>3. \A i \in 1..L : i <= h <=> i \in 1..h
  OBVIOUS
<1>4. \A i \in 1..h : i \in 1..L
  BY <1>1
<1> QED
  BY <1>1, <1>2, <1>3, <1>4 DEF StartsOf

\* The history of the printer that is left.
LEMMA HistoryShrinks ==
  ASSUME NEW q \in Printers, NEW u, History(u, q), NEW h \in Nat, h <= Len(q.prefixes), NEW q1,
         PrinterBelow(q, u, h, q1)
  PROVE  \E v : History(v, q1) /\ \A i \in 0..h : v[i] = u[i]
<1>1. PICK L \in Nat : L = Len(q.prefixes) /\ h <= L
  BY DEF Printers
<1>2. PICK v : v = [i \in 0..h |-> u[i]]
  OBVIOUS
<1>3. /\ u \in [0..L -> Scopes] /\ u[0] = NoScope
      /\ \A i \in 0..L : Bijective(u[i])
      /\ \A i \in 1..L :
           u[i - 1] = IF q.prefixes[i].mark THEN u[i]
                      ELSE setAttrPrefix(u[i], q.prefixes[i].prefix, q.prefixes[i].url)
  BY <1>1 DEF History
<1>4. /\ Len(q1.prefixes) = h /\ ScopeOf(q1) = u[h]
      /\ \A i \in 1..h : q1.prefixes[i] = q.prefixes[i]
  BY DEF PrinterBelow
<1>5. \A i \in 0..h : i \in 0..L /\ v[i] = u[i]
  BY <1>1, <1>2
<1>6. v \in [0..h -> Scopes]
  BY <1>2, <1>3, <1>5
<1>7. \A i \in 1..h : i \in 1..L /\ i \in 0..h /\ i - 1 \in 0..h
  BY <1>1
<1>8. ASSUME NEW i \in 1..h
      PROVE  v[i - 1] = IF q1.prefixes[i].mark THEN v[i]
                        ELSE setAttrPrefix(v[i], q1.prefixes[i].prefix, q1.prefixes[i].url)
  BY <1>3, <1>4, <1>5, <1>7
<1>9. 0 \in 0..h /\ h \in 0..h
  OBVIOUS
<1>10. History(v, q1)
  BY <1>3, <1>4, <1>5, <1>6, <1>8, <1>9 DEF History
<1> QED
  BY <1>5, <1>10

\* The history of the decoder that is left.
LEMMA PastShrinks ==
  ASSUME NEW r \in Readers, NEW w, Past(w, r), NEW h \in Nat, h <= Len(r.stk), NEW r1,
         ReaderBelow(r, w, h, r1)
  PROVE  \E v : Past(v, r1) /\ \A i \in 0..h : v[i] = w[i]
<1>1. PICK L \in Nat : L = Len(r.stk) /\ h <= L
  BY ReaderType
<1>2. PICK v : v = [i \in 0..h |-> w[i]]
  OBVIOUS
<1>3. /\ w \in [0..L -> PartialMaps] /\ w[0] = << >>
      /\ \A i \in 1..L : w[i - 1] = IF r.stk[i].kind = "Ns" THEN Undo(w[i], r.stk[i]) ELSE w[i]
  BY <1>1 DEF Past
<1>4. Len(r1.stk) = h /\ r1.ns = w[h] /\ \A i \in 1..h : r1.stk[i] = r.stk[i]
  BY DEF ReaderBelow
<1>5. \A i \in 0..h : i \in 0..L /\ v[i] = w[i]
  BY <1>1, <1>2
<1>6. v \in [0..h -> PartialMaps]
  BY <1>2, <1>3, <1>5
<1>7. \A i \in 1..h : i \in 1..L /\ i \in 0..h /\ i - 1 \in 0..h
  BY <1>1
<1>8. ASSUME NEW i \in 1..h
      PROVE  v[i - 1] = IF r1.stk[i].kind = "Ns" THEN Undo(v[i], r1.stk[i]) ELSE v[i]
  BY <1>3, <1>4, <1>5, <1>7
<1>9. 0 \in 0..h /\ h \in 0..h
  OBVIOUS
<1>10. Past(v, r1)
  BY <1>3, <1>4, <1>5, <1>6, <1>8, <1>9 DEF Past
<1> QED
  BY <1>5, <1>10

\* A sequence without its last element.
LEMMA FrontPart ==
  ASSUME NEW S, NEW s \in Seq(S), NEW n \in Nat, Len(s) = n + 1
  PROVE  /\ Front(s) \in Seq(S) /\ Len(Front(s)) = n /\ Last(s) = s[n + 1]
         /\ \A i \in 1..n : Front(s)[i] = s[i]
BY DEF Front, Last

\* The end of an element, written and read.
LEMMA FramedShrinks ==
  ASSUME NEW q, NEW r, NEW u, NEW w, NEW at, NEW dp, Framed(q, r, u, w, at, dp),
         NEW T \in Nat, Depth(q, T), NEW q1, PrinterBelow(q, u, at[T], q1),
         q1.tags = Front(q.tags), NEW r1, ReaderBelow(r, w, dp[T], r1)
  PROVE  Paired(q1, r1)
<1>1. q \in Printers /\ r \in Readers /\ q1 \in Printers /\ r1 \in Readers
  BY DEF Framed, PrinterBelow, ReaderBelow
<1>2. PICK L \in Nat, S \in Nat : L = Len(q.prefixes) /\ S = Len(r.stk)
  BY <1>1, Sizes
<1>3. /\ Heights(at, T, L) /\ Heights(dp, T, S) /\ History(u, q) /\ Past(w, r)
      /\ MarksOf(q) = {at[k] + 1 : k \in 1..T} /\ StartsOf(r) = {dp[k + 1] : k \in 1..T}
      /\ \A k \in 1..T : Frame(r, u, w, q.tags[k], at[k + 1], dp[k + 1])
  BY <1>2 DEF Framed, Depth
<1>4. T # 0
  BY DEF Depth
<1>5. PICK n \in Nat : n = T - 1 /\ n + 1 = T
  BY <1>4
<1>6. PICK h \in Nat : \E at1 : /\ h = at[T] /\ h < L /\ Heights(at1, n, h)
                                /\ \A k \in 1..n + 1 : at1[k] = at[k] /\ at[k] <= h
  BY <1>3, <1>4, <1>5, HeightsShrink
<1>17. PICK at1 : /\ h = at[T] /\ h < L /\ Heights(at1, n, h)
                  /\ \A k \in 1..n + 1 : at1[k] = at[k] /\ at[k] <= h
  BY <1>6
<1>7. PICK g \in Nat : \E dp1 : /\ g = dp[T] /\ g < S /\ Heights(dp1, n, g)
                                /\ \A k \in 1..n + 1 : dp1[k] = dp[k] /\ dp[k] <= g
  BY <1>3, <1>4, <1>5, HeightsShrink
<1>18. PICK dp1 : /\ g = dp[T] /\ g < S /\ Heights(dp1, n, g)
                  /\ \A k \in 1..n + 1 : dp1[k] = dp[k] /\ dp[k] <= g
  BY <1>7
<1>8. PrinterBelow(q, u, h, q1) /\ ReaderBelow(r, w, g, r1) /\ h <= Len(q.prefixes) /\ g <= Len(r.stk)
  BY <1>2, <1>17, <1>18
<1>9. PICK u1 : History(u1, q1) /\ \A i \in 0..h : u1[i] = u[i]
  BY <1>1, <1>3, <1>8, HistoryShrinks
<1>10. PICK w1 : Past(w1, r1) /\ \A i \in 0..g : w1[i] = w[i]
  BY <1>1, <1>3, <1>8, PastShrinks
<1>11. Len(q1.tags) = n /\ \A k \in 1..n : q1.tags[k] = q.tags[k]
  <2>1. q.tags \in Seq(Names) /\ Len(q.tags) = n + 1
    BY <1>1, <1>5, Sizes DEF Depth
  <2>2. Len(Front(q.tags)) = n /\ \A k \in 1..n : Front(q.tags)[k] = q.tags[k]
    BY <2>1, FrontPart
  <2> QED
    BY <2>2
<1>12. /\ \A k \in 1..T : k \in 1..n \/ k = T
       /\ \A k \in 1..n : k \in 1..n + 1 /\ k + 1 \in 1..n + 1 /\ k \in 1..T
       /\ T \in 1..T
  BY <1>4, <1>5
<1>13. MarksOf(q1) = {at1[k] + 1 : k \in 1..n}
  <2>1. MarksOf(q1) = {i \in MarksOf(q) : i <= h}
    BY <1>1, <1>8, MarksShrink
  <2>2. ASSUME NEW k \in 1..n
        PROVE  at[k] + 1 = at1[k] + 1 /\ at[k] + 1 <= h
    <3>1. at[k] < at[T]
      <4>1. k \in 1..T + 1 /\ T \in 1..T + 1 /\ k < T
        BY <1>5
      <4> QED
        BY <1>3, <4>1 DEF Heights
    <3>2. at[k] \in Nat
      BY <1>3, <1>12 DEF Heights
    <3> QED
      BY <1>17, <1>12, <3>1, <3>2
  <2>3. ~(at[T] + 1 <= h)
    BY <1>17
  <2> QED
    BY <1>3, <1>12, <2>1, <2>2, <2>3
<1>14. StartsOf(r1) = {dp1[k + 1] : k \in 1..n}
  <2>1. StartsOf(r1) = {i \in StartsOf(r) : i <= g}
    BY <1>1, <1>8, StartsShrink
  <2>2. \A k \in 1..n : dp[k + 1] = dp1[k + 1] /\ dp[k + 1] <= g
    BY <1>18, <1>12
  <2>3. ~(dp[T + 1] <= g)
    BY <1>3, <1>18 DEF Heights
  <2> QED
    BY <1>3, <1>12, <2>1, <2>2, <2>3
<1>15. ASSUME NEW k \in 1..n
       PROVE  Frame(r1, u1, w1, q1.tags[k], at1[k + 1], dp1[k + 1])
  <2>1. PICK b \in 0..h : b = at[k + 1] /\ b = at1[k + 1]
    BY <1>17, <1>12 DEF Heights
  <2>2. PICK e \in 1..g : e = dp[k + 1] /\ e = dp1[k + 1]
    <3>1. dp1[k + 1] \in 0..g /\ dp[k + 1] = dp1[k + 1]
      BY <1>18, <1>12 DEF Heights
    <3>2. 1 < k + 1 /\ 1 \in 1..n + 1 /\ dp1[1] = 0
      BY <1>18 DEF Heights
    <3>3. dp1[1] < dp1[k + 1]
      BY <1>18, <1>12, <3>2 DEF Heights
    <3> QED
      BY <3>1, <3>2, <3>3
  <2>3. Frame(r, u, w, q.tags[k], b, e)
    BY <1>3, <1>12, <2>1, <2>2
  <2>4. u1[b] = u[b] /\ w1[e] = w[e] /\ r1.stk[e] = r.stk[e]
    <3>1. e \in 0..g
      OBVIOUS
    <3> QED
      BY <1>8, <1>9, <1>10, <3>1 DEF ReaderBelow
  <2>5. Frame(r1, u1, w1, q.tags[k], b, e)
    BY <2>3, <2>4 DEF Frame
  <2> QED
    BY <1>11, <2>1, <2>2, <2>5
<1>16. Len(q1.prefixes) = h /\ Len(r1.stk) = g
  BY <1>8 DEF PrinterBelow, ReaderBelow
<1>19. Framed(q1, r1, u1, w1, at1, dp1)
  BY <1>1, <1>17, <1>18, <1>9, <1>10, <1>11, <1>13, <1>14, <1>15, <1>16 DEF Framed
<1> QED
  BY <1>19 DEF Paired

\* That something is written concerns no stack.
LEMMA PairedRest ==
  ASSUME NEW q, NEW r, Paired(q, r), NEW q1 \in Printers, q1.tags = q.tags,
         q1.prefixes = q.prefixes, ScopeOf(q1) = ScopeOf(q)
  PROVE  Paired(q1, r)
<1>1. PICK u, w, at, dp : Framed(q, r, u, w, at, dp)
  BY DEF Paired
<1>2. History(u, q1)
  BY <1>1 DEF Framed, History
<1>3. MarksOf(q1) = MarksOf(q)
  BY DEF MarksOf
<1>4. Framed(q1, r, u, w, at, dp)
  BY <1>1, <1>2, <1>3 DEF Framed
<1> QED
  BY <1>4 DEF Paired

\* The scopes of the two agree.
LEMMA PairedSame ==
  ASSUME NEW q, NEW r, Paired(q, r)
  PROVE  /\ q \in Printers /\ r \in Readers /\ Bijective(ScopeOf(q))
         /\ Same(ScopeOf(q), r.ns)
         /\ q.tags = << >> => ScopeOf(q) = NoScope /\ r.stk = << >>
<1>1. PICK u, w, at, dp : Framed(q, r, u, w, at, dp)
  BY DEF Paired
<1>2. q \in Printers /\ r \in Readers
  BY <1>1 DEF Framed
<1>3. PICK T \in Nat, L \in Nat, S \in Nat : T = Len(q.tags) /\ L = Len(q.prefixes) /\ S = Len(r.stk)
  BY <1>2, Sizes
<1>4. /\ u[0] = NoScope /\ u[L] = ScopeOf(q) /\ w[0] = << >> /\ w[S] = r.ns
      /\ Bijective(u[L])
  BY <1>1, <1>3 DEF Framed, History, Past
<1>5. CASE T = 0
  <2>1. L = 0 /\ S = 0
    BY <1>1, <1>3, <1>5 DEF Framed, Heights
  <2>2. ScopeOf(q) = NoScope /\ r.ns = << >> /\ r.stk = << >>
    <3>1. r.stk \in Seq(Entries)
      BY <1>2, ReaderType
    <3>2. Len(r.stk) = 0
      BY <1>3, <2>1
    <3>3. r.stk = << >>
      BY <3>1, <3>2, EmptySeq
    <3> QED
      BY <1>4, <2>1, <3>3
  <2>3. Same(NoScope, << >>)
    <3>1. DOMAIN << >> = {}
      OBVIOUS
    <3>2. NoScope.defaultNS = "" /\ NoScope.attrNS = << >>
      BY DEF NoScope
    <3>3. \A x : nsForPrefix(NoScope, x) = ""
      BY <3>1, <3>2 DEF nsForPrefix
    <3>4. \A x : Means(<< >>, x) = ""
      BY <3>1 DEF Means
    <3> QED
      BY <3>1, <3>3, <3>4 DEF Same, Meant
  <2> QED
    BY <1>2, <1>4, <2>2, <2>3
<1>6. CASE T # 0
  <2>1. Depth(q, T)
    BY <1>3, <1>6 DEF Depth
  <2>2. Same(ScopeOf(q), r.ns)
    BY <1>1, <2>1, FramedTop
  <2>3. q.tags # << >>
    BY <1>3, <1>6
  <2> QED
    BY <1>2, <1>4, <2>2, <2>3
<1> QED
  BY <1>5, <1>6

-----------------------------------------------------------------------------
(* The steps: a token is encoded, and what was written is read.            *)

\* The token u is read as t was encoded.
ReadAs(t, u) ==
  /\ u.kind = t.kind
  /\ t.kind \in {"Start", "End"} => u.name = t.name
  /\ t.kind = "Start" => Undeclaring(u.attr) = Undeclaring(t.attr)

\* The printer once something is written.
Buffered(q) == [q EXCEPT !.buffered = TRUE]

\* It is the same otherwise.
LEMMA BufferedKeeps ==
  ASSUME NEW q \in Printers
  PROVE  /\ Buffered(q) \in Printers /\ Buffered(q).tags = q.tags
         /\ Buffered(q).prefixes = q.prefixes /\ ScopeOf(Buffered(q)) = ScopeOf(q)
         /\ Buffered(q).seq = q.seq
BY DEF Buffered, Printers, ScopeOf

\* What EncodeToken does with a start element.
LEMMA StartEncoded ==
  ASSUME NEW q, NEW start, start.kind = "Start", ~EncodeToken(q, start).err,
         NEW q1, q1 = Prefixed(q, start)
  PROVE  /\ \A i \in DOMAIN start.attr : ~Redefines(start.attr[i])
         /\ EncodeToken(q, start).p = Buffered(q1)
         /\ EncodeToken(q, start).item =
              StartTag(writeName(q1, start.name, FALSE), attrTexts(q1, start.attr), FALSE)
<1>1. EncodeToken(q, start) = writeStart(q, start)
  BY DEF EncodeToken
<1>2. \A i \in DOMAIN start.attr : ~Redefines(start.attr[i])
  <2>1. EncodeError(q).err
    BY DEF EncodeError
  <2> QED
    BY <1>1, <2>1 DEF writeStart
<1>3. writeStart(q, start) = StartTagOf(q1, start)
  <2>1. EncodeError(q).err
    BY DEF EncodeError
  <2> QED
    BY <1>1, <2>1 DEF writeStart
<1>4. PICK it : it = StartTag(writeName(q1, start.name, FALSE), attrTexts(q1, start.attr), FALSE)
  OBVIOUS
<1>5. StartTagOf(q1, start) = Wrote(q1, it)
  BY <1>4 DEF StartTagOf, attrTexts
<1>6. Wrote(q1, it).p = Buffered(q1) /\ Wrote(q1, it).item = it
  BY DEF Wrote, Buffered
<1> QED
  BY <1>1, <1>2, <1>3, <1>4, <1>5, <1>6

\* What it does with an end element.
LEMMA EndEncoded ==
  ASSUME NEW q, NEW name, NEW q0, q0 = [q EXCEPT !.tags = Front(@)],
         ~EncodeToken(q, EndElement(name)).err
  PROVE  /\ q.tags # << >> /\ Last(q.tags) = name
         /\ EncodeToken(q, EndElement(name)).p = Buffered(popPrefix(q0))
         /\ EncodeToken(q, EndElement(name)).item = EndTag(writeName(q, name, FALSE))
<1>1. EncodeToken(q, EndElement(name)) = writeEnd(q, name)
  BY DEF EncodeToken, EndElement
<1>2. EncodeError(q).err
  BY DEF EncodeError
<1>3. q.tags # << >> /\ Last(q.tags) = name
  BY <1>1, <1>2 DEF writeEnd
<1>4. PICK it, q1 : it = EndTag(writeName(q, name, FALSE)) /\ q1 = popPrefix(q0)
  OBVIOUS
<1>5. writeEnd(q, name) = Wrote(q1, it)
  BY <1>1, <1>2, <1>4 DEF writeEnd
<1>6. Wrote(q1, it).p = Buffered(q1) /\ Wrote(q1, it).item = it
  BY DEF Wrote, Buffered
<1> QED
  BY <1>1, <1>3, <1>4, <1>5, <1>6

\* What it does with any other token.
LEMMA RestEncoded ==
  ASSUME NEW q, NEW t, t.kind \in {"CharData", "Comment", "Directive", "ProcInst"},
         ~EncodeToken(q, t).err
  PROVE  /\ EncodeToken(q, t).p = Buffered(q) /\ EncodeToken(q, t).item.kind = t.kind
         /\ t.kind = "ProcInst" => EncodeToken(q, t).item.supported
<1>1. \A it : Wrote(q, it).p = Buffered(q) /\ Wrote(q, it).item = it
  BY DEF Wrote, Buffered
<1>2. CASE t.kind = "CharData"
  <2>1. EncodeToken(q, t) = Wrote(q, t)
    BY <1>2 DEF EncodeToken
  <2> QED
    BY <1>1, <1>2, <2>1
<1>3. CASE t.kind # "CharData"
  <2>1. EncodeToken(q, t) = EncodeOther(q, t)
    BY <1>3 DEF EncodeToken
  <2>2. EncodeError(q).err
    BY DEF EncodeError
  <2>3. PICK it : it = IF t.kind = "ProcInst" THEN [kind |-> "ProcInst", supported |-> TRUE]
                       ELSE Other(t.kind)
    OBVIOUS
  <2>4. EncodeOther(q, t) = Wrote(q, it)
    BY <2>1, <2>2, <2>3 DEF EncodeOther
  <2>5. it.kind = t.kind /\ (t.kind = "ProcInst" => it.supported)
    BY <2>3 DEF Other
  <2> QED
    BY <1>1, <2>1, <2>4, <2>5
<1> QED
  BY <1>2, <1>3

\* A start element.
LEMMA StartStep ==
  ASSUME NEW q, NEW r, Paired(q, r), NEW start, start.kind = "Start",
         Startable(start.name, start.attr), ~EncodeToken(q, start).err,
         EncodeToken(q, start).p.seq <= MaxSeq
  PROVE  /\ Paired(EncodeToken(q, start).p, Token(r, EncodeToken(q, start).item).d)
         /\ ReadAs(start, Token(r, EncodeToken(q, start).item).tok)
<1>1. PICK u, w, at, dp : Framed(q, r, u, w, at, dp)
  BY DEF Paired
<1>2. /\ q \in Printers /\ r \in Readers /\ History(u, q) /\ Past(w, r)
      /\ Same(ScopeOf(q), r.ns)
  BY <1>1, PairedSame DEF Framed
<1>3. PICK name, attr : name = start.name /\ attr = start.attr
  OBVIOUS
<1>4. PICK q1 : q1 = Prefixed(q, start)
  OBVIOUS
<1>5. /\ \A i \in DOMAIN attr : ~Redefines(attr[i])
      /\ EncodeToken(q, start).p = Buffered(q1)
      /\ EncodeToken(q, start).item =
           StartTag(writeName(q1, name, FALSE), attrTexts(q1, attr), FALSE)
  BY <1>3, <1>4, StartEncoded
<1>6. MaxNumber \in Nat /\ MaxSeq \in Nat /\ MaxSeq <= MaxNumber
  BY TokensAssumption
<1>7. Startable(name, attr) /\ name \in Names /\ Plainly(name.local) /\ attr \in Seq(AttrSet)
  BY <1>3 DEF Startable
<1>8. Asked(name, attr)
  BY <1>5, <1>7, StartableAsked
<1>9. q1 \in Printers
  <2>1. Begun(q, u, name, attr, q1)
    BY <1>2, <1>3, <1>4, <1>6, <1>8, PrefixedOpened
  <2> QED
    BY <2>1 DEF Begun, Opened
<1>10. q1.seq <= MaxNumber
  <2>1. q1.seq <= MaxSeq /\ q1.seq \in Nat
    BY <1>5, <1>9, BufferedKeeps DEF Printers
  <2> QED
    BY <1>6, <2>1
<1>11. PICK m : m = Len(q.prefixes) + 1
  OBVIOUS
<1>12. /\ Entered(q, u, q1, name) /\ Bijective(ScopeOf(q1)) /\ LastMark(q1, m) /\ Announced(q1, m)
       /\ \A i \in 1..Len(attr) : Sound(q1, attr[i])
       /\ \A x : ~DeclaredHere(q1, m, x) => nsForPrefix(q1, x) = nsForPrefix(q, x)
  BY <1>2, <1>3, <1>4, <1>5, <1>6, <1>7, <1>10, <1>11, PrefixedEnters
<1>13. PICK t : t = Token(r, StartTag(writeName(q1, name, FALSE), attrTexts(q1, attr), FALSE))
  OBVIOUS
<1>14. Writable(ScopeOf(q1), name.space, FALSE)
  BY <1>12 DEF Entered
<1>15. /\ Nested(r, w, t.d, name) /\ Same(ScopeOf(q1), t.d.ns)
       /\ t.tok.kind = "Start" /\ t.tok.name = name
       /\ Undeclaring(t.tok.attr) = Undeclaring(attr)
  <2>1. StartRead(q1, name, attr, r, w, t)
    BY <1>2, <1>7, <1>9, <1>12, <1>13, <1>14, TagRead
  <2> QED
    BY <2>1 DEF StartRead
<1>16. Paired(q1, t.d)
  BY <1>1, <1>7, <1>12, <1>15, FramedGrows
<1>17. Paired(Buffered(q1), t.d)
  BY <1>9, <1>16, BufferedKeeps, PairedRest
<1>18. ReadAs(start, t.tok)
  BY <1>3, <1>15 DEF ReadAs
<1> QED
  BY <1>5, <1>13, <1>17, <1>18

\* The end of an element, as the printer takes it up.
LEMMA TagsCut ==
  ASSUME NEW q \in Printers, q.tags # << >>, NEW q0, q0 = [q EXCEPT !.tags = Front(@)]
  PROVE  /\ q0 \in Printers /\ q0.tags = Front(q.tags) /\ q0.prefixes = q.prefixes
         /\ ScopeOf(q0) = ScopeOf(q)
<1>1. q.tags \in Seq(Names)
  BY DEF Printers
<1>2. Front(q.tags) \in Seq(Names)
  <2>1. PICK n \in Nat : Len(q.tags) = n + 1
    <3>1. Len(q.tags) \in Nat /\ Len(q.tags) # 0
      BY <1>1, EmptySeq
    <3>2. (Len(q.tags) - 1) + 1 = Len(q.tags) /\ Len(q.tags) - 1 \in Nat
      BY <3>1
    <3> QED
      BY <3>2
  <2> QED
    BY <1>1, <2>1, FrontPart
<1>3. PICK tags \in Seq(Names) : tags = Front(q.tags)
  BY <1>2
<1>4. q0 = [q EXCEPT !.tags = tags]
  BY <1>3
<1>5. /\ [q EXCEPT !.tags = tags] \in Printers /\ [q EXCEPT !.tags = tags].tags = tags
      /\ [q EXCEPT !.tags = tags].prefixes = q.prefixes
      /\ ScopeOf([q EXCEPT !.tags = tags]) = ScopeOf(q)
  BY DEF Printers, ScopeOf
<1> QED
  BY <1>3, <1>4, <1>5

\* An end element.
LEMMA EndStep ==
  ASSUME NEW q, NEW r, Paired(q, r), NEW name, ~EncodeToken(q, EndElement(name)).err
  PROVE  /\ Paired(EncodeToken(q, EndElement(name)).p,
                   Token(r, EncodeToken(q, EndElement(name)).item).d)
         /\ ReadAs(EndElement(name), Token(r, EncodeToken(q, EndElement(name)).item).tok)
<1>1. PICK u, w, at, dp : Framed(q, r, u, w, at, dp)
  BY DEF Paired
<1>2. /\ q \in Printers /\ r \in Readers /\ History(u, q) /\ Past(w, r)
      /\ Bijective(ScopeOf(q)) /\ Same(ScopeOf(q), r.ns)
  BY <1>1, PairedSame DEF Framed
<1>3. PICK q0 : q0 = [q EXCEPT !.tags = Front(@)]
  OBVIOUS
<1>4. /\ q.tags # << >> /\ Last(q.tags) = name
      /\ EncodeToken(q, EndElement(name)).p = Buffered(popPrefix(q0))
      /\ EncodeToken(q, EndElement(name)).item = EndTag(writeName(q, name, FALSE))
  BY <1>3, EndEncoded
<1>5. PICK T \in Nat : Depth(q, T) /\ name = q.tags[T] /\ name \in Names
  <2>1. q.tags \in Seq(Names) /\ Len(q.tags) \in Nat /\ Len(q.tags) # 0
    BY <1>2, <1>4, Sizes, EmptySeq
  <2>2. Last(q.tags) = q.tags[Len(q.tags)] /\ q.tags[Len(q.tags)] \in Names
    BY <2>1 DEF Last
  <2> QED
    BY <1>4, <2>1, <2>2 DEF Depth
<1>6. PICK h \in Nat, f \in Nat : h = at[T] /\ f = dp[T]
  BY <1>1, <1>5, FramedTop
<1>7. /\ LastMark(q, h + 1) /\ OnTop(r, name, f)
      /\ Writable(ScopeOf(q), name.space, FALSE) /\ Plainly(name.local)
  <2>1. /\ LastMark(q, at[T] + 1) /\ OnTop(r, q.tags[T], dp[T])
        /\ Writable(ScopeOf(q), q.tags[T].space, FALSE) /\ Plainly(q.tags[T].local)
    BY <1>1, <1>5, FramedTop
  <2> QED
    BY <1>5, <1>6, <2>1
<1>8. /\ q0 \in Printers /\ q0.tags = Front(q.tags) /\ q0.prefixes = q.prefixes
      /\ ScopeOf(q0) = ScopeOf(q)
  BY <1>2, <1>3, <1>4, TagsCut
<1>9. History(u, q0) /\ LastMark(q0, h + 1)
  BY <1>2, <1>7, <1>8 DEF History, LastMark
<1>10. PICK q1 : q1 = Buffered(popPrefix(q0))
  OBVIOUS
<1>11. q1.tags = Front(q.tags) /\ PrinterBelow(q, u, h, q1)
  <2>1. PICK m \in Nat : m = h + 1
    OBVIOUS
  <2>2. LastMark(q0, m)
    BY <1>9, <2>1
  <2>3. PrinterBelow(q0, u, m - 1, popPrefix(q0)) /\ popPrefix(q0).tags = q0.tags
    BY <1>8, <1>9, <2>2, PopHistory
  <2>4. m - 1 = h
    BY <2>1
  <2>5. PrinterBelow(q0, u, h, popPrefix(q0))
    BY <2>3, <2>4
  <2>6. popPrefix(q0) \in Printers
    BY <2>5 DEF PrinterBelow
  <2>7. /\ q1 \in Printers /\ q1.tags = popPrefix(q0).tags
        /\ q1.prefixes = popPrefix(q0).prefixes /\ ScopeOf(q1) = ScopeOf(popPrefix(q0))
    BY <1>10, <2>6, BufferedKeeps
  <2> QED
    BY <1>8, <2>3, <2>5, <2>7 DEF PrinterBelow
<1>12. translate(r.ns, nsname(writeName(q, name, FALSE)), TRUE) = name
  <2>1. r.ns \in PartialMaps /\ ScopeOf(q) \in Scopes
    BY <1>2, Sizes
  <2>2. translate(r.ns, nsname(writeName(ScopeOf(q), name, FALSE)), TRUE) = name
    BY <1>2, <1>5, <1>7, <2>1, ElementReads
  <2>3. writeName(ScopeOf(q), name, FALSE) = writeName(q, name, FALSE)
    BY ScopeWrites
  <2> QED
    BY <2>2, <2>3
<1>13. Token(r, EndTag(writeName(q, name, FALSE))) = popElement(r, name)
  BY <1>2, <1>12, TokenEnd
<1>14. PICK t : t = popElement(r, name)
  OBVIOUS
<1>15. t.tok = EndElement(name) /\ ReaderBelow(r, w, f, t.d)
  <2>1. /\ popElement(r, name).tok = EndElement(name)
        /\ ReaderBelow(r, w, f, popElement(r, name).d)
    BY <1>2, <1>7, ElementPopped
  <2> QED
    BY <1>14, <2>1
<1>16. Paired(q1, t.d)
  <2>1. PrinterBelow(q, u, at[T], q1) /\ ReaderBelow(r, w, dp[T], t.d)
    BY <1>6, <1>11, <1>15
  <2> QED
    BY <1>1, <1>5, <1>11, <2>1, FramedShrinks
<1>17. ReadAs(EndElement(name), t.tok)
  BY <1>15 DEF ReadAs, EndElement
<1> QED
  BY <1>4, <1>10, <1>13, <1>14, <1>16, <1>17

\* Any other token.
LEMMA RestStep ==
  ASSUME NEW q, NEW r, Paired(q, r), NEW t,
         t.kind \in {"CharData", "Comment", "Directive", "ProcInst"}, ~EncodeToken(q, t).err
  PROVE  /\ Paired(EncodeToken(q, t).p, Token(r, EncodeToken(q, t).item).d)
         /\ ReadAs(t, Token(r, EncodeToken(q, t).item).tok)
<1>1. q \in Printers /\ r \in Readers
  BY PairedSame
<1>2. PICK it : it = EncodeToken(q, t).item
  OBVIOUS
<1>3. /\ EncodeToken(q, t).p = Buffered(q) /\ it.kind = t.kind
      /\ t.kind = "ProcInst" => it.supported
  BY <1>2, RestEncoded
<1>4. Token(r, it).d = r /\ Token(r, it).tok.kind = t.kind
  BY <1>1, <1>3, TokenRest
<1>5. Paired(Buffered(q), r)
  BY <1>1, BufferedKeeps, PairedRest
<1>6. ReadAs(t, Token(r, it).tok)
  BY <1>4 DEF ReadAs
<1> QED
  BY <1>2, <1>3, <1>4, <1>5, <1>6

-----------------------------------------------------------------------------
(* No attribute is written twice.                                          *)

\* The printer has declared no prefix twice above the height m.
Single(q, m) ==
  \A i, j \in m + 1..Len(q.prefixes) : q.prefixes[i].prefix = q.prefixes[j].prefix => i = j

\* What is declared above m, the first k attributes declare.
Stated(q, m, attr, k) == \A x : DeclaredHere(q, m, x) => DeclaredUpTo(attr, k, x)

\* A default name space declared above m is none.
Undefaulted(q, m) == DeclaredHere(q, m, "") => q.defaultNS = ""

\* The names of the attributes differ.
Differing(attr) == \A i, j \in DOMAIN attr : attr[i].name = attr[j].name => i = j

\* One more declaration, of a prefix that is not declared yet.
LEMMA AddsSingle ==
  ASSUME NEW q \in Printers, NEW m \in Nat, m <= Len(q.prefixes), Single(q, m), NEW x \in Texts,
         NEW url \in Texts, NEW c, Adds(q, x, url, c), ~DeclaredHere(q, m, x)
  PROVE  /\ Single(c, m)
         /\ \A z : DeclaredHere(c, m, z) <=> z = x \/ DeclaredHere(q, m, z)
<1>1. q.prefixes \in Seq(Records)
  BY DEF Printers
<1>2. PICK L \in Nat : L = Len(q.prefixes)
  BY <1>1
<1>3. PICK rec \in Records : rec.prefix = x /\ c.prefixes = Append(q.prefixes, rec)
  BY DEF Adds, printerPrefix
<1>4. /\ Len(c.prefixes) = L + 1 /\ c.prefixes[L + 1] = rec
      /\ \A i \in 1..L : c.prefixes[i] = q.prefixes[i]
  BY <1>1, <1>2, <1>3, Appended
<1>5. \A i \in m + 1..L + 1 : i = L + 1 \/ (i \in m + 1..L /\ i \in 1..L)
  BY <1>2
<1>6. L + 1 \in m + 1..L + 1 /\ \A i \in m + 1..L : i \in m + 1..L + 1 /\ i \in 1..L
  BY <1>2
<1>7. ASSUME NEW z
      PROVE  DeclaredHere(c, m, z) <=> z = x \/ DeclaredHere(q, m, z)
  BY <1>2, <1>3, <1>4, <1>5, <1>6 DEF DeclaredHere
<1>8. \A i \in m + 1..L : q.prefixes[i].prefix # x
  BY <1>2 DEF DeclaredHere
<1>9. ASSUME NEW i \in m + 1..L + 1, NEW j \in m + 1..L + 1,
             c.prefixes[i].prefix = c.prefixes[j].prefix
      PROVE  i = j
  <2>1. CASE i = L + 1 /\ j = L + 1
    BY <2>1
  <2>2. CASE i = L + 1 /\ j # L + 1
    BY <1>3, <1>4, <1>5, <1>8, <1>9, <2>2
  <2>3. CASE i # L + 1 /\ j = L + 1
    BY <1>3, <1>4, <1>5, <1>8, <1>9, <2>3
  <2>4. CASE i # L + 1 /\ j # L + 1
    BY <1>2, <1>4, <1>5, <1>9, <2>4 DEF Single
  <2> QED
    BY <2>1, <2>2, <2>3, <2>4
<1>10. Single(c, m)
  BY <1>4, <1>9 DEF Single
<1> QED
  BY <1>7, <1>10

\* The default name space after one more declaration.
LEMMA AddsDefault ==
  ASSUME NEW q \in Printers, NEW x \in Texts, NEW url \in Texts, x = "" \/ url # "",
         NEW c, Adds(q, x, url, c)
  PROVE  c.defaultNS = IF x = "" THEN url ELSE q.defaultNS
<1>1. ScopeOf(q) \in Scopes /\ ScopeOf(q).defaultNS = q.defaultNS
  BY ScopeType DEF ScopeOf
<1>2. ScopeOf(c) = setAttrPrefix(ScopeOf(q), x, url) /\ ScopeOf(c).defaultNS = c.defaultNS
  BY DEF Adds, ScopeOf
<1>3. CASE x = ""
  <2>1. setAttrPrefix(ScopeOf(q), "", url).defaultNS = url
    BY <1>1, SetDefault
  <2> QED
    BY <1>2, <1>3, <2>1
<1>4. CASE x # ""
  <2>1. url # ""
    BY <1>4
  <2>2. setAttrPrefix(ScopeOf(q), x, url).defaultNS = ScopeOf(q).defaultNS
    BY <1>1, <1>4, <2>1, SetPrefix
  <2> QED
    BY <1>1, <1>2, <1>4, <2>2
<1> QED
  BY <1>3, <1>4

\* A name in one part.
LEMMA OnePart ==
  ASSUME NEW local \in Seq(Texts), Len(local) = 1
  PROVE  /\ local # << >> /\ local = << local[1] >> /\ local[1] \in Texts
         /\ Head(local) = local[1]
<1>1. local # << >>
  <2>1. Len(local) # 0
    OBVIOUS
  <2> QED
    BY <2>1, EmptySeq
<1>2. Head(local) = local[1] /\ local[1] \in Texts
  BY <1>1, FirstPart
<1>3. local = << local[1] >>
  OBVIOUS
<1> QED
  BY <1>1, <1>2, <1>3

\* Two attributes that declare the same prefix have the same name.
LEMMA DeclaresName ==
  ASSUME NEW a \in AttrSet, Proper(a), NEW x, Declaring(a, x)
  PROVE  a.name = IF x = "" THEN Name("", << "xmlns" >>) ELSE Name("xmlns", << x >>)
<1>1. a.name \in Names /\ a.name.local \in Seq(Texts)
  BY DEF AttrSet, Names
<1>2. CASE a.name.space = "xmlns"
  <2>1. x = Head(a.name.local)
    BY <1>2 DEF Declaring
  <2>2. Len(a.name.local) = 1 /\ a.name.local[1] \notin Reserved
    BY <1>2 DEF Proper
  <2>3. a.name.local = << x >> /\ x # ""
    <3>1. PICK local \in Seq(Texts) : local = a.name.local /\ Len(local) = 1
      BY <1>1, <2>2
    <3>2. Head(local) = local[1] /\ local = << local[1] >>
      BY <3>1, OnePart
    <3> QED
      BY <2>1, <2>2, <3>1, <3>2 DEF Reserved
  <2>4. a.name = [space |-> a.name.space, local |-> a.name.local]
    BY <1>1 DEF Names
  <2> QED
    BY <1>2, <2>3, <2>4 DEF Name
<1>3. CASE a.name.space # "xmlns"
  BY <1>3 DEF Declaring
<1> QED
  BY <1>2, <1>3

\* defineNS declares the prefix its attribute declares, or nothing; no other
\* default than none for an element of no name space.
LEMMA DefineAdds ==
  ASSUME NEW q \in Printers, NEW a \in AttrSet, Proper(a), ~Redefines(a), NEW flag \in BOOLEAN
  PROVE  \/ defineNS(q, a, flag) = q
         \/ \E x \in Texts : /\ Declaring(a, x) /\ Adds(q, x, a.value, defineNS(q, a, flag))
                             /\ x = "" \/ a.value # ""
                             /\ x = "" /\ flag => a.value = ""
<1>1. PICK prefix : prefix = IF a.name.local = << "xmlns" >> THEN "" ELSE Head(a.name.local)
  OBVIOUS
<1>2. PICK skip \in BOOLEAN : skip <=>
        \/ ~isNamespace(a.name)
        \/ prefix # "" /\ (a.value = "" \/ a.value \in DOMAIN q.attrPrefix)
        \/ prefix = "" /\ (a.value = q.defaultNS \/ (a.value # "" /\ flag))
  OBVIOUS
<1>3. defineNS(q, a, flag) = IF skip THEN q ELSE pushPrefix(q, prefix, a.value)
  BY <1>1, <1>2 DEF defineNS
<1>4. CASE skip
  BY <1>3, <1>4
<1>5. CASE ~skip
  <2>1. a.value \in Texts /\ a.name \in Names /\ a.name.local \in Seq(Texts)
    BY DEF AttrSet, Names
  <2>2. isNamespace(a.name)
    BY <1>2, <1>5
  <2>3. Declaring(a, prefix) /\ prefix \in Texts
    <3>1. CASE a.name.local = << "xmlns" >>
      <4>1. a.name.space # "xmlns"
        BY <3>1 DEF Proper, Reserved, Plainly
      <4>2. a.name.space = ""
        <5>1. a.name.space \in {"", "xml", xmlURL}
          BY <3>1 DEF Redefines
        <5>2. a.name.local[1] = "xmlns"
          BY <3>1
        <5>3. ~Plainly(a.name.local)
          BY <5>2 DEF Plainly
        <5>4. a.name.space \notin {"xmlns", "xml", xmlURL}
          BY <4>1, <5>3 DEF Proper
        <5> QED
          BY <5>1, <5>4
      <4>3. a.name = [space |-> a.name.space, local |-> a.name.local]
        BY <2>1 DEF Names
      <4>4. a.name = Name("", << "xmlns" >>) /\ prefix = ""
        BY <1>1, <3>1, <4>2, <4>3 DEF Name
      <4> QED
        BY <4>1, <4>4, Literals DEF Declaring
    <3>2. CASE a.name.local # << "xmlns" >>
      <4>1. a.name.space = "xmlns" /\ prefix = Head(a.name.local)
        BY <1>1, <2>2, <3>2 DEF isNamespace
      <4>2. Len(a.name.local) = 1
        BY <3>2, <4>1 DEF Proper
      <4>3. a.name.local # << >>
        BY <2>1, <4>2, OnePart
      <4>4. Head(a.name.local) \in Texts
        BY <2>1, <4>2, OnePart
      <4> QED
        BY <4>1, <4>3, <4>4 DEF Declaring
    <3> QED
      BY <3>1, <3>2
  <2>4. Adds(q, prefix, a.value, pushPrefix(q, prefix, a.value))
    BY <2>1, <2>3, PushAdds
  <2>5. prefix = "" \/ a.value # ""
    BY <1>2, <1>5
  <2>6. prefix = "" /\ flag => a.value = ""
    BY <1>2, <1>5
  <2> QED
    BY <1>3, <1>5, <2>3, <2>4, <2>5, <2>6
<1> QED
  BY <1>4, <1>5

\* While the declarations of a start element are taken up, the first k of them:
\* no prefix twice.
Neat(q, m, attr, k, flag) ==
  Single(q, m) /\ Stated(q, m, attr, k) /\ (flag => Undefaulted(q, m))

\* One attribute more of them.
LEMMA DefineNeat ==
  ASSUME NEW q \in Printers, NEW m \in Nat, m <= Len(q.prefixes), NEW attr \in Seq(AttrSet),
         \A i \in DOMAIN attr : Proper(attr[i]) /\ ~Redefines(attr[i]), Differing(attr),
         NEW k \in 1..Len(attr), NEW flag \in BOOLEAN, Neat(q, m, attr, k - 1, flag)
  PROVE  Neat(defineNS(q, attr[k], flag), m, attr, k, flag)
<1>1. PICK N \in Nat : N = Len(attr) /\ DOMAIN attr = 1..N
  OBVIOUS
<1>2. k \in 1..N /\ k - 1 \in 0..N /\ \A i : i \in 1..k <=> i = k \/ i \in 1..k - 1
  BY <1>1, UpTo
<1>3. PICK a \in AttrSet : a = attr[k] /\ Proper(a) /\ ~Redefines(a)
  BY <1>1, <1>2
<1>4. PICK c : c = defineNS(q, a, flag)
  OBVIOUS
<1>5. Single(q, m) /\ Stated(q, m, attr, k - 1) /\ (flag => Undefaulted(q, m))
  BY DEF Neat
<1>6. \A x : DeclaredUpTo(attr, k, x) <=> Declaring(a, x) \/ DeclaredUpTo(attr, k - 1, x)
  BY <1>2, <1>3 DEF DeclaredUpTo
<1>7. CASE c = q
  <2>1. Stated(q, m, attr, k)
    BY <1>5, <1>6 DEF Stated
  <2>2. Neat(q, m, attr, k, flag)
    BY <1>5, <2>1 DEF Neat
  <2> QED
    BY <1>3, <1>4, <1>7, <2>2
<1>8. CASE c # q
  <2>1. PICK x \in Texts : /\ Declaring(a, x) /\ Adds(q, x, a.value, c)
                           /\ x = "" \/ a.value # ""
                           /\ x = "" /\ flag => a.value = ""
    <3>1. \/ defineNS(q, a, flag) = q
          \/ \E x \in Texts : /\ Declaring(a, x) /\ Adds(q, x, a.value, defineNS(q, a, flag))
                              /\ x = "" \/ a.value # ""
                              /\ x = "" /\ flag => a.value = ""
      BY <1>3, DefineAdds
    <3> QED
      BY <1>4, <1>8, <3>1
  <2>2. ~DeclaredHere(q, m, x)
    <3> SUFFICES ASSUME DeclaredHere(q, m, x)
                 PROVE  FALSE
      OBVIOUS
    <3>1. PICK i \in 1..k - 1 : Declaring(attr[i], x)
      BY <1>5 DEF Stated, DeclaredUpTo
    <3>2. i \in 1..N /\ i # k
      BY <1>2
    <3>3. PICK b \in AttrSet : b = attr[i] /\ Proper(b) /\ Declaring(b, x)
      BY <1>1, <3>1, <3>2
    <3>4. b.name = IF x = "" THEN Name("", << "xmlns" >>) ELSE Name("xmlns", << x >>)
      BY <3>3, DeclaresName
    <3>5. a.name = IF x = "" THEN Name("", << "xmlns" >>) ELSE Name("xmlns", << x >>)
      BY <1>3, <2>1, DeclaresName
    <3>6. attr[i].name = attr[k].name
      BY <1>3, <3>3, <3>4, <3>5
    <3> QED
      BY <1>1, <1>2, <3>2, <3>6 DEF Differing
  <2>3. a.value \in Texts
    BY DEF AttrSet
  <2>4. /\ Single(c, m) /\ \A z : DeclaredHere(c, m, z) <=> z = x \/ DeclaredHere(q, m, z)
    BY <1>5, <2>1, <2>2, <2>3, AddsSingle
  <2>5. Stated(c, m, attr, k)
    BY <1>5, <1>6, <2>1, <2>4 DEF Stated
  <2>6. c.defaultNS = IF x = "" THEN a.value ELSE q.defaultNS
    BY <2>1, <2>3, AddsDefault
  <2>7. flag => Undefaulted(c, m)
    BY <1>5, <2>1, <2>4, <2>6 DEF Undefaulted
  <2>8. Neat(c, m, attr, k, flag)
    BY <2>4, <2>5, <2>7 DEF Neat
  <2> QED
    BY <1>3, <1>4, <2>8
<1> QED
  BY <1>7, <1>8

\* The printer q, which has declared something since it was o in the scopes v,
\* has declared no prefix twice, as far as there were numbers.
Sparing(o, v, q, flag) ==
  /\ Opened(o, v, q)
  /\ q.seq <= MaxNumber =>
       Single(q, Len(o.prefixes)) /\ (flag => Undefaulted(q, Len(o.prefixes)))

\* All of the declarations.
LEMMA DeclaredSparing ==
  ASSUME NEW o \in Printers, NEW v, History(v, o), NEW attr \in Seq(AttrSet),
         \A i \in DOMAIN attr : Proper(attr[i]) /\ ~Redefines(attr[i]), Differing(attr),
         NEW flag \in BOOLEAN
  PROVE  Sparing(o, v, DeclaredBy(o, attr, flag), flag)
<1>1. PICK m \in Nat : m = Len(o.prefixes)
  BY DEF Printers
<1>2. PICK N \in Nat : N = Len(attr) /\ DOMAIN attr = 1..N
  OBVIOUS
<1>3. PICK V : V = {r \in Printers : Opened(o, v, r)}
  OBVIOUS
<1>4. \A r : r \in V <=> Opened(o, v, r)
  BY <1>3 DEF Opened
<1>5. PICK G : G = [k \in 0..N |-> {r \in V : Neat(r, m, attr, k, flag)}]
  OBVIOUS
<1>6. o \in V /\ o \in G[0]
  <2>1. o \in V
    BY <1>4, OpenedAtFirst
  <2>2. \A x : ~DeclaredHere(o, m, x)
    BY <1>1 DEF DeclaredHere
  <2>3. Single(o, m)
    BY <1>1 DEF Single
  <2>4. Neat(o, m, attr, 0, flag)
    BY <2>2, <2>3 DEF Neat, Stated, Undefaulted
  <2> QED
    BY <1>5, <2>1, <2>4
<1>7. ASSUME NEW r \in V, NEW i \in DOMAIN attr
      PROVE  defineNS(r, attr[i], flag) \in V
  <2>1. attr[i] \in AttrSet /\ Declares(attr[i])
    <3>1. attr[i] \in AttrSet /\ Proper(attr[i]) /\ ~Redefines(attr[i])
      OBVIOUS
    <3> QED
      BY <3>1, ProperSuited
  <2>2. Opened(o, v, r)
    BY <1>4
  <2>3. Opened(o, v, defineNS(r, attr[i], flag))
    BY <2>1, <2>2, DefineOpened
  <2> QED
    BY <1>4, <2>3
<1>8. ASSUME NEW k \in 1..N, NEW r \in G[k - 1]
      PROVE  defineNS(r, attr[k], flag) \in G[k]
  <2>1. k \in 0..N /\ k - 1 \in 0..N
    OBVIOUS
  <2>2. r \in V /\ Neat(r, m, attr, k - 1, flag)
    BY <1>5, <2>1
  <2>3. r \in Printers /\ m <= Len(r.prefixes)
    <3>1. Opened(o, v, r)
      BY <1>4, <2>2
    <3> QED
      BY <1>1, <3>1 DEF Opened
  <2>4. k \in 1..Len(attr)
    BY <1>2
  <2>5. Neat(defineNS(r, attr[k], flag), m, attr, k, flag)
    BY <2>2, <2>3, <2>4, DefineNeat
  <2>6. defineNS(r, attr[k], flag) \in V
    BY <1>2, <1>7, <2>2
  <2> QED
    BY <1>5, <2>1, <2>5, <2>6
<1>9. DeclaredBy(o, attr, flag) \in G[N]
  <2>1. \A k \in 1..Len(attr) : \A r \in G[k - 1] : defineNS(r, attr[k], flag) \in G[k]
    BY <1>2, <1>8
  <2>2. DeclaredBy(o, attr, flag) \in G[Len(attr)]
    BY <1>6, <1>7, <2>1, DeclaredByReaches
  <2> QED
    BY <1>2, <2>2
<1>10. DeclaredBy(o, attr, flag) \in V /\ Neat(DeclaredBy(o, attr, flag), m, attr, N, flag)
  <2>1. N \in 0..N
    BY <1>2
  <2> QED
    BY <1>5, <1>9, <2>1
<1>11. Opened(o, v, DeclaredBy(o, attr, flag))
  BY <1>4, <1>10
<1> QED
  BY <1>1, <1>10, <1>11 DEF Neat, Sparing

\* The records of a printer are finitely many.
LEMMA RecordCount ==
  ASSUME NEW q \in Printers
  PROVE  Len(q.prefixes) \in Nat
<1>1. q.prefixes \in Seq(Records)
  BY DEF Printers
<1> QED
  BY <1>1

\* A prefix made for a name space.
LEMMA CreateSparing ==
  ASSUME MaxNumber \in Nat, NEW o \in Printers, NEW v, NEW q, NEW flag \in BOOLEAN,
         Sparing(o, v, q, flag), NEW url, Hinted(url), NEW isAttr \in BOOLEAN, url # "" \/ flag
  PROVE  Sparing(o, v, createNSPrefix(q, url, isAttr), flag)
<1>1. PICK c : c = createNSPrefix(q, url, isAttr)
  OBVIOUS
<1>2. Opened(o, v, q) /\ q \in Printers
  BY DEF Sparing, Opened
<1>3. Opened(o, v, createNSPrefix(q, url, isAttr))
  BY <1>2, CreateOpened
<1>4. Opened(o, v, c)
  BY <1>1, <1>3
<1>5. PICK m \in Nat : m = Len(o.prefixes) /\ m <= Len(q.prefixes)
  <2>1. Len(o.prefixes) \in Nat
    BY RecordCount
  <2>2. Len(o.prefixes) <= Len(q.prefixes)
    BY <1>2 DEF Opened
  <2> QED
    BY <2>1, <2>2
<1>6. ASSUME c.seq <= MaxNumber
      PROVE  Single(c, m) /\ (flag => Undefaulted(c, m))
  <2>1. createNSPrefix(q, url, isAttr).seq <= MaxNumber
    BY <1>1, <1>6
  <2>2. /\ q.seq <= MaxNumber
        /\ \/ createNSPrefix(q, url, isAttr) = q
           \/ url = "" /\ q.defaultNS # "" /\ Adds(q, "", "", createNSPrefix(q, url, isAttr))
           \/ /\ url # ""
              /\ \E x \in Texts : /\ x \notin Reserved /\ x \notin DOMAIN q.attrNS
                                  /\ Adds(q, x, url, createNSPrefix(q, url, isAttr))
    BY <1>2, <2>1, CreateAdds
  <2>3. Single(q, m) /\ (flag => Undefaulted(q, m))
    BY <1>5, <2>2 DEF Sparing
  <2>4. CASE c = q
    BY <2>3, <2>4
  <2>5. CASE url = "" /\ q.defaultNS # "" /\ Adds(q, "", "", c)
    <3>1. PICK e \in Texts : e = ""
      BY Literals
    <3>2. flag /\ ~DeclaredHere(q, m, e)
      BY <2>3, <2>5, <3>1 DEF Undefaulted
    <3>3. Adds(q, e, e, c)
      BY <2>5, <3>1
    <3>4. Single(c, m)
      BY <1>2, <1>5, <2>3, <3>2, <3>3, AddsSingle
    <3>5. c.defaultNS = IF e = "" THEN e ELSE q.defaultNS
      BY <1>2, <3>1, <3>3, AddsDefault
    <3> QED
      BY <3>1, <3>4, <3>5 DEF Undefaulted
  <2>6. ASSUME NEW x \in Texts, url # "", x \notin Reserved, x \notin DOMAIN q.attrNS, Adds(q, x, url, c)
        PROVE  Single(c, m) /\ (flag => Undefaulted(c, m))
    <3>1. x # "" /\ url \in Texts
      BY <2>6 DEF Reserved, Hinted
    <3>2. ~DeclaredHere(q, m, x)
      <4>1. nsForPrefix(q, x) = ""
        BY <2>6, <3>1 DEF nsForPrefix
      <4>2. \A i \in m + 1..Len(q.prefixes) :
              q.prefixes[i].prefix # "" => nsForPrefix(q, q.prefixes[i].prefix) # ""
        BY <1>2, <1>5 DEF Opened
      <4> QED
        BY <3>1, <4>1, <4>2 DEF DeclaredHere
    <3>3. Single(c, m) /\ \A z : DeclaredHere(c, m, z) <=> z = x \/ DeclaredHere(q, m, z)
      BY <1>2, <1>5, <2>3, <2>6, <3>1, <3>2, AddsSingle
    <3>4. c.defaultNS = IF x = "" THEN url ELSE q.defaultNS
      BY <1>2, <2>6, <3>1, AddsDefault
    <3> QED
      BY <2>3, <3>1, <3>3, <3>4 DEF Undefaulted
  <2> QED
    BY <1>1, <2>2, <2>4, <2>5, <2>6
<1>7. Sparing(o, v, c, flag)
  BY <1>4, <1>5, <1>6 DEF Sparing
<1> QED
  BY <1>1, <1>7

\* The prefixes the attributes need.
LEMMA NeededSparing ==
  ASSUME MaxNumber \in Nat, NEW o \in Printers, NEW v, NEW q, NEW flag \in BOOLEAN,
         Sparing(o, v, q, flag), NEW attr \in Seq(AttrSet), \A i \in DOMAIN attr : Suited(attr[i])
  PROVE  Sparing(o, v, NeededBy(q, attr), flag)
<1>1. PICK N \in Nat : N = Len(attr) /\ DOMAIN attr = 1..N
  OBVIOUS
<1>2. PICK V : V = {r \in Printers : Sparing(o, v, r, flag)}
  OBVIOUS
<1>3. \A r : r \in V <=> Sparing(o, v, r, flag)
  BY <1>2 DEF Sparing, Opened
<1>4. PICK G : G = [k \in 0..N |-> V]
  OBVIOUS
<1>5. q \in V /\ q \in G[0]
  BY <1>3, <1>4
<1>6. ASSUME NEW r \in V, NEW i \in DOMAIN attr
      PROVE  neededBy(r, attr[i]) \in V
  <2>1. PICK a \in AttrSet : a = attr[i] /\ Suited(a)
    OBVIOUS
  <2>2. Sparing(o, v, r, flag)
    BY <1>3
  <2>3. CASE a.name.space = "" \/ isNamespace(a.name)
    BY <2>1, <2>3 DEF neededBy
  <2>4. CASE ~(a.name.space = "" \/ isNamespace(a.name))
    <3>1. Hinted(a.name.space) /\ a.name.space # ""
      BY <2>1, <2>4 DEF Suited
    <3>2. Sparing(o, v, createNSPrefix(r, a.name.space, TRUE), flag)
      BY <2>2, <3>1, CreateSparing
    <3>3. neededBy(r, a) = createNSPrefix(r, a.name.space, TRUE)
      BY <2>4 DEF neededBy
    <3> QED
      BY <1>3, <2>1, <3>2, <3>3
  <2> QED
    BY <2>3, <2>4
<1>7. \A k \in 1..Len(attr) : \A r \in G[k - 1] : neededBy(r, attr[k]) \in G[k]
  <2> SUFFICES ASSUME NEW k \in 1..N, NEW r \in G[k - 1]
               PROVE  neededBy(r, attr[k]) \in G[k]
    BY <1>1
  <2>1. k \in 0..N /\ k - 1 \in 0..N
    OBVIOUS
  <2> QED
    BY <1>1, <1>4, <1>6, <2>1
<1>8. NeededBy(q, attr) \in G[Len(attr)]
  BY <1>5, <1>6, <1>7, NeededByReaches
<1>9. Len(attr) \in 0..N
  BY <1>1
<1> QED
  BY <1>3, <1>4, <1>8, <1>9

\* The prefixes of a start element.
LEMMA PrefixedSingle ==
  ASSUME MaxNumber \in Nat, NEW q \in Printers, NEW u, History(u, q), NEW name, NEW attr,
         Startable(name, attr), \A i \in DOMAIN attr : ~Redefines(attr[i]), Differing(attr),
         NEW start, start.name = name, start.attr = attr, Prefixed(q, start).seq <= MaxNumber
  PROVE  Single(Prefixed(q, start), Len(q.prefixes) + 1)
<1>1. name \in Names /\ Hinted(name.space) /\ attr \in Seq(AttrSet)
  BY DEF Startable
<1>2. \A i \in DOMAIN attr : Proper(attr[i]) /\ ~Redefines(attr[i]) /\ Suited(attr[i])
  <2> SUFFICES ASSUME NEW i \in DOMAIN attr
               PROVE  Proper(attr[i]) /\ ~Redefines(attr[i]) /\ Suited(attr[i])
    OBVIOUS
  <2>1. attr[i] \in AttrSet /\ Proper(attr[i]) /\ ~Redefines(attr[i])
    BY <1>1 DEF Startable
  <2> QED
    BY <2>1, ProperSuited
<1>3. PICK o \in Printers : o = Opening(q, name) /\ o.prefixes = Append(q.prefixes, Mark)
  BY <1>1, MarkHistory
<1>4. PICK v : History(v, o)
  BY <1>1, <1>3, MarkHistory
<1>5. Len(o.prefixes) = Len(q.prefixes) + 1
  <2>1. q.prefixes \in Seq(Records) /\ Mark \in Records
    BY Literals DEF Printers, Records, Mark
  <2> QED
    BY <1>3, <2>1, Appended
<1>6. PICK flag \in BOOLEAN : flag = (name.space = "")
  OBVIOUS
<1>7. Sparing(o, v, DeclaredBy(o, attr, flag), flag)
  BY <1>1, <1>2, <1>4, DeclaredSparing
<1>8. Sparing(o, v, NeededBy(DeclaredBy(o, attr, flag), attr), flag)
  BY <1>1, <1>2, <1>7, NeededSparing
<1>9. Sparing(o, v, createNSPrefix(NeededBy(DeclaredBy(o, attr, flag), attr), name.space, FALSE), flag)
  BY <1>1, <1>6, <1>8, CreateSparing
<1>10. Prefixed(q, start) = createNSPrefix(NeededBy(DeclaredBy(o, attr, flag), attr), name.space, FALSE)
  BY <1>3, <1>6 DEF Prefixed, Opening
<1> QED
  BY <1>5, <1>9, <1>10 DEF Sparing

\* The name of a prefix in a declaration tells which it is.
LEMMA DeclNames ==
  ASSUME NEW x \in Texts, NEW y \in Texts, declName(x) = declName(y)
  PROVE  x = y
<1>1. PICK e \in Texts, s \in Texts : e = "xmlns" /\ s = ""
  BY Literals
<1>2. ASSUME NEW z \in Texts, NEW v \in Texts
      PROVE  /\ << e, z >> # << e >>
             /\ << e, z >> = << e, v >> => z = v
  OBVIOUS
<1>3. \A z \in Texts : declName(z) = IF z = s THEN << e >> ELSE << e, z >>
  BY <1>1 DEF declName
<1>4. CASE x = s
  <2>1. declName(x) = << e >>
    BY <1>3, <1>4
  <2>2. y # s => declName(y) = << e, y >>
    BY <1>3
  <2>3. << e, y >> # << e >>
    BY <1>2
  <2> QED
    BY <1>4, <2>1, <2>2, <2>3
<1>5. CASE y = s
  <2>1. declName(y) = << e >>
    BY <1>3, <1>5
  <2>2. x # s => declName(x) = << e, x >>
    BY <1>3
  <2>3. << e, x >> # << e >>
    BY <1>2
  <2> QED
    BY <1>5, <2>1, <2>2, <2>3
<1>6. CASE x # s /\ y # s
  <2>1. declName(x) = << e, x >> /\ declName(y) = << e, y >>
    BY <1>3, <1>6
  <2> QED
    BY <1>2, <2>1
<1> QED
  BY <1>4, <1>5, <1>6

\* It is no name that is written otherwise.
LEMMA DeclReserved ==
  ASSUME NEW x \in Texts
  PROVE  isNamespace(nsname(declName(x)))
<1>1. PICK e \in Texts : e = ""
  BY Literals
<1>2. isNamespace(raw(AttrText(declName(x), e)).name)
  BY DeclRaw
<1>3. raw(AttrText(declName(x), e)).name = nsname(declName(x))
  BY DEF raw, Attr, AttrText
<1> QED
  BY <1>2, <1>3

\* Two attributes that are kept are written with different names when they have
\* different names, since they can be read back.
LEMMA KeptOnce ==
  ASSUME NEW q \in Printers, Bijective(ScopeOf(q)), NEW ns \in PartialMaps, Same(ScopeOf(q), ns),
         NEW a \in AttrSet, Sound(q, a), ~isNamespace(a.name),
         NEW b \in AttrSet, Sound(q, b), ~isNamespace(b.name),
         writeName(q, a.name, TRUE) = writeName(q, b.name, TRUE)
  PROVE  a.name = b.name
<1>1. ScopeOf(q) \in Scopes
  BY ScopeType
<1>2. ASSUME NEW z \in AttrSet, Sound(q, z), ~isNamespace(z.name)
      PROVE  translate(ns, nsname(writeName(q, z.name, TRUE)), FALSE) = z.name
  <2>1. z.name \in Names
    BY DEF AttrSet
  <2>2. Plainly(z.name.local) /\ (z.name.space = "" \/ Writable(ScopeOf(q), z.name.space, TRUE))
    BY <1>2 DEF Sound
  <2>3. translate(ns, nsname(writeName(ScopeOf(q), z.name, TRUE)), FALSE) = z.name
    BY <1>1, <2>1, <2>2, AttrReads
  <2>4. writeName(ScopeOf(q), z.name, TRUE) = writeName(q, z.name, TRUE)
    BY ScopeWrites
  <2> QED
    BY <2>3, <2>4
<1>3. translate(ns, nsname(writeName(q, a.name, TRUE)), FALSE) = a.name
  BY <1>2
<1>4. translate(ns, nsname(writeName(q, b.name, TRUE)), FALSE) = b.name
  BY <1>2
<1> QED
  BY <1>3, <1>4

\* The texts of a tag's attributes have different names.
Once(T) == \A i, j \in DOMAIN T : T[i].qname = T[j].qname => i = j

\* The declarations of an element, and the attributes it keeps, are all written
\* with different names.
LEMMA TagOnce ==
  ASSUME NEW q \in Printers, Bijective(ScopeOf(q)), NEW ns \in PartialMaps, Same(ScopeOf(q), ns),
         NEW m \in Nat, Single(q, m), NEW K \in Nat, NEW kept \in Seq(AttrSet), NEW A, NEW T,
         TagAttrs(q, m, K, kept, A, T), \A i \in 1..Len(kept) : ~isNamespace(kept[i].name),
         Differing(kept), q.prefixes \in Seq(Records)
  PROVE  Once(T)
<1>1. PICK M \in Nat, L \in Nat : M = Len(kept) /\ L = Len(q.prefixes) /\ DOMAIN kept = 1..M
  OBVIOUS
<1>2. T \in Seq(AttrTexts) /\ DOMAIN T = 1..K + M
  BY <1>1 DEF TagAttrs
<1>3. \A i \in 1..K :
        /\ (L + 1) - i \in m + 1..L /\ isNamespace(A[i].name)
        /\ \A x : Declaring(A[i], x) <=> x = q.prefixes[(L + 1) - i].prefix
        /\ T[i].qname = declName(q.prefixes[(L + 1) - i].prefix)
  BY <1>1 DEF TagAttrs
<1>4. \A n \in 1..M :
        /\ A[K + n].name = nsname(writeName(q, kept[n].name, TRUE)) /\ Quiet(A[K + n])
        /\ Sound(q, kept[n]) /\ T[K + n].qname = writeName(q, kept[n].name, TRUE)
  BY <1>1 DEF TagAttrs
<1>5. ASSUME NEW i \in 1..K
      PROVE  q.prefixes[(L + 1) - i].prefix \in Texts
  <2>1. (L + 1) - i \in 1..L
    BY <1>3
  <2> QED
    BY <1>1, <2>1, RecordType
<1>6. ASSUME NEW i \in 1..K, NEW n \in 1..M
      PROVE  T[i].qname # T[K + n].qname
  <2>1. isNamespace(nsname(T[i].qname))
    BY <1>3, <1>5, DeclReserved
  <2>2. ~isNamespace(nsname(T[K + n].qname))
    BY <1>4 DEF Quiet
  <2> QED
    BY <2>1, <2>2
<1>7. ASSUME NEW i \in 1..K, NEW j \in 1..K, T[i].qname = T[j].qname
      PROVE  i = j
  <2>1. declName(q.prefixes[(L + 1) - i].prefix) = declName(q.prefixes[(L + 1) - j].prefix)
    BY <1>3, <1>7
  <2>2. q.prefixes[(L + 1) - i].prefix = q.prefixes[(L + 1) - j].prefix
    BY <1>5, <2>1, DeclNames
  <2>3. (L + 1) - i = (L + 1) - j
    BY <1>1, <1>3, <2>2 DEF Single
  <2> QED
    BY <2>3
<1>8. ASSUME NEW i \in 1..M, NEW j \in 1..M, T[K + i].qname = T[K + j].qname
      PROVE  i = j
  <2>1. PICK a \in AttrSet, b \in AttrSet :
             /\ a = kept[i] /\ Sound(q, a) /\ ~isNamespace(a.name)
             /\ b = kept[j] /\ Sound(q, b) /\ ~isNamespace(b.name)
    <3>1. kept[i] \in AttrSet /\ kept[j] \in AttrSet
      BY <1>1
    <3>2. ~isNamespace(kept[i].name) /\ ~isNamespace(kept[j].name)
      BY <1>1
    <3>3. Sound(q, kept[i]) /\ Sound(q, kept[j])
      BY <1>4
    <3> QED
      BY <3>1, <3>2, <3>3
  <2>2. writeName(q, a.name, TRUE) = writeName(q, b.name, TRUE)
    BY <1>4, <1>8, <2>1
  <2>3. a.name = b.name
    BY <2>1, <2>2, KeptOnce
  <2> QED
    BY <1>1, <2>1, <2>3 DEF Differing
<1>9. ASSUME NEW i \in 1..K + M, NEW j \in 1..K + M, T[i].qname = T[j].qname
      PROVE  i = j
  <2>1. i \in 1..K \/ \E n \in 1..M : i = K + n
    BY <1>1, Half
  <2>2. j \in 1..K \/ \E n \in 1..M : j = K + n
    BY <1>1, Half
  <2> QED
    BY <1>6, <1>7, <1>8, <1>9, <2>1, <2>2
<1> QED
  BY <1>2, <1>9 DEF Once

\* The item was written for the token t with no attribute twice, unless t has
\* one twice.
WrittenOnce(t, it) == t.kind = "Start" /\ Differing(t.attr) => Once(it.attr)

\* So is every start tag.
LEMMA StartOnce ==
  ASSUME NEW q, NEW r, Paired(q, r), NEW start, start.kind = "Start",
         Startable(start.name, start.attr), ~EncodeToken(q, start).err,
         EncodeToken(q, start).p.seq <= MaxSeq, Differing(start.attr)
  PROVE  Once(EncodeToken(q, start).item.attr)
<1>1. PICK u, w, at, dp : Framed(q, r, u, w, at, dp)
  BY DEF Paired
<1>2. /\ q \in Printers /\ r \in Readers /\ History(u, q) /\ Past(w, r)
      /\ Same(ScopeOf(q), r.ns)
  BY <1>1, PairedSame DEF Framed
<1>3. PICK name, attr : name = start.name /\ attr = start.attr
  OBVIOUS
<1>4. PICK q1 : q1 = Prefixed(q, start)
  OBVIOUS
<1>5. /\ \A i \in DOMAIN attr : ~Redefines(attr[i])
      /\ EncodeToken(q, start).p = Buffered(q1)
      /\ EncodeToken(q, start).item =
           StartTag(writeName(q1, name, FALSE), attrTexts(q1, attr), FALSE)
  BY <1>3, <1>4, StartEncoded
<1>6. MaxNumber \in Nat /\ MaxSeq \in Nat /\ MaxSeq <= MaxNumber
  BY TokensAssumption
<1>7. /\ Startable(name, attr) /\ name \in Names /\ Plainly(name.local) /\ attr \in Seq(AttrSet)
      /\ Differing(attr)
  BY <1>3 DEF Startable
<1>8. Asked(name, attr)
  BY <1>5, <1>7, StartableAsked
<1>9. q1 \in Printers
  <2>1. Begun(q, u, name, attr, q1)
    BY <1>2, <1>3, <1>4, <1>6, <1>8, PrefixedOpened
  <2> QED
    BY <2>1 DEF Begun, Opened
<1>10. q1.seq <= MaxNumber
  <2>1. q1.seq <= MaxSeq /\ q1.seq \in Nat
    BY <1>5, <1>9, BufferedKeeps DEF Printers
  <2> QED
    BY <1>6, <2>1
<1>11. PICK m \in Nat : m = Len(q.prefixes) + 1
  <2>1. q.prefixes \in Seq(Records)
    BY <1>2 DEF Printers
  <2> QED
    BY <2>1
<1>12. /\ Bijective(ScopeOf(q1)) /\ LastMark(q1, m) /\ Announced(q1, m)
       /\ \A i \in 1..Len(attr) : Sound(q1, attr[i])
       /\ \A x : ~DeclaredHere(q1, m, x) => nsForPrefix(q1, x) = nsForPrefix(q, x)
  BY <1>2, <1>3, <1>4, <1>5, <1>6, <1>7, <1>10, <1>11, PrefixedEnters
<1>13. Single(q1, m)
  <2>1. Prefixed(q, start).seq <= MaxNumber
    BY <1>4, <1>10
  <2>2. Single(Prefixed(q, start), Len(q.prefixes) + 1)
    BY <1>2, <1>3, <1>5, <1>6, <1>7, <2>1, PrefixedSingle
  <2> QED
    BY <1>4, <1>11, <2>2
<1>14. PICK ns \in PartialMaps : Same(ScopeOf(q1), ns)
  <2>1. PICK inner : inner = pushAllNs(r, rawAttrs(q1, attr))
    OBVIOUS
  <2>2. Listening(r, w, inner) /\ Same(ScopeOf(q1), inner.ns)
    BY <1>2, <1>7, <1>9, <1>12, <2>1, RawsRead
  <2>3. inner.ns \in PartialMaps
    BY <2>2, ReaderType DEF Listening
  <2> QED
    BY <2>2, <2>3
<1>15. PICK K \in Nat : K = Len(q1.prefixes) - m
  BY <1>9, <1>12, DeclTexts
<1>16. PICK kept \in Seq(AttrSet) : kept = Undeclaring(attr)
  BY <1>7, KeptAttrs
<1>17. PICK A, T : A = rawAttrs(q1, attr) /\ T = attrTexts(q1, attr)
  OBVIOUS
<1>18. TagAttrs(q1, m, K, kept, A, T)
  <2>1. TagAttrs(q1, m, K, kept, rawAttrs(q1, attr), attrTexts(q1, attr))
    BY <1>7, <1>9, <1>12, <1>15, <1>16, RawAttrs
  <2> QED
    BY <1>17, <2>1
<1>19. (\A i \in 1..Len(kept) : ~isNamespace(kept[i].name)) /\ Differing(kept)
  <2>1. \A i, j \in 1..Len(attr) : attr[i].name = attr[j].name => i = j
    BY <1>7 DEF Differing
  <2>2. /\ \A i \in 1..Len(Undeclaring(attr)) : ~isNamespace(Undeclaring(attr)[i].name)
        /\ \A i, j \in 1..Len(Undeclaring(attr)) :
             Undeclaring(attr)[i].name = Undeclaring(attr)[j].name => i = j
    BY <1>7, <2>1, KeptAttrs
  <2> QED
    BY <1>16, <2>2 DEF Differing
<1>20. q1.prefixes \in Seq(Records)
  BY <1>9 DEF Printers
<1>21. Once(T)
  BY <1>9, <1>11, <1>12, <1>13, <1>14, <1>18, <1>19, <1>20, TagOnce
<1>22. EncodeToken(q, start).item.attr = T
  BY <1>5, <1>17 DEF StartTag
<1> QED
  BY <1>21, <1>22

-----------------------------------------------------------------------------
(* From the first token to the last.                                       *)

\* The empty map.
LEMMA NoMap == DOMAIN << >> = {} /\ << >> \in PartialMaps
<1>1. DOMAIN << >> = {}
  OBVIOUS
<1>2. << >> \in [{} -> Texts]
  OBVIOUS
<1>3. {} \in SUBSET Texts
  OBVIOUS
<1> QED
  BY <1>1, <1>2, <1>3 DEF PartialMaps

\* A new printer and a new decoder have nothing open.
LEMMA PairedAtFirst == Paired(NewPrinter, NewDecoder)
<1>1. PICK q, r : q = NewPrinter /\ r = NewDecoder
  OBVIOUS
<1>2. q \in Printers
  <2>1. PICK x \in Texts, m \in PartialMaps, recs \in Seq(Records), tags \in Seq(Names) :
             x = "" /\ m = << >> /\ recs = << >> /\ tags = << >>
    <3>1. "" \in Texts
      BY Literals
    <3>2. << >> \in Seq(Records) /\ << >> \in Seq(Names)
      OBVIOUS
    <3> QED
      BY <3>1, <3>2, NoMap
  <2>2. q = [defaultNS |-> x, attrNS |-> m, attrPrefix |-> m, prefixes |-> recs, tags |-> tags,
             seq |-> 0, buffered |-> FALSE]
    BY <1>1, <2>1 DEF NewPrinter
  <2> QED
    BY <2>2 DEF Printers
<1>3. r \in Readers
  <2>1. PICK m \in PartialMaps, stk \in Seq(Entries) : m = << >> /\ stk = << >>
    <3>1. << >> \in Seq(Entries)
      OBVIOUS
    <3> QED
      BY <3>1, NoMap
  <2>2. r = [stk |-> stk, ns |-> m, needClose |-> FALSE, toClose |-> Name("", << >>), err |-> "nil"]
    BY <1>1, <2>1 DEF NewDecoder
  <2> QED
    BY <2>2 DEF Readers
<1>4. /\ q.tags = << >> /\ q.prefixes = << >> /\ r.stk = << >> /\ r.ns = << >>
      /\ ScopeOf(q) = NoScope /\ Len(q.tags) = 0 /\ Len(q.prefixes) = 0 /\ Len(r.stk) = 0
  BY <1>1 DEF NewPrinter, NewDecoder, ScopeOf, NoScope
<1>5. PICK u, w : u = [i \in 0..0 |-> NoScope] /\ w = [i \in 0..0 |-> << >>]
  OBVIOUS
<1>6. PICK at : at = [k \in 1..0 + 1 |-> 0]
  OBVIOUS
<1>7. Heights(at, 0, 0)
  <2>1. \A k \in 1..0 + 1 : k = 1
    OBVIOUS
  <2>2. 1 \in 1..0 + 1 /\ 0 + 1 = 1
    OBVIOUS
  <2>3. \A k \in 1..0 + 1 : at[k] = 0 /\ at[k] \in 0..0
    BY <1>6
  <2> QED
    BY <1>6, <2>1, <2>2, <2>3 DEF Heights
<1>8. NoScope \in Scopes /\ Bijective(NoScope)
  <2>1. NoScope \in Scopes
    BY Literals, NoMap DEF NoScope, Scopes
  <2>2. NoScope.attrNS = << >> /\ NoScope.attrPrefix = << >>
    BY DEF NoScope
  <2> QED
    BY <2>1, <2>2, NoMap DEF Bijective
<1>9. History(u, q)
  BY <1>4, <1>5, <1>8 DEF History
<1>10. Past(w, r)
  BY <1>4, <1>5, NoMap DEF Past
<1>11. MarksOf(q) = {at[k] + 1 : k \in 1..Len(q.tags)}
  BY <1>4 DEF MarksOf
<1>12. StartsOf(r) = {at[k + 1] : k \in 1..Len(q.tags)}
  BY <1>4 DEF StartsOf
<1>13. Heights(at, Len(q.tags), Len(q.prefixes)) /\ Heights(at, Len(q.tags), Len(r.stk))
  BY <1>4, <1>7
<1>14. \A k \in 1..Len(q.tags) : Frame(r, u, w, q.tags[k], at[k + 1], at[k + 1])
  BY <1>4
<1>15. Framed(q, r, u, w, at, at)
  BY <1>2, <1>3, <1>9, <1>10, <1>11, <1>12, <1>13, <1>14 DEF Framed
<1> QED
  BY <1>1, <1>15 DEF Paired

\* The inductive invariant: the printer and the decoder have the same elements
\* open in the same scopes, and the last token was written with no attribute
\* twice and read as it was encoded.
Faithful == Paired(p, d) /\ ReadAs(sent, got) /\ WrittenOnce(sent, item)

\* It holds at first.
LEMMA FaithfulAtFirst == TokenInit => Faithful
<1> SUFFICES ASSUME TokenInit
             PROVE  Faithful
  OBVIOUS
<1>1. Paired(p, d)
  BY PairedAtFirst DEF TokenInit
<1>2. sent.kind = "none" /\ got.kind = "none"
  BY DEF TokenInit, Other
<1> QED
  BY <1>1, <1>2 DEF Faithful, ReadAs, WrittenOnce

\* It says of the next state what it says of this one.
LEMMA NextState ==
  /\ Paired(p, d)' <=> Paired(p', d')
  /\ ReadAs(sent, got)' <=> ReadAs(sent', got')
  /\ WrittenOnce(sent, item)' <=> WrittenOnce(sent', item')
<1>1. Paired(p, d)' <=> Paired(p', d')
  BY DEF Paired, Framed, History, Past, Frame, MarksOf, StartsOf, ScopeOf
<1>2. ReadAs(sent, got)' <=> ReadAs(sent', got')
  BY DEF ReadAs
<1>3. WrittenOnce(sent, item)' <=> WrittenOnce(sent', item')
  BY DEF WrittenOnce, Differing, Once
<1> QED
  BY <1>1, <1>2, <1>3

\* One call of EncodeToken and of Token.
LEMMA EncodeFaithful ==
  ASSUME NEW t, Encode(t),
         Paired(EncodeToken(p, t).p, Token(d, EncodeToken(p, t).item).d),
         ReadAs(t, Token(d, EncodeToken(p, t).item).tok),
         WrittenOnce(t, EncodeToken(p, t).item)
  PROVE  Faithful'
<1>1. /\ p' = EncodeToken(p, t).p /\ d' = Token(d, EncodeToken(p, t).item).d
      /\ sent' = t /\ got' = Token(d, EncodeToken(p, t).item).tok
      /\ item' = EncodeToken(p, t).item
  BY DEF Encode
<1>2. Paired(p', d') /\ ReadAs(sent', got') /\ WrittenOnce(sent', item')
  BY <1>1
<1> QED
  BY <1>2, NextState DEF Faithful

\* The start element of a call, with a default name space or without.
LEMMA CallerEncodes ==
  ASSUME NEW name \in Elements, NEW attr \in AttrLists, NEW start,
         start = StartElement(name, attr) \/ start = setDefaultNamespace(StartElement(name, attr))
  PROVE  start.kind = "Start" /\ Startable(start.name, start.attr)
<1>1. PICK more : more = Append(attr, Attr(Name("", << "xmlns" >>), name.space))
  OBVIOUS
<1>2. PICK s : s = StartElement(name, attr)
  OBVIOUS
<1>3. s.kind = "Start" /\ s.name = name /\ s.attr = attr
  BY <1>2 DEF StartElement
<1>4. Startable(name, attr) /\ Startable(name, more)
  BY <1>1, CallerStarts
<1>5. start = s \/ start = [s EXCEPT !.attr = more]
  <2>1. setDefaultNamespace(s) = s \/ setDefaultNamespace(s) = [s EXCEPT !.attr = more]
    BY <1>1, <1>3 DEF setDefaultNamespace
  <2> QED
    BY <1>2, <2>1
<1>6. [s EXCEPT !.attr = more].kind = "Start" /\ [s EXCEPT !.attr = more].name = name
      /\ [s EXCEPT !.attr = more].attr = more
  BY <1>2 DEF StartElement
<1> QED
  BY <1>3, <1>4, <1>5, <1>6

\* Every call leads from one pair of stacks to another.
LEMMA FaithfulNext == Faithful /\ [TokenNext]_tokenVars => Faithful'
<1> SUFFICES ASSUME Faithful, [TokenNext]_tokenVars
             PROVE  Faithful'
  OBVIOUS
<1>1. Paired(p, d)
  BY DEF Faithful
<1>2. CASE EncodeStart
  <2>1. PICK name \in Elements, attr \in AttrLists, dflt \in BOOLEAN :
             Encode(IF dflt THEN setDefaultNamespace(StartElement(name, attr))
                    ELSE StartElement(name, attr))
    BY <1>2 DEF EncodeStart
  <2>2. PICK start : /\ start = StartElement(name, attr) \/ start = setDefaultNamespace(StartElement(name, attr))
                     /\ Encode(start)
    BY <2>1
  <2>3. start.kind = "Start" /\ Startable(start.name, start.attr)
    BY <2>2, CallerEncodes
  <2>4. ~EncodeToken(p, start).err /\ p' = EncodeToken(p, start).p
    BY <2>2 DEF Encode
  <2>5. EncodeToken(p, start).p.seq <= MaxSeq
    BY <1>2, <2>4 DEF EncodeStart
  <2>6. /\ Paired(EncodeToken(p, start).p, Token(d, EncodeToken(p, start).item).d)
        /\ ReadAs(start, Token(d, EncodeToken(p, start).item).tok)
    BY <1>1, <2>3, <2>4, <2>5, StartStep
  <2>7. WrittenOnce(start, EncodeToken(p, start).item)
    <3>1. Differing(start.attr) => Once(EncodeToken(p, start).item.attr)
      BY <1>1, <2>3, <2>4, <2>5, StartOnce
    <3> QED
      BY <3>1 DEF WrittenOnce
  <2> QED
    BY <2>2, <2>6, <2>7, EncodeFaithful
<1>3. CASE EncodeEnd
  <2>1. PICK name \in Elements : Encode(EndElement(name))
    BY <1>3 DEF EncodeEnd
  <2>2. ~EncodeToken(p, EndElement(name)).err
    BY <2>1 DEF Encode
  <2>3. /\ Paired(EncodeToken(p, EndElement(name)).p,
                  Token(d, EncodeToken(p, EndElement(name)).item).d)
        /\ ReadAs(EndElement(name), Token(d, EncodeToken(p, EndElement(name)).item).tok)
    BY <1>1, <2>2, EndStep
  <2>4. WrittenOnce(EndElement(name), EncodeToken(p, EndElement(name)).item)
    BY DEF WrittenOnce, EndElement
  <2> QED
    BY <2>1, <2>3, <2>4, EncodeFaithful
<1>4. CASE EncodeRest
  <2>1. PICK t \in Others : Encode(t)
    BY <1>4 DEF EncodeRest
  <2>2. ~EncodeToken(p, t).err
    BY <2>1 DEF Encode
  <2>3. t.kind \in {"CharData", "Comment", "Directive", "ProcInst"}
    BY TokensAssumption
  <2>4. /\ Paired(EncodeToken(p, t).p, Token(d, EncodeToken(p, t).item).d)
        /\ ReadAs(t, Token(d, EncodeToken(p, t).item).tok)
    BY <1>1, <2>2, <2>3, RestStep
  <2>5. WrittenOnce(t, EncodeToken(p, t).item)
    BY <2>3 DEF WrittenOnce
  <2> QED
    BY <2>1, <2>4, <2>5, EncodeFaithful
<1>5. CASE UNCHANGED tokenVars
  <2>1. p' = p /\ d' = d /\ sent' = sent /\ item' = item /\ got' = got
    BY <1>5 DEF tokenVars
  <2>2. Paired(p', d') /\ ReadAs(sent', got') /\ WrittenOnce(sent', item')
    BY <2>1 DEF Faithful
  <2> QED
    BY <2>2, NextState DEF Faithful
<1> QED
  BY <1>2, <1>3, <1>4, <1>5 DEF TokenNext

\* The decoder's map, without the default name space, is the printer's.
LEMMA SameMaps ==
  ASSUME NEW s \in Scopes, Bijective(s), NEW ns \in PartialMaps, Same(s, ns)
  PROVE  /\ Without(ns, "") = s.attrNS
         /\ (IF "" \in DOMAIN ns THEN ns[""] ELSE "") = s.defaultNS
<1>1. s.attrNS \in PartialMaps /\ s.attrPrefix \in PartialMaps
  BY DEF Scopes
<1>2. Without(ns, "") \in PartialMaps
  BY WithoutType
<1>3. /\ \A z : z \in DOMAIN Without(ns, "") <=> z \in DOMAIN ns /\ z # ""
      /\ \A z \in DOMAIN ns : z # "" => Without(ns, "")[z] = ns[z]
  BY WithoutEntry
<1>4. DOMAIN ns \subseteq Texts /\ DOMAIN s.attrNS \subseteq Texts
  BY <1>1, Values
<1>5. ASSUME NEW x \in Texts, x # ""
      PROVE  /\ x \in DOMAIN ns <=> x \in DOMAIN s.attrNS
             /\ x \in DOMAIN ns => ns[x] = s.attrNS[x]
  <2>1. nsForPrefix(s, x) = Means(ns, x)
    BY DEF Same
  <2>2. nsForPrefix(s, x) = IF x \in DOMAIN s.attrNS THEN s.attrNS[x] ELSE ""
    BY <1>5 DEF nsForPrefix
  <2>3. x \in DOMAIN s.attrNS => s.attrNS[x] # ""
    BY DEF Bijective
  <2>4. x \in DOMAIN ns => ns[x] # ""
    BY <1>5 DEF Same, Meant
  <2> QED
    BY <2>1, <2>2, <2>3, <2>4 DEF Means
<1>6. "" \notin DOMAIN s.attrNS
  BY DEF Bijective, Reserved
<1>7. DOMAIN Without(ns, "") = DOMAIN s.attrNS
  BY <1>3, <1>4, <1>5, <1>6
<1>8. \A z \in DOMAIN Without(ns, "") : Without(ns, "")[z] = s.attrNS[z]
  BY <1>3, <1>4, <1>5
<1>9. Without(ns, "") = s.attrNS
  BY <1>1, <1>2, <1>7, <1>8, SameMap
<1>10. Means(ns, "") = s.defaultNS
  <2>1. PICK x \in Texts : x = ""
    BY Literals
  <2>2. nsForPrefix(s, x) = Means(ns, x)
    BY DEF Same
  <2>3. nsForPrefix(s, x) = s.defaultNS
    BY <2>1 DEF nsForPrefix
  <2> QED
    BY <2>1, <2>2, <2>3
<1> QED
  BY <1>9, <1>10 DEF Means

\* Paired stacks agree on their scope.
LEMMA FaithfulScopes == Faithful => ScopesAgree /\ PrefixesBijective
<1> SUFFICES ASSUME Faithful
             PROVE  ScopesAgree /\ PrefixesBijective
  OBVIOUS
<1>1. /\ p \in Printers /\ d \in Readers /\ Bijective(ScopeOf(p)) /\ Same(ScopeOf(p), d.ns)
      /\ p.tags = << >> => ScopeOf(p) = NoScope /\ d.stk = << >>
  BY PairedSame DEF Faithful
<1>2. ScopeOf(p).attrNS = p.attrNS /\ ScopeOf(p).defaultNS = p.defaultNS
      /\ ScopeOf(p).attrPrefix = p.attrPrefix
  BY DEF ScopeOf
<1>3. ScopeOf(p) \in Scopes /\ d.ns \in PartialMaps
  BY <1>1, Sizes
<1>4. /\ Without(d.ns, "") = ScopeOf(p).attrNS
      /\ (IF "" \in DOMAIN d.ns THEN d.ns[""] ELSE "") = ScopeOf(p).defaultNS
  BY <1>1, <1>3, SameMaps
<1>5. NoScope.attrNS = << >> /\ NoScope.defaultNS = ""
  BY DEF NoScope
<1>6. ScopesAgree
  BY <1>1, <1>2, <1>4, <1>5 DEF ScopesAgree
<1>7. PrefixesBijective
  BY <1>1, <1>2 DEF Bijective, PrefixesBijective
<1> QED
  BY <1>6, <1>7

\* The elements on the decoder's stack up to the k-th are k.
LEMMA OpenBelow ==
  ASSUME NEW q, NEW r, NEW u, NEW w, NEW at, NEW dp, Framed(q, r, u, w, at, dp),
         NEW k \in 1..Len(q.tags)
  PROVE  Cardinality({j \in 1..dp[k + 1] : r.stk[j].kind = "Start"}) = k
<1>1. q \in Printers /\ r \in Readers
  BY DEF Framed
<1>2. PICK T \in Nat, S \in Nat : T = Len(q.tags) /\ S = Len(r.stk)
  BY <1>1, Sizes
<1>3. Heights(dp, T, S) /\ StartsOf(r) = {dp[j + 1] : j \in 1..T}
  BY <1>2 DEF Framed
<1>4. k \in 0..T /\ k \in 1..T
  BY <1>2
<1>5. Cardinality(Tops(dp, k)) = k
  BY <1>3, <1>4, HeightsCount
<1>6. PICK e \in 0..S : e = dp[k + 1]
  BY <1>3, <1>4 DEF Heights
<1>7. {j \in 1..e : r.stk[j].kind = "Start"} = {j \in StartsOf(r) : j <= e}
  BY <1>2 DEF StartsOf
<1>8. ASSUME NEW j \in 1..T
      PROVE  dp[j + 1] <= e <=> j \in 1..k
  <2>1. /\ j + 1 \in 1..T + 1 /\ k + 1 \in 1..T + 1
        /\ j + 1 < k + 1 \/ j = k \/ k + 1 < j + 1
    BY <1>4
  <2>2. /\ j + 1 < k + 1 => dp[j + 1] < dp[k + 1]
        /\ k + 1 < j + 1 => dp[k + 1] < dp[j + 1]
        /\ dp[j + 1] \in 0..S
    BY <1>3, <2>1 DEF Heights
  <2> QED
    BY <1>4, <1>6, <2>1, <2>2
<1>9. {j \in StartsOf(r) : j <= e} = Tops(dp, k)
  <2>1. \A j \in 1..k : j \in 1..T
    BY <1>4
  <2> QED
    BY <1>3, <1>8, <2>1 DEF Tops
<1> QED
  BY <1>5, <1>6, <1>7, <1>9

\* Paired stacks are what TypeOK says of them.
LEMMA FaithfulTypes == Faithful => TypeOK
<1> SUFFICES ASSUME Faithful
             PROVE  TypeOK
  OBVIOUS
<1>1. PICK u, w, at, dp : Framed(p, d, u, w, at, dp)
  BY DEF Faithful, Paired
<1>2. p \in Printers /\ d \in Readers /\ Bijective(ScopeOf(p))
  BY PairedSame DEF Faithful
<1>3. PICK T \in Nat, L \in Nat, S \in Nat : T = Len(p.tags) /\ L = Len(p.prefixes) /\ S = Len(d.stk)
  BY <1>2, Sizes
<1>4. /\ Heights(at, T, L) /\ Heights(dp, T, S)
      /\ MarksOf(p) = {at[k] + 1 : k \in 1..T} /\ StartsOf(d) = {dp[k + 1] : k \in 1..T}
      /\ \A k \in 1..T : Frame(d, u, w, p.tags[k], at[k + 1], dp[k + 1])
  BY <1>1, <1>3 DEF Framed
<1>5. T \in 0..T
  OBVIOUS
<1>6. DOMAIN p.prefixes = 1..L /\ Marks = MarksOf(p)
  <2>1. p.prefixes \in Seq(Records)
    BY <1>2, Sizes
  <2>2. DOMAIN p.prefixes = 1..L
    BY <1>3, <2>1
  <2> QED
    BY <1>3, <2>2 DEF Marks, MarksOf
<1>7. Cardinality(Marks) = Len(p.tags)
  <2>1. Cardinality(Bottoms(at, T)) = T
    BY <1>4, <1>5, HeightsCount
  <2> QED
    BY <1>3, <1>4, <1>6, <2>1 DEF Bottoms
<1>8. OpenUpTo(Len(d.stk)) = StartsOf(d)
  BY DEF OpenUpTo, StartsOf
<1>9. Cardinality(OpenUpTo(Len(d.stk))) = Len(p.tags)
  <2>1. Cardinality(Tops(dp, T)) = T
    BY <1>4, <1>5, HeightsCount
  <2> QED
    BY <1>3, <1>4, <1>8, <2>1 DEF Tops
<1>10. ASSUME NEW i \in OpenUpTo(Len(d.stk))
       PROVE  d.stk[i] = StkStart(p.tags[Cardinality(OpenUpTo(i))])
  <2>1. PICK k \in 1..T : i = dp[k + 1]
    BY <1>4, <1>8
  <2>2. k \in 1..Len(p.tags)
    BY <1>3
  <2>3. Cardinality({j \in 1..dp[k + 1] : d.stk[j].kind = "Start"}) = k
    BY <1>1, <2>2, OpenBelow
  <2>4. Cardinality(OpenUpTo(i)) = k
    BY <2>1, <2>3 DEF OpenUpTo
  <2>5. d.stk[dp[k + 1]] = StkStart(p.tags[k])
    BY <1>4 DEF Frame
  <2> QED
    BY <2>1, <2>4, <2>5
<1>11. \A i \in DOMAIN p.prefixes : p.prefixes[i] \in [prefix : STRING, url : STRING, mark : BOOLEAN]
  <2>1. p.prefixes \in Seq(Records)
    BY <1>2, Sizes
  <2>2. Records = [prefix : STRING, url : STRING, mark : BOOLEAN]
    BY DEF Records, Texts
  <2>3. \A i \in DOMAIN p.prefixes : p.prefixes[i] \in Records
    BY <2>1
  <2> QED
    BY <2>2, <2>3
<1>12. "" \notin DOMAIN p.attrNS \cup DOMAIN p.attrPrefix
  <2>1. ScopeOf(p).attrNS = p.attrNS /\ ScopeOf(p).attrPrefix = p.attrPrefix
    BY DEF ScopeOf
  <2> QED
    BY <1>2, <2>1 DEF Bijective, Reserved
<1>13. d.err = "nil"
  BY <1>2 DEF Readers
<1> QED
  BY <1>7, <1>9, <1>10, <1>11, <1>12, <1>13 DEF TypeOK

\* What was read of the last token, and written for it.
LEMMA FaithfulReads == Faithful => ReadsBack
BY DEF Faithful, ReadAs, WrittenOnce, Differing, Once, ReadsBack

-----------------------------------------------------------------------------
(* The promises of XmlRoundTrip.                                           *)

\* The printer and the decoder have the same elements open in the same scopes,
\* whatever is encoded.
THEOREM AlwaysFaithful == TokenSpec => []Faithful
<1>1. TokenInit => Faithful
  BY FaithfulAtFirst
<1>2. Faithful /\ [TokenNext]_tokenVars => Faithful'
  BY FaithfulNext
<1> QED
  BY <1>1, <1>2, PTL DEF TokenSpec

\* The printer has a mark for each open element, and the decoder has the same
\* elements open in the same order (marshal.go's tags, xml.go's stk).
THEOREM TypeCorrect == TokenSpec => []TypeOK
BY AlwaysFaithful, FaithfulTypes, PTL

\* What EncodeToken writes of a token, Token reads as that token, and no
\* attribute is written twice.
THEOREM TokensReadBack == TokenSpec => []ReadsBack
BY AlwaysFaithful, FaithfulReads, PTL

\* The maps attrNS and attrPrefix of the printer are inverse, after any
\* defining, redefining and taking back.
THEOREM PrefixesInverse == TokenSpec => []PrefixesBijective
BY AlwaysFaithful, FaithfulScopes, PTL

\* The reader is in the scope the printer thinks it is in, and in none when no
\* element is open.
THEOREM ScopesAlike == TokenSpec => []ScopesAgree
BY AlwaysFaithful, FaithfulScopes, PTL
=============================================================================
