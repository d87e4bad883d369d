---------------------------- MODULE MemLSProofs ----------------------------
(***************************************************************************)
(* Proofs about MemLS: the lock table's invariants hold for every tree of  *)
(* names, every set of callers and every set of lock durations.            *)
(***************************************************************************)
EXTENDS MemLS, FiniteSetTheorems, SequenceTheorems, TLAPS

\* What every stage of a method keeps, as a predicate of the struct.
Good(s) ==
  /\ IsStruct(s)
  /\ RefsExact(s)
  /\ Indexed(s)
  /\ QueueExact(s)
  /\ ConflictFree(s)
  /\ Held(s) \subseteq Locked(s)

\* The inductive invariant: the struct is good and the outstanding release
\* functions are the ones that hold its locks.
IInv == TypeOK /\ Good(m) /\ ClaimsAreHeld

-----------------------------------------------------------------------------
(* Names.                                                                  *)

\* The names walkToRoot visits are a name's own.
LEMMA WalkFacts ==
  ASSUME NEW n \in Name
  PROVE  n \in WalkToRoot(n) /\ WalkToRoot(n) \subseteq Name
<1>1. n \in Seq(Component)
  BY NameAssumption
<1>2. Len(n) \in 0 .. Len(n) /\ SubSeq(n, 1, Len(n)) = n
  BY <1>1, SubSeqFull
<1>3. n \in WalkToRoot(n)
  BY <1>2, Zenon DEF WalkToRoot
<1> QED
  BY <1>3, NameAssumption

\* Of two names on the way from n to the root, one is on the other's way.
LEMMA WalkIsChain ==
  ASSUME NEW n \in Name, NEW a \in WalkToRoot(n), NEW b \in WalkToRoot(n)
  PROVE  a \in WalkToRoot(b) \/ b \in WalkToRoot(a)
<1>1. n \in Seq(Component)
  BY NameAssumption
<1>2. ASSUME NEW i \in 0 .. Len(n), NEW j \in 0 .. Len(n), i <= j
      PROVE  SubSeq(n, 1, i) \in WalkToRoot(SubSeq(n, 1, j))
  <2> DEFINE p == SubSeq(n, 1, j)
  <2>1. /\ p \in Seq(Component) /\ Len(p) = j
        /\ \A k \in 1 .. j : p[k] = n[k]
    BY <1>1
  <2>2. SubSeq(p, 1, i) = SubSeq(n, 1, i)
    BY <1>1, <1>2, <2>1
  <2> QED
    BY <1>2, <2>1, <2>2 DEF WalkToRoot
<1>3. PICK i \in 0 .. Len(n) : a = SubSeq(n, 1, i)
  BY DEF WalkToRoot
<1>4. PICK j \in 0 .. Len(n) : b = SubSeq(n, 1, j)
  BY DEF WalkToRoot
<1>5. i <= j \/ j <= i
  BY <1>1
<1> QED
  BY <1>2, <1>3, <1>4, <1>5

-----------------------------------------------------------------------------
(* remove.                                                                 *)

\* The locks of s below x that remove leaves when it is given N.
Left(s, N, x) == { l \in Locked(s) \ N : x \in WalkToRoot(l) }

\* The locks left below a name are those not removed.
LEMMA RemoveCounts ==
  ASSUME NEW s, Good(s), NEW N \in SUBSET Locked(s), NEW x \in DOMAIN s.byName
  PROVE  /\ IsFiniteSet(Left(s, N, x))
         /\ Cardinality(Left(s, N, x)) \in Nat
         /\ s.byName[x].refCount - Cardinality({ n \in N : x \in WalkToRoot(n) })
              = Cardinality(Left(s, N, x))
<1> DEFINE all  == LockedBelow(s, x)
           gone == { n \in N : x \in WalkToRoot(n) }
           left == Left(s, N, x)
<1>1. Locked(s) \subseteq Name
  BY DEF Good, IsStruct, Locked
<1>2. all \in SUBSET Name /\ left \in SUBSET all /\ gone \in SUBSET all
  BY <1>1 DEF LockedBelow, Left
<1>3. IsFiniteSet(all)
  BY <1>2, MemLSAssumption, FS_Subset
<1>4. IsFiniteSet(left) /\ IsFiniteSet(gone)
  BY <1>2, <1>3, FS_Subset
<1>5. left = all \ gone
  BY DEF LockedBelow, Left
<1>6. all \cap gone = gone
  BY <1>2
<1>7. Cardinality(left) = Cardinality(all) - Cardinality(gone)
  <2> HIDE DEF all, gone, left
  <2>1. Cardinality(all \ gone) = Cardinality(all) - Cardinality(all \cap gone)
    BY <1>3, FS_Difference
  <2> QED
    BY <2>1, <1>5, <1>6
<1>8. Cardinality(left) \in Nat
  BY <1>4, FS_CardinalityType
<1>9. s.byName[x].refCount = Cardinality(all)
  BY DEF Good, RefsExact
<1> QED
  BY <1>4, <1>7, <1>8, <1>9

\* What remove leaves of a good struct: the nodes with a lock left below.
LEMMA RemoveFields ==
  ASSUME NEW s, Good(s), NEW N \in SUBSET Locked(s), NEW r, r = Remove(s, N)
  PROVE  /\ IsStruct(r)
         /\ r.gen = s.gen
         /\ r.byExpiry = s.byExpiry \ N
         /\ DOMAIN r.byToken = { u \in DOMAIN s.byToken : s.byToken[u] \notin N }
         /\ \A t \in DOMAIN r.byToken : r.byToken[t] = s.byToken[t]
         /\ DOMAIN r.byName = { x \in DOMAIN s.byName : Left(s, N, x) # {} }
         /\ \A x \in DOMAIN r.byName :
              /\ r.byName[x].refCount  = Cardinality(Left(s, N, x))
              /\ r.byName[x].token     = IF x \in N THEN NoToken ELSE s.byName[x].token
              /\ r.byName[x].zeroDepth = s.byName[x].zeroDepth
              /\ r.byName[x].duration  = s.byName[x].duration
              /\ r.byName[x].expiry    = s.byName[x].expiry
              /\ r.byName[x].held      = s.byName[x].held
<1> DEFINE refs(x) == s.byName[x].refCount
                        - Cardinality({ n \in N : x \in WalkToRoot(n) })
           live == { x \in DOMAIN s.byName : refs(x) # 0 }
           nodes == [x \in live |->
                      [s.byName[x] EXCEPT !.refCount = refs(x),
                         !.token = IF x \in N THEN NoToken ELSE @]]
           tokens == { u \in DOMAIN s.byToken : s.byToken[u] \notin N }
           index == [t \in tokens |-> s.byToken[t]]
<1>1. \A x \in DOMAIN s.byName : /\ IsFiniteSet(Left(s, N, x))
                                 /\ refs(x) = Cardinality(Left(s, N, x))
                                 /\ Cardinality(Left(s, N, x)) \in Nat
  <2> TAKE x \in DOMAIN s.byName
  <2> QED
    BY RemoveCounts
<1>2. IsStruct(s)
  BY DEF Good
<1>3. r = [s EXCEPT !.byName = nodes, !.byToken = index, !.byExpiry = @ \ N]
  BY DEF Remove
<1>4. \A x \in DOMAIN s.byName : refs(x) = 0 <=> Left(s, N, x) = {}
  <2>1. \A S : IsFiniteSet(S) => (Cardinality(S) = 0 <=> S = {})
    BY FS_EmptySet
  <2> QED
    BY <1>1, <2>1
<1>5. live = { x \in DOMAIN s.byName : Left(s, N, x) # {} }
  BY <1>4
<1>6. \A x \in live :
        /\ nodes[x] \in Node
        /\ nodes[x].refCount  = Cardinality(Left(s, N, x))
        /\ nodes[x].token     = IF x \in N THEN NoToken ELSE s.byName[x].token
        /\ nodes[x].zeroDepth = s.byName[x].zeroDepth
        /\ nodes[x].duration  = s.byName[x].duration
        /\ nodes[x].expiry    = s.byName[x].expiry
        /\ nodes[x].held      = s.byName[x].held
  <2> TAKE x \in live
  <2>1. s.byName[x] \in Node
    BY <1>2 DEF IsStruct
  <2>2. refs(x) = Cardinality(Left(s, N, x)) /\ refs(x) \in Nat
    BY <1>1
  <2> QED
    BY <2>1, <2>2 DEF Node
<1>7. DOMAIN nodes = live /\ nodes \in [live -> Node]
  BY <1>6
<1>8. index \in [tokens -> Name]
  BY <1>2 DEF IsStruct
<1> HIDE DEF nodes, index, live, tokens, refs
<1>9. /\ r = [gen |-> s.gen, byName |-> nodes, byToken |-> index,
              byExpiry |-> s.byExpiry \ N]
  BY <1>2, <1>3 DEF IsStruct
<1>10. /\ r.gen = s.gen /\ r.byName = nodes /\ r.byToken = index
       /\ r.byExpiry = s.byExpiry \ N
  BY <1>9
<1>11. live \subseteq Name /\ tokens \subseteq Token
  BY <1>2 DEF IsStruct, live, tokens
<1>12. IsStruct(r)
  BY <1>2, <1>7, <1>8, <1>9, <1>10, <1>11 DEF IsStruct
<1>13. DOMAIN r.byToken = tokens /\ \A t \in tokens : r.byToken[t] = s.byToken[t]
  BY <1>10 DEF index
<1> QED
  BY <1>5, <1>6, <1>7, <1>10, <1>12, <1>13 DEF tokens

\* The lock of node n is the same in s and in r.
SameLock(s, r, n) ==
  /\ n \in DOMAIN s.byName /\ n \in DOMAIN r.byName
  /\ r.byName[n].token     = s.byName[n].token
  /\ r.byName[n].zeroDepth = s.byName[n].zeroDepth
  /\ r.byName[n].duration  = s.byName[n].duration
  /\ r.byName[n].expiry    = s.byName[n].expiry
  /\ r.byName[n].held    <=> s.byName[n].held

\* Removing locks that are not held leaves a good struct with the others.
LEMMA RemoveGood ==
  ASSUME NEW s, Good(s), NEW N \in SUBSET (Locked(s) \ Held(s)),
         NEW r, r = Remove(s, N)
  PROVE  /\ Good(r)
         /\ Locked(r) = Locked(s) \ N
         /\ Held(r) = Held(s)
         /\ r.gen = s.gen
         /\ \A n \in Locked(r) : SameLock(s, r, n)
<1>0. N \in SUBSET Locked(s) /\ N \cap Held(s) = {}
  OBVIOUS
<1>1. /\ IsStruct(r)
      /\ r.gen = s.gen
      /\ r.byExpiry = s.byExpiry \ N
      /\ DOMAIN r.byToken = { u \in DOMAIN s.byToken : s.byToken[u] \notin N }
      /\ \A t \in DOMAIN r.byToken : r.byToken[t] = s.byToken[t]
      /\ DOMAIN r.byName = { x \in DOMAIN s.byName : Left(s, N, x) # {} }
  BY <1>0, RemoveFields
<1>2. IsStruct(s) /\ RefsExact(s) /\ Indexed(s) /\ QueueExact(s) /\ ConflictFree(s)
      /\ Held(s) \subseteq Locked(s)
  BY DEF Good
<1>3. \A x \in DOMAIN r.byName :
        /\ x \in DOMAIN s.byName
        /\ r.byName[x].refCount  = Cardinality(Left(s, N, x))
        /\ r.byName[x].token     = IF x \in N THEN NoToken ELSE s.byName[x].token
        /\ r.byName[x].zeroDepth = s.byName[x].zeroDepth
        /\ r.byName[x].duration  = s.byName[x].duration
        /\ r.byName[x].expiry    = s.byName[x].expiry
        /\ r.byName[x].held      = s.byName[x].held
  BY <1>0, <1>1, RemoveFields
<1>4. \A l \in Locked(s) \ N : l \in Name /\ l \in DOMAIN r.byName
                              /\ WalkToRoot(l) \subseteq DOMAIN r.byName
  <2> TAKE l \in Locked(s) \ N
  <2>1. l \in Name /\ l \in DOMAIN s.byName /\ WalkToRoot(l) \subseteq DOMAIN s.byName
    BY <1>2 DEF IsStruct, RefsExact, Locked
  <2>2. \A x \in WalkToRoot(l) : l \in Left(s, N, x)
    BY DEF Left
  <2>3. WalkToRoot(l) \subseteq DOMAIN r.byName
    BY <1>1, <2>1, <2>2
  <2> QED
    BY <2>1, <2>3, WalkFacts
<1>5. Locked(r) = Locked(s) \ N
  BY <1>3, <1>4 DEF Locked
<1>6. \A n \in Locked(r) : SameLock(s, r, n)
  BY <1>3, <1>5 DEF SameLock, Locked
<1>7. Held(r) = Held(s)
  BY <1>0, <1>2, <1>3, <1>4 DEF Held
<1>8. RefsExact(r)
  <2>1. \A x : LockedBelow(r, x) = Left(s, N, x)
    BY <1>5 DEF LockedBelow, Left
  <2>2. \A x \in DOMAIN r.byName : r.byName[x].refCount # 0
    <3> TAKE x \in DOMAIN r.byName
    <3>1. Left(s, N, x) # {} /\ IsFiniteSet(Left(s, N, x)) /\ x \in DOMAIN s.byName
      BY <1>1, RemoveCounts
    <3>2. Cardinality(Left(s, N, x)) # 0
      BY <3>1, FS_EmptySet
    <3> QED
      BY <1>3, <3>2
  <2> QED
    BY <1>3, <1>4, <1>5, <2>1, <2>2 DEF RefsExact
<1>9. Indexed(r)
  <2>1. \A t \in DOMAIN r.byToken :
          r.byToken[t] \in Locked(r) /\ r.byName[r.byToken[t]].token = t
    BY <1>1, <1>2, <1>5, <1>6 DEF Indexed, SameLock, Locked
  <2>2. \A n \in Locked(r) :
        /\ r.byName[n].token \in DOMAIN r.byToken
        /\ r.byName[n].token <= r.gen
        /\ r.byToken[r.byName[n].token] = n
    BY <1>1, <1>2, <1>5, <1>6 DEF Indexed, SameLock
  <2> QED
    BY <2>1, <2>2 DEF Indexed
<1>10. QueueExact(r)
  BY <1>1, <1>2, <1>5, <1>6 DEF QueueExact, SameLock
<1>11. ConflictFree(r)
  BY <1>2, <1>5, <1>6 DEF ConflictFree, SameLock, Covers
<1> QED
  BY <1>1, <1>2, <1>5, <1>6, <1>7, <1>8, <1>9, <1>10, <1>11 DEF Good

\* collectExpiredNodes removes only locks that nobody holds.
LEMMA CollectGood ==
  ASSUME NEW s, Good(s), NEW now, NEW r, r = CollectExpiredNodes(s, now)
  PROVE  /\ Good(r)
         /\ Locked(r) \subseteq Locked(s)
         /\ Held(r) = Held(s)
         /\ r.gen = s.gen
         /\ \A n \in Locked(r) : SameLock(s, r, n)
<1>1. Expired(s, now) \in SUBSET (Locked(s) \ Held(s))
  BY DEF Expired, Good, QueueExact, Held
<1> QED
  BY <1>1, RemoveGood DEF CollectExpiredNodes

-----------------------------------------------------------------------------
(* create.                                                                 *)

\* What create leaves of s when name's lock is put in it: the name carries a
\* fresh token, and it and its ancestors one reference more.
Inserted(s, r, name, z, d, now) ==
  /\ IsStruct(r)
  /\ r.gen = s.gen + 1
  /\ DOMAIN r.byToken = DOMAIN s.byToken \cup {r.gen}
  /\ \A t \in DOMAIN r.byToken :
       r.byToken[t] = IF t = r.gen THEN name ELSE s.byToken[t]
  /\ r.byExpiry = IF d >= 0 THEN s.byExpiry \cup {name} ELSE s.byExpiry
  /\ DOMAIN r.byName = DOMAIN s.byName \cup WalkToRoot(name)
  /\ r.byName[name].token = r.gen
  /\ r.byName[name].zeroDepth = z
  /\ r.byName[name].duration = d
  /\ d >= 0 => r.byName[name].expiry = now + d
  /\ ~r.byName[name].held
  /\ \A x \in DOMAIN s.byName : x # name => SameLock(s, r, x)
  /\ \A x \in DOMAIN r.byName \ DOMAIN s.byName :
       x # name => r.byName[x].token = NoToken /\ ~r.byName[x].held
  /\ \A x \in DOMAIN r.byName :
       r.byName[x].refCount =
         (IF x \in DOMAIN s.byName THEN s.byName[x].refCount ELSE 0)
           + (IF x \in WalkToRoot(name) THEN 1 ELSE 0)

\* What Insert changes, field by field.
LEMMA InsertFields ==
  ASSUME NEW s, Good(s), NEW name \in Name, NEW z \in BOOLEAN,
         NEW d \in Duration, NEW now \in Int,
         s.gen < MaxGen, name \notin Locked(s),
         NEW r, r = Insert(s, name, z, d, now)
  PROVE  Inserted(s, r, name, z, d, now)
<1> DEFINE up     == WalkToRoot(name)
           old(x) == IF x \in DOMAIN s.byName THEN s.byName[x] ELSE FreshNode
           locked == [old(name) EXCEPT
                   !.refCount  = @ + 1,
                   !.token     = s.gen + 1,
                   !.zeroDepth = z,
                   !.duration  = d,
                   !.expiry    = IF d >= 0 THEN now + d ELSE @]
           node(x) == IF x = name THEN locked
                      ELSE IF x \in up THEN [old(x) EXCEPT !.refCount = @ + 1]
                      ELSE s.byName[x]
           nodes == [x \in DOMAIN s.byName \cup up |-> node(x)]
           index == [t \in DOMAIN s.byToken \cup {s.gen + 1} |->
                       IF t = s.gen + 1 THEN name ELSE s.byToken[t]]
           queue == IF d >= 0 THEN s.byExpiry \cup {name} ELSE s.byExpiry
<1>1. IsStruct(s) /\ Held(s) \subseteq Locked(s)
  BY DEF Good
<1>2. s.gen + 1 \in Token /\ d \in Int
  BY <1>1, MemLSAssumption DEF IsStruct, Token
<1>3. name \in up /\ up \subseteq Name
  BY WalkFacts
<1>4. r = [gen |-> s.gen + 1, byName |-> nodes, byToken |-> index, byExpiry |-> queue]
  BY DEF Insert, NextToken
<1>5. \A x \in DOMAIN s.byName \cup up :
        /\ old(x) \in Node
        /\ x \notin DOMAIN s.byName => old(x).token = NoToken /\ ~old(x).held
        /\ old(x).refCount = IF x \in DOMAIN s.byName THEN s.byName[x].refCount ELSE 0
  BY <1>1 DEF IsStruct, FreshNode, Node, NoToken
<1>6. /\ old(name).held = FALSE /\ old(name) \in Node
      /\ old(name).refCount = IF name \in DOMAIN s.byName
                                 THEN s.byName[name].refCount ELSE 0
  <2>1. name \in DOMAIN s.byName => ~s.byName[name].held
    BY <1>1 DEF Held
  <2>2. old(name) \in Node
    BY <1>3, <1>5
  <2> QED
    BY <1>3, <1>5, <2>1, <2>2 DEF Node
<1>7. /\ locked \in Node
      /\ locked.refCount = old(name).refCount + 1
      /\ locked.token = s.gen + 1
      /\ locked.zeroDepth = z
      /\ locked.duration = d
      /\ d >= 0 => locked.expiry = now + d
      /\ locked.held = old(name).held
  <2> HIDE DEF old
  <2> DEFINE n == old(name)
             expiry == IF d >= 0 THEN now + d ELSE n.expiry
  <2>1. expiry \in Int
    BY <1>2, <1>6 DEF Node
  <2>2. n = [token |-> n.token, refCount |-> n.refCount, zeroDepth |-> n.zeroDepth,
             duration |-> n.duration, expiry |-> n.expiry, held |-> n.held]
    BY <1>6 DEF Node
  <2>3. n.refCount \in Nat /\ n.held \in BOOLEAN
    BY <1>6 DEF Node
  <2>4. locked = [n EXCEPT !.refCount = n.refCount + 1, !.token = s.gen + 1,
                           !.zeroDepth = z, !.duration = d, !.expiry = expiry]
    OBVIOUS
  <2> HIDE DEF n, expiry, locked
  <2>5. locked = [token |-> s.gen + 1, refCount |-> n.refCount + 1,
                  zeroDepth |-> z, duration |-> d, expiry |-> expiry,
                  held |-> n.held]
    BY <2>2, <2>4
  <2>6. locked \in Node
    BY <1>2, <2>1, <2>3, <2>5 DEF Node
  <2> QED
    BY <2>5, <2>6 DEF n, expiry
<1>8. \A x \in DOMAIN s.byName \cup up : x # name =>
        /\ node(x) \in Node
        /\ node(x).token     = old(x).token
        /\ node(x).zeroDepth = old(x).zeroDepth
        /\ node(x).duration  = old(x).duration
        /\ node(x).expiry    = old(x).expiry
        /\ node(x).held      = old(x).held
        /\ node(x).refCount  = old(x).refCount + (IF x \in up THEN 1 ELSE 0)
  <2> SUFFICES ASSUME NEW x \in DOMAIN s.byName \cup up, x # name
      PROVE  /\ node(x) \in Node
             /\ node(x).token     = old(x).token
             /\ node(x).zeroDepth = old(x).zeroDepth
             /\ node(x).duration  = old(x).duration
             /\ node(x).expiry    = old(x).expiry
             /\ node(x).held      = old(x).held
             /\ node(x).refCount  = old(x).refCount + (IF x \in up THEN 1 ELSE 0)
    OBVIOUS
  <2>1. old(x) \in Node /\ (x \notin up => old(x) = s.byName[x])
    BY <1>5
  <2> HIDE DEF old, up, locked
  <2> QED
    BY <2>1 DEF Node
<1>9. \A x \in DOMAIN nodes : nodes[x] = node(x) /\ nodes[x] \in Node
  BY <1>7, <1>8
<1> HIDE DEF old, locked, node
<1>10. nodes \in [DOMAIN s.byName \cup up -> Node]
  BY <1>9
<1>11. index \in [DOMAIN s.byToken \cup {s.gen + 1} -> Name]
  BY <1>1 DEF IsStruct
<1>12. queue \subseteq Name
  BY <1>1 DEF IsStruct
<1>13. /\ r.gen = s.gen + 1 /\ r.byName = nodes /\ r.byToken = index
       /\ r.byExpiry = queue
  BY <1>4
<1>14. IsStruct(r)
  <2>1. s.gen + 1 \in 0 .. MaxGen
    BY <1>2 DEF Token
  <2>2. DOMAIN nodes \subseteq Name /\ DOMAIN index \subseteq Token
    BY <1>1, <1>2, <1>3 DEF IsStruct
  <2> HIDE DEF nodes, index, queue
  <2> QED
    BY <1>4, <1>10, <1>11, <1>12, <1>13, <2>1, <2>2 DEF IsStruct
<1>15. \A x \in DOMAIN s.byName : x # name => SameLock(s, r, x)
  BY <1>8, <1>9, <1>13 DEF SameLock, old
<1>16. \A x \in DOMAIN r.byName \ DOMAIN s.byName :
              x # name => r.byName[x].token = NoToken /\ ~r.byName[x].held
  BY <1>5, <1>8, <1>9, <1>13
<1>17. \A x \in DOMAIN r.byName :
          r.byName[x].refCount =
                (IF x \in DOMAIN s.byName THEN s.byName[x].refCount ELSE 0)
                  + (IF x \in WalkToRoot(name) THEN 1 ELSE 0)
  <2> TAKE x \in DOMAIN r.byName
  <2>1. CASE x = name
    BY <1>3, <1>6, <1>7, <1>9, <1>13, <2>1 DEF node
  <2>2. CASE x # name
    BY <1>5, <1>8, <1>9, <1>13, <2>2
  <2> QED
    BY <2>1, <2>2
<1>18. /\ r.byName[name].token = r.gen /\ r.byName[name].zeroDepth = z
       /\ r.byName[name].duration = d /\ ~r.byName[name].held
       /\ d >= 0 => r.byName[name].expiry = now + d
  BY <1>3, <1>6, <1>7, <1>9, <1>13 DEF node
<1>19. DOMAIN r.byName = DOMAIN s.byName \cup WalkToRoot(name)
  BY <1>13
<1>20. /\ DOMAIN r.byToken = DOMAIN s.byToken \cup {r.gen}
       /\ \A t \in DOMAIN r.byToken :
            r.byToken[t] = IF t = r.gen THEN name ELSE s.byToken[t]
  BY <1>13
<1> QED
  BY <1>13, <1>14, <1>15, <1>16, <1>17, <1>18, <1>19, <1>20 DEF Inserted

\* canCreate's three conditions are what keeps locks from conflicting.
LEMMA InsertGood ==
  ASSUME NEW s, Good(s), NEW name \in Name, NEW z \in BOOLEAN,
         NEW d \in Duration, NEW now \in Int,
         s.gen < MaxGen, CanCreate(s, name, z),
         NEW r, r = Insert(s, name, z, d, now)
  PROVE  /\ Good(r)
         /\ Held(r) = Held(s)
         /\ \A n \in Locked(s) : SameLock(s, r, n)
<1>1. /\ IsStruct(s) /\ RefsExact(s) /\ Indexed(s) /\ QueueExact(s)
      /\ ConflictFree(s) /\ Held(s) \subseteq Locked(s)
  BY DEF Good
<1>2. /\ name \in WalkToRoot(name) /\ WalkToRoot(name) \subseteq Name
  BY WalkFacts
<1>3. /\ name \notin Locked(s)
      /\ name \in DOMAIN s.byName => z
      /\ \A n \in Locked(s) : Below(name, n) => s.byName[n].zeroDepth
  BY <1>2 DEF CanCreate, Locked, Below
<1>4. /\ IsStruct(r)
      /\ r.gen = s.gen + 1
      /\ DOMAIN r.byToken = DOMAIN s.byToken \cup {r.gen}
      /\ \A t \in DOMAIN r.byToken :
           r.byToken[t] = IF t = r.gen THEN name ELSE s.byToken[t]
      /\ r.byExpiry = IF d >= 0 THEN s.byExpiry \cup {name} ELSE s.byExpiry
      /\ DOMAIN r.byName = DOMAIN s.byName \cup WalkToRoot(name)
      /\ r.byName[name].token = r.gen
      /\ r.byName[name].zeroDepth = z
      /\ r.byName[name].duration = d
      /\ d >= 0 => r.byName[name].expiry = now + d
      /\ ~r.byName[name].held
      /\ \A x \in DOMAIN s.byName : x # name => SameLock(s, r, x)
      /\ \A x \in DOMAIN r.byName \ DOMAIN s.byName :
           x # name => r.byName[x].token = NoToken /\ ~r.byName[x].held
      /\ \A x \in DOMAIN r.byName :
           r.byName[x].refCount =
             (IF x \in DOMAIN s.byName THEN s.byName[x].refCount ELSE 0)
               + (IF x \in WalkToRoot(name) THEN 1 ELSE 0)
  BY <1>3, InsertFields DEF Inserted
<1>5. r.gen # NoToken /\ s.gen \in Nat
  BY <1>1, <1>4 DEF NoToken, IsStruct
<1>6. \A n \in Locked(s) : n # name /\ n \in DOMAIN s.byName /\ SameLock(s, r, n)
  BY <1>3, <1>4 DEF Locked
<1>7. Locked(r) = Locked(s) \cup {name}
  BY <1>2, <1>4, <1>5, <1>6 DEF Locked, SameLock
<1>8. Held(r) = Held(s)
  <2>1. \A x \in Held(r) : x \in Held(s)
    BY <1>4 DEF Held, SameLock
  <2>2. \A x \in Held(s) : x \in Held(r)
    BY <1>1, <1>6 DEF Held, SameLock
  <2> QED
    BY <2>1, <2>2
<1>9. RefsExact(r)
  <2>1. \A l \in Locked(r) : WalkToRoot(l) \subseteq DOMAIN r.byName
    BY <1>1, <1>4, <1>7 DEF RefsExact
  <2>2. ASSUME NEW x \in DOMAIN r.byName
        PROVE  /\ r.byName[x].refCount = Cardinality(LockedBelow(r, x))
               /\ r.byName[x].refCount # 0
    <3> DEFINE old == LockedBelow(s, x)
    <3>1. LockedBelow(r, x) = IF x \in WalkToRoot(name) THEN old \cup {name} ELSE old
      BY <1>7 DEF LockedBelow
    <3>2. name \notin old
      BY <1>3 DEF LockedBelow
    <3>3. IsFiniteSet(old)
      <4>1. old \in SUBSET Name
        BY <1>1 DEF LockedBelow, Locked, IsStruct
      <4> QED
        BY <4>1, MemLSAssumption, FS_Subset
    <3>4. Cardinality(old) \in Nat
      BY <3>3, FS_CardinalityType
    <3>5. Cardinality(old \cup {name}) = Cardinality(old) + 1
      <4> HIDE DEF old
      <4> QED
        BY <3>2, <3>3, FS_AddElement
    <3>6. x \in DOMAIN s.byName =>
            s.byName[x].refCount = Cardinality(old) /\ s.byName[x].refCount # 0
      BY <1>1 DEF RefsExact
    <3>7. x \notin DOMAIN s.byName => Cardinality(old) = 0
      <4>1. x \notin DOMAIN s.byName => old = {}
        BY <1>1 DEF RefsExact, LockedBelow
      <4> QED
        BY <4>1, FS_EmptySet
    <3>8. x \in DOMAIN s.byName \/ x \in WalkToRoot(name)
      BY <1>4
    <3> HIDE DEF old
    <3>9. r.byName[x].refCount =
             (IF x \in DOMAIN s.byName THEN s.byName[x].refCount ELSE 0)
               + (IF x \in WalkToRoot(name) THEN 1 ELSE 0)
      BY <1>4
    <3>10. CASE x \in WalkToRoot(name)
      BY <3>1, <3>4, <3>5, <3>6, <3>7, <3>9, <3>10
    <3>11. CASE x \notin WalkToRoot(name)
      BY <3>1, <3>4, <3>6, <3>8, <3>9, <3>11
    <3> QED
      BY <3>10, <3>11
  <2> QED
    BY <2>1, <2>2 DEF RefsExact
<1>10. Indexed(r)
  <2>1. \A n \in Locked(s) : s.byName[n].token <= s.gen /\ s.byName[n].token # r.gen
    <3> TAKE n \in Locked(s)
    <3>1. s.byName[n].token <= s.gen /\ s.byName[n].token \in Int
      BY <1>1, MemLSAssumption DEF Indexed, IsStruct, Token
    <3> QED
      BY <3>1, <1>4, <1>5
  <2>2. \A t \in DOMAIN r.byToken :
          r.byToken[t] \in Locked(r) /\ r.byName[r.byToken[t]].token = t
    BY <1>1, <1>4, <1>6, <1>7 DEF Indexed, SameLock
  <2>3. \A n \in Locked(r) :
          /\ r.byName[n].token \in DOMAIN r.byToken
          /\ r.byName[n].token <= r.gen
          /\ r.byToken[r.byName[n].token] = n
    <3> TAKE n \in Locked(r)
    <3>1. CASE n = name
      BY <3>1, <1>4, <1>5
    <3>2. CASE n \in Locked(s)
      <4>1. /\ r.byName[n].token = s.byName[n].token
            /\ s.byName[n].token \in DOMAIN s.byToken
            /\ s.byToken[s.byName[n].token] = n
        BY <3>2, <1>1, <1>6 DEF Indexed, SameLock
      <4>2. s.byName[n].token \in Int
        BY <4>1, <1>1, MemLSAssumption DEF IsStruct, Token
      <4>3. s.byName[n].token <= s.gen + 1
        BY <4>2, <3>2, <2>1, <1>5
      <4> QED
        BY <4>1, <4>3, <3>2, <2>1, <1>4
    <3> QED
      BY <3>1, <3>2, <1>7
  <2> QED
    BY <2>2, <2>3 DEF Indexed
<1>11. QueueExact(r)
  <2>1. \A n \in Locked(s) : /\ n # name
                             /\ r.byName[n].duration = s.byName[n].duration
                             /\ r.byName[n].held <=> s.byName[n].held
    BY <1>6 DEF SameLock
  <2>2. /\ r.byName[name].duration = d /\ ~r.byName[name].held
        /\ r.byExpiry = IF d >= 0 THEN s.byExpiry \cup {name} ELSE s.byExpiry
    BY <1>4
  <2>3. s.byExpiry = { n \in Locked(s) : s.byName[n].duration >= 0
                                           /\ ~s.byName[n].held }
    BY <1>1 DEF QueueExact
  <2> QED
    BY <2>1, <2>2, <2>3, <1>7 DEF QueueExact
<1>12. ConflictFree(r)
  <2> SUFFICES ASSUME NEW a \in Locked(r), NEW b \in Locked(r), a # b
               PROVE  ~Covers(r, a, b)
    BY DEF ConflictFree
  <2>1. CASE a \in Locked(s) /\ b \in Locked(s)
    BY <2>1, <1>1, <1>6 DEF ConflictFree, Covers, SameLock
  <2>2. CASE a \in Locked(s) /\ b = name
    BY <2>2, <1>3, <1>6 DEF Covers, SameLock
  <2>3. CASE a = name /\ b \in Locked(s)
    <3>1. Below(b, name) => name \in DOMAIN s.byName
      BY <2>3, <1>1 DEF RefsExact, Below
    <3> QED
      BY <3>1, <2>3, <1>3, <1>4 DEF Covers
  <2> QED
    BY <2>1, <2>2, <2>3, <1>7
<1>13. Held(r) \subseteq Locked(r)
  BY <1>1, <1>7, <1>8
<1> QED
  BY <1>4, <1>6, <1>8, <1>9, <1>10, <1>11, <1>12, <1>13 DEF Good

-----------------------------------------------------------------------------
(* hold, unhold and Refresh leave every node's place, token and depth.     *)

\* A struct whose locks differ in timeouts and in being held only.
LEMMA FrameGood ==
  ASSUME NEW s, Good(s), NEW r, IsStruct(r),
         r.gen = s.gen, r.byToken = s.byToken,
         DOMAIN r.byName = DOMAIN s.byName,
         \A x \in DOMAIN s.byName :
            /\ r.byName[x].token     = s.byName[x].token
            /\ r.byName[x].refCount  = s.byName[x].refCount
            /\ r.byName[x].zeroDepth = s.byName[x].zeroDepth,
         QueueExact(r), Held(r) \subseteq Locked(s)
  PROVE  Good(r) /\ Locked(r) = Locked(s)
<1>1. Locked(r) = Locked(s)
  BY DEF Locked
<1>2. \A x : LockedBelow(r, x) = LockedBelow(s, x)
  BY <1>1 DEF LockedBelow
<1>3. RefsExact(s) /\ Indexed(s) /\ ConflictFree(s)
  BY DEF Good
<1>4. RefsExact(r)
  BY <1>1, <1>2, <1>3 DEF RefsExact
<1>5. \A n \in Locked(s) : n \in DOMAIN s.byName
  BY DEF Locked
<1>6. Indexed(r)
  BY <1>1, <1>3, <1>5 DEF Indexed
<1>7. ConflictFree(r)
  BY <1>1, <1>3, <1>5 DEF ConflictFree, Covers
<1> QED
  BY <1>1, <1>4, <1>6, <1>7 DEF Good

\* hold of free locks takes them out of the heap.
LEMMA HoldGood ==
  ASSUME NEW s, Good(s), NEW N \in SUBSET (Locked(s) \ Held(s)),
         NEW r, r = Hold(s, N)
  PROVE  /\ Good(r)
         /\ Locked(r) = Locked(s)
         /\ Held(r) = Held(s) \cup N
         /\ \A n \in Held(s) : SameLock(s, r, n)
<1> DEFINE nodes == [x \in DOMAIN s.byName |-> IF x \in N
                       THEN [s.byName[x] EXCEPT !.held = TRUE] ELSE s.byName[x]]
<1>1. IsStruct(s) /\ QueueExact(s) /\ Held(s) \subseteq Locked(s)
  BY DEF Good
<1>2. r = [s EXCEPT !.byName = nodes, !.byExpiry = s.byExpiry \ N]
  BY DEF Hold
<1>3. \A x \in DOMAIN s.byName :
        /\ nodes[x] \in Node
        /\ nodes[x].token     = s.byName[x].token
        /\ nodes[x].refCount  = s.byName[x].refCount
        /\ nodes[x].zeroDepth = s.byName[x].zeroDepth
        /\ nodes[x].duration  = s.byName[x].duration
        /\ nodes[x].expiry    = s.byName[x].expiry
        /\ nodes[x].held    <=> (x \in N \/ s.byName[x].held)
  <2> TAKE x \in DOMAIN s.byName
  <2>1. s.byName[x] \in Node
    BY <1>1 DEF IsStruct
  <2>2. CASE x \in N
    BY <2>1, <2>2 DEF Node
  <2>3. CASE x \notin N
    BY <2>1, <2>3 DEF Node
  <2> QED
    BY <2>2, <2>3
<1>4. DOMAIN nodes = DOMAIN s.byName /\ nodes \in [DOMAIN nodes -> Node]
  BY <1>3
<1> HIDE DEF nodes
<1>5. r = [gen |-> s.gen, byName |-> nodes, byToken |-> s.byToken,
           byExpiry |-> s.byExpiry \ N]
  BY <1>1, <1>2 DEF IsStruct
<1>6. IsStruct(r)
  BY <1>1, <1>4, <1>5 DEF IsStruct
<1>7. \A n \in Locked(s) : n \in DOMAIN s.byName
  BY DEF Locked
<1>8. Locked(r) = Locked(s) /\ Held(r) = Held(s) \cup N
  BY <1>3, <1>4, <1>5, <1>7 DEF Locked, Held
<1>9. QueueExact(r)
  <2>1. \A l \in Locked(s) : /\ r.byName[l].duration = s.byName[l].duration
                             /\ r.byName[l].held <=> (l \in N \/ s.byName[l].held)
    BY <1>3, <1>5, <1>7
  <2>2. r.byExpiry = s.byExpiry \ N
    BY <1>5
  <2>3. s.byExpiry = { l \in Locked(s) : s.byName[l].duration >= 0
                                           /\ ~s.byName[l].held }
    BY <1>1 DEF QueueExact
  <2> QED
    BY <2>1, <2>2, <2>3, <1>8 DEF QueueExact
<1>10. Good(r)
  BY <1>1, <1>3, <1>4, <1>5, <1>6, <1>8, <1>9, FrameGood
<1>11. \A n \in Held(s) : SameLock(s, r, n)
  BY <1>3, <1>4, <1>5 DEF SameLock, Held
<1> QED
  BY <1>8, <1>10, <1>11

\* unhold of held locks puts them back.
LEMMA UnholdGood ==
  ASSUME NEW s, Good(s), NEW N \in SUBSET Held(s), NEW r, r = Unhold(s, N)
  PROVE  /\ Good(r)
         /\ Locked(r) = Locked(s)
         /\ Held(r) = Held(s) \ N
         /\ \A n \in Held(r) : SameLock(s, r, n)
<1> DEFINE nodes == [x \in DOMAIN s.byName |-> IF x \in N
                       THEN [s.byName[x] EXCEPT !.held = FALSE] ELSE s.byName[x]]
           queue == s.byExpiry \cup { n \in N : s.byName[n].duration >= 0 }
<1>1. IsStruct(s) /\ QueueExact(s) /\ Held(s) \subseteq Locked(s)
  BY DEF Good
<1>2. r = [s EXCEPT !.byName = nodes, !.byExpiry = queue]
  BY DEF Unhold
<1>3. \A x \in DOMAIN s.byName :
        /\ nodes[x] \in Node
        /\ nodes[x].token     = s.byName[x].token
        /\ nodes[x].refCount  = s.byName[x].refCount
        /\ nodes[x].zeroDepth = s.byName[x].zeroDepth
        /\ nodes[x].duration  = s.byName[x].duration
        /\ nodes[x].expiry    = s.byName[x].expiry
        /\ nodes[x].held    <=> (x \notin N /\ s.byName[x].held)
  <2> TAKE x \in DOMAIN s.byName
  <2>1. s.byName[x] \in Node
    BY <1>1 DEF IsStruct
  <2>2. CASE x \in N
    BY <2>1, <2>2 DEF Node
  <2>3. CASE x \notin N
    BY <2>1, <2>3 DEF Node
  <2> QED
    BY <2>2, <2>3
<1>4. DOMAIN nodes = DOMAIN s.byName /\ nodes \in [DOMAIN nodes -> Node]
  BY <1>3
<1>5. queue \subseteq Name
  BY <1>1 DEF IsStruct, Held
<1> HIDE DEF nodes
<1>6. r = [gen |-> s.gen, byName |-> nodes, byToken |-> s.byToken, byExpiry |-> queue]
  BY <1>1, <1>2 DEF IsStruct
<1>7. IsStruct(r)
  BY <1>1, <1>4, <1>5, <1>6 DEF IsStruct
<1>8. \A n \in Locked(s) : n \in DOMAIN s.byName
  BY DEF Locked
<1>9. Locked(r) = Locked(s) /\ Held(r) = Held(s) \ N
  BY <1>3, <1>4, <1>6, <1>8 DEF Locked, Held
<1>10. QueueExact(r)
  <2>1. \A l \in Locked(s) : /\ r.byName[l].duration = s.byName[l].duration
                             /\ r.byName[l].held <=> (l \notin N /\ s.byName[l].held)
    BY <1>3, <1>6, <1>8
  <2>2. r.byExpiry = s.byExpiry \cup { l \in N : s.byName[l].duration >= 0 }
    BY <1>6
  <2>3. s.byExpiry = { l \in Locked(s) : s.byName[l].duration >= 0
                                           /\ ~s.byName[l].held }
    BY <1>1 DEF QueueExact
  <2>4. \A l \in N : l \in Locked(s) /\ s.byName[l].held
    BY <1>1 DEF Held
  <2> QED
    BY <2>1, <2>2, <2>3, <2>4, <1>9 DEF QueueExact
<1>11. Held(r) \subseteq Locked(s)
  BY <1>1, <1>9
<1>12. Good(r)
  BY <1>3, <1>4, <1>6, <1>7, <1>10, <1>11, FrameGood
<1>13. \A n \in Held(r) : SameLock(s, r, n)
  BY <1>3, <1>4, <1>6, <1>9 DEF SameLock, Held
<1> QED
  BY <1>9, <1>12, <1>13

\* A free lock is given a new timeout, and its place in the heap.
LEMMA RestartGood ==
  ASSUME NEW s, Good(s), NEW n \in Locked(s) \ Held(s),
         NEW d \in Duration, NEW now \in Int,
         NEW r, r = Restart(s, n, d, now)
  PROVE  /\ Good(r)
         /\ Held(r) = Held(s)
         /\ \A h \in Held(s) : SameLock(s, r, h)
<1> DEFINE expiry == IF d >= 0 THEN now + d ELSE s.byName[n].expiry
           node  == [s.byName[n] EXCEPT !.duration = d, !.expiry = expiry]
           nodes == [s.byName EXCEPT ![n] = node]
           queue == IF d >= 0 THEN s.byExpiry \cup {n} ELSE s.byExpiry \ {n}
<1>1. IsStruct(s) /\ QueueExact(s) /\ Held(s) \subseteq Locked(s)
  BY DEF Good
<1>2. /\ n \in DOMAIN s.byName /\ n \in Name /\ s.byName[n] \in Node
      /\ ~s.byName[n].held
  BY <1>1 DEF Locked, Held, IsStruct
<1>3. d \in Int
  BY MemLSAssumption
<1>4. expiry \in Int
  BY <1>2, <1>3 DEF Node
<1>5. r = [gen |-> s.gen, byName |-> nodes, byToken |-> s.byToken, byExpiry |-> queue]
  BY <1>1, <1>2 DEF Restart, IsStruct
<1> HIDE DEF expiry
<1>6. /\ node \in Node
      /\ node.token     = s.byName[n].token
      /\ node.refCount  = s.byName[n].refCount
      /\ node.zeroDepth = s.byName[n].zeroDepth
      /\ node.duration  = d
      /\ node.held      = s.byName[n].held
  BY <1>2, <1>3, <1>4 DEF Node
<1> HIDE DEF node
<1>7. /\ DOMAIN nodes = DOMAIN s.byName
      /\ nodes[n] = node
      /\ \A x \in DOMAIN s.byName : x # n => nodes[x] = s.byName[x]
      /\ nodes \in [DOMAIN nodes -> Node]
  BY <1>1, <1>2, <1>6 DEF IsStruct
<1> HIDE DEF nodes
<1>8. IsStruct(r)
  BY <1>1, <1>2, <1>5, <1>7 DEF IsStruct
<1>9. \A l \in Locked(s) : l \in DOMAIN s.byName
  BY DEF Locked
<1>10. Locked(r) = Locked(s) /\ Held(r) = Held(s)
  BY <1>5, <1>6, <1>7, <1>9 DEF Locked, Held
<1>11. QueueExact(r)
  <2>1. r.byName[n].duration = d /\ ~r.byName[n].held
    BY <1>2, <1>5, <1>6, <1>7
  <2>2. \A l \in Locked(s) : l # n => r.byName[l] = s.byName[l]
    BY <1>5, <1>7, <1>9
  <2>3. r.byExpiry = queue /\ n \in Locked(s)
    BY <1>5
  <2>4. s.byExpiry = { l \in Locked(s) : s.byName[l].duration >= 0
                                           /\ ~s.byName[l].held }
    BY <1>1 DEF QueueExact
  <2> QED
    BY <2>1, <2>2, <2>3, <2>4, <1>10 DEF QueueExact
<1>12. Held(r) \subseteq Locked(s)
  BY <1>1, <1>10
<1>13. Good(r)
  <2>1. /\ r.gen = s.gen /\ r.byToken = s.byToken
        /\ DOMAIN r.byName = DOMAIN s.byName
    BY <1>5, <1>7
  <2>2. \A x \in DOMAIN s.byName :
          /\ r.byName[x].token     = s.byName[x].token
          /\ r.byName[x].refCount  = s.byName[x].refCount
          /\ r.byName[x].zeroDepth = s.byName[x].zeroDepth
    BY <1>5, <1>6, <1>7
  <2> HIDE DEF queue
  <2> QED
    BY <1>8, <1>11, <1>12, <2>1, <2>2, FrameGood
<1>14. \A h \in Held(s) : SameLock(s, r, h)
  BY <1>5, <1>7 DEF SameLock, Held
<1> QED
  BY <1>10, <1>13, <1>14

-----------------------------------------------------------------------------
(* The methods.                                                            *)

\* The claims cl are the held locks of s, each claimed once.
Owned(s, cl) ==
  /\ Held(s) = UNION { cl[c] : c \in Caller }
  /\ \A c, d \in Caller : c # d => cl[c] \cap cl[d] = {}

\* ConfirmedLockStays, as a predicate of the structs before and after.
Stays == \A c \in Caller : \A n \in claims[c] :
           n \in claims'[c] => SameLock(m, m', n)

\* lookup finds locks that are free, or nothing.
LEMMA LookupLocked ==
  ASSUME NEW s, Good(s), NEW name, NEW conditions
  PROVE  Lookup(s, name, conditions) \in SUBSET (Locked(s) \ Held(s))
BY DEF Lookup, Good, Indexed, Held, Locked

\* A method that holds and releases nothing keeps every claimed lock.
LEMMA ClaimsKept ==
  ASSUME IInv, Held(m') = Held(m), claims' = claims,
         \A n \in Held(m) : SameLock(m, m', n)
  PROVE  Owned(m', claims') /\ Stays
<1>1. \A c \in Caller : claims[c] \subseteq Held(m)
  BY DEF IInv, ClaimsAreHeld
<1> QED
  BY <1>1 DEF IInv, ClaimsAreHeld, Owned, Stays

\* Two links of SameLock make one.
LEMMA SameLockTrans ==
  ASSUME NEW s, NEW t, NEW r, NEW n, SameLock(s, t, n), SameLock(t, r, n)
  PROVE  SameLock(s, r, n)
BY DEF SameLock

\* Create collects, then adds a lock or refuses.
LEMMA CreateStep ==
  ASSUME IInv, NEW root \in Name, NEW z \in BOOLEAN, NEW d \in Duration,
         NEW now \in Now, Create(root, z, d, now)
  PROVE  Good(m') /\ Owned(m', claims') /\ Stays
<1> DEFINE s == CollectExpiredNodes(m, now)
<1>1. /\ Good(s) /\ Held(s) = Held(m)
      /\ \A n \in Locked(s) : SameLock(m, s, n)
  BY CollectGood DEF IInv
<1>2. now \in Int
  BY MemLSAssumption DEF Now, IInv, TypeOK
<1>3. \A n \in Held(m) : n \in Locked(s) /\ SameLock(m, s, n)
  BY <1>1 DEF Good
<1>4. claims' = claims /\ s.gen < MaxGen
  BY DEF Create
<1> HIDE DEF s
<1>5. CASE CanCreate(s, root, z)
  <2>1. m' = Insert(s, root, z, d, now)
    BY <1>5 DEF Create, s
  <2>2. Good(m') /\ Held(m') = Held(m) /\ \A n \in Locked(s) : SameLock(s, m', n)
    BY <1>1, <1>2, <1>4, <1>5, <2>1, InsertGood
  <2>3. \A n \in Held(m) : SameLock(m, m', n)
    BY <1>3, <2>2, SameLockTrans
  <2> QED
    BY <1>4, <2>2, <2>3, ClaimsKept
<1>6. CASE ~CanCreate(s, root, z)
  <2>1. m' = s
    BY <1>6 DEF Create, s
  <2> QED
    BY <1>1, <1>3, <1>4, <2>1, ClaimsKept
<1> QED
  BY <1>5, <1>6

\* Confirm collects, then claims the locks lookup finds, or none.
LEMMA ConfirmStep ==
  ASSUME IInv, NEW c \in Caller, NEW name0, NEW name1, NEW conditions,
         NEW now \in Now, Confirm(c, name0, name1, conditions, now)
  PROVE  Good(m') /\ Owned(m', claims') /\ claims' \in [Caller -> SUBSET Name] /\ Stays
<1> DEFINE s == CollectExpiredNodes(m, now)
           found(name) == IF name = NoName THEN {} ELSE Lookup(s, name, conditions)
           fails(name) == name # NoName /\ found(name) = {}
           N == found(name0) \cup found(name1)
<1>1. /\ Good(s) /\ Held(s) = Held(m)
      /\ \A n \in Locked(s) : SameLock(m, s, n)
  BY CollectGood DEF IInv
<1>2. \A n \in Held(m) : n \in Locked(s) /\ SameLock(m, s, n)
  BY <1>1 DEF Good
<1>3. claims[c] = {} /\ claims \in [Caller -> SUBSET Name]
  BY DEF Confirm, IInv, TypeOK
<1>4. \A name : found(name) \in SUBSET (Locked(s) \ Held(s))
  BY <1>1, LookupLocked
<1> HIDE DEF s, found
<1>5. N \in SUBSET (Locked(s) \ Held(s))
  BY <1>4
<1>6. CASE fails(name0) \/ fails(name1)
  <2>1. m' = s /\ claims' = claims
    BY <1>6 DEF Confirm, s, found
  <2> QED
    BY <1>1, <1>2, <1>3, <2>1, ClaimsKept
<1>7. CASE ~(fails(name0) \/ fails(name1))
  <2>1. m' = Hold(s, N) /\ claims' = [claims EXCEPT ![c] = N]
    BY <1>7 DEF Confirm, s, found
  <2> HIDE DEF N
  <2>2. /\ Good(m') /\ Held(m') = Held(m) \cup N
        /\ \A n \in Held(m) : SameLock(s, m', n)
    BY <1>1, <1>5, <2>1, HoldGood
  <2>3. \A n \in Held(m) : SameLock(m, m', n)
    BY <1>2, <2>2, SameLockTrans
  <2>4. N \subseteq Name /\ N \cap Held(m) = {}
    BY <1>1, <1>5 DEF Good, IsStruct, Locked
  <2>5. /\ Held(m) = UNION { claims[e] : e \in Caller }
        /\ \A e, f \in Caller : e # f => claims[e] \cap claims[f] = {}
    BY DEF IInv, ClaimsAreHeld
  <2>6. /\ claims'[c] = N
        /\ \A e \in Caller \ {c} : claims'[e] = claims[e]
        /\ claims' \in [Caller -> SUBSET Name]
    BY <1>3, <2>1, <2>4
  <2>7. Owned(m', claims')
    BY <1>3, <2>2, <2>4, <2>5, <2>6 DEF Owned
  <2>8. Stays
    BY <1>3, <2>3, <2>5 DEF Stays
  <2> QED
    BY <2>2, <2>6, <2>7, <2>8
<1> QED
  BY <1>6, <1>7

\* The release closure gives back what its Confirm claimed.
LEMMA ReleaseStep ==
  ASSUME IInv, NEW c \in Caller, Release(c)
  PROVE  Good(m') /\ Owned(m', claims') /\ claims' \in [Caller -> SUBSET Name] /\ Stays
<1>1. /\ m' = Unhold(m, claims[c]) /\ claims' = [claims EXCEPT ![c] = {}]
      /\ claims \in [Caller -> SUBSET Name] /\ Good(m)
  BY DEF Release, IInv, TypeOK
<1>2. /\ Held(m) = UNION { claims[e] : e \in Caller }
      /\ \A e, f \in Caller : e # f => claims[e] \cap claims[f] = {}
  BY DEF IInv, ClaimsAreHeld
<1>3. claims[c] \in SUBSET Held(m)
  BY <1>2
<1>4. /\ Good(m') /\ Held(m') = Held(m) \ claims[c]
      /\ \A n \in Held(m') : SameLock(m, m', n)
  BY <1>1, <1>3, UnholdGood
<1>5. /\ claims'[c] = {} /\ \A e \in Caller \ {c} : claims'[e] = claims[e]
      /\ claims' \in [Caller -> SUBSET Name]
  BY <1>1
<1>6. Owned(m', claims')
  BY <1>2, <1>4, <1>5 DEF Owned
<1>7. Stays
  BY <1>4, <1>6 DEF Stays, Owned
<1> QED
  BY <1>4, <1>5, <1>6, <1>7

\* Refresh collects, then gives a free lock its new timeout.
LEMMA RefreshStep ==
  ASSUME IInv, NEW token \in Token, NEW d \in Duration, NEW now \in Now,
         Refresh(token, d, now)
  PROVE  Good(m') /\ Owned(m', claims') /\ Stays
<1> DEFINE s == CollectExpiredNodes(m, now)
           n == s.byToken[token]
<1>1. /\ Good(s) /\ Held(s) = Held(m)
      /\ \A l \in Locked(s) : SameLock(m, s, l)
  BY CollectGood DEF IInv
<1>2. now \in Int
  BY MemLSAssumption DEF Now, IInv, TypeOK
<1>3. \A l \in Held(m) : l \in Locked(s) /\ SameLock(m, s, l)
  BY <1>1 DEF Good
<1>4. claims' = claims
  BY DEF Refresh
<1>5. CASE token \in DOMAIN s.byToken /\ ~s.byName[n].held
  <2>1. m' = Restart(s, n, d, now)
    BY <1>5 DEF Refresh
  <2>2. n \in Locked(s) \ Held(s)
    BY <1>1, <1>5 DEF Good, Indexed, Held
  <2> HIDE DEF s, n
  <2>3. Good(m') /\ Held(m') = Held(m) /\ \A l \in Held(m) : SameLock(s, m', l)
    BY <1>1, <1>2, <2>1, <2>2, RestartGood
  <2>4. \A l \in Held(m) : SameLock(m, m', l)
    BY <1>3, <2>3, SameLockTrans
  <2> QED
    BY <1>4, <2>3, <2>4, ClaimsKept
<1>6. CASE ~(token \in DOMAIN s.byToken /\ ~s.byName[n].held)
  <2>1. m' = s
    BY <1>6 DEF Refresh
  <2> QED
    BY <1>1, <1>3, <1>4, <2>1, ClaimsKept
<1> QED
  BY <1>5, <1>6

\* Unlock collects, then removes a free lock.
LEMMA UnlockStep ==
  ASSUME IInv, NEW token \in Token, NEW now \in Now, Unlock(token, now)
  PROVE  Good(m') /\ Owned(m', claims') /\ Stays
<1> DEFINE s == CollectExpiredNodes(m, now)
           n == s.byToken[token]
<1>1. /\ Good(s) /\ Held(s) = Held(m)
      /\ \A l \in Locked(s) : SameLock(m, s, l)
  BY CollectGood DEF IInv
<1>2. \A l \in Held(m) : l \in Locked(s) /\ SameLock(m, s, l)
  BY <1>1 DEF Good
<1>3. claims' = claims
  BY DEF Unlock
<1>4. CASE token \in DOMAIN s.byToken /\ ~s.byName[n].held
  <2>1. m' = Remove(s, {n})
    BY <1>4 DEF Unlock
  <2>2. {n} \in SUBSET (Locked(s) \ Held(s))
    BY <1>1, <1>4 DEF Good, Indexed, Held
  <2> HIDE DEF s, n
  <2>3. /\ Good(m') /\ Held(m') = Held(m) /\ Locked(m') = Locked(s) \ {n}
        /\ \A l \in Locked(m') : SameLock(s, m', l)
    BY <1>1, <2>1, <2>2, RemoveGood
  <2>4. \A l \in Held(m) : l \in Locked(m')
    BY <2>3 DEF Good
  <2>5. \A l \in Held(m) : SameLock(m, m', l)
    BY <1>2, <2>3, <2>4, SameLockTrans
  <2> QED
    BY <1>3, <2>3, <2>5, ClaimsKept
<1>5. CASE ~(token \in DOMAIN s.byToken /\ ~s.byName[n].held)
  <2>1. m' = s
    BY <1>5 DEF Unlock
  <2> QED
    BY <1>1, <1>2, <1>3, <2>1, ClaimsKept
<1> QED
  BY <1>4, <1>5

-----------------------------------------------------------------------------
(* The theorems.                                                           *)

\* At first there is no lock.
LEMMA InitInv == Init => IInv
<1> SUFFICES ASSUME Init PROVE IInv
  OBVIOUS
<1>1. /\ m = [gen |-> 0, byName |-> [n \in {} |-> FreshNode],
              byToken |-> [t \in {} |-> Root], byExpiry |-> {}]
      /\ claims = [c \in Caller |-> {}]
      /\ clock = 0
      /\ ret = [op |-> "none", err |-> "nil"]
  BY DEF Init
<1>2. /\ m.gen = 0 /\ DOMAIN m.byName = {} /\ DOMAIN m.byToken = {}
      /\ m.byExpiry = {}
  BY <1>1
<1>3. /\ m.byName \in [DOMAIN m.byName -> Node]
      /\ m.byToken \in [DOMAIN m.byToken -> Name]
  BY <1>1
<1>4. m = [gen |-> m.gen, byName |-> m.byName, byToken |-> m.byToken,
           byExpiry |-> m.byExpiry]
  BY <1>1
<1>5. IsStruct(m)
  BY <1>2, <1>3, <1>4, MemLSAssumption DEF IsStruct
<1>6. Locked(m) = {} /\ Held(m) = {}
  BY <1>2 DEF Locked, Held
<1>7. Good(m)
  BY <1>2, <1>5, <1>6 DEF Good, RefsExact, Indexed, QueueExact, ConflictFree
<1>8. TypeOK
  BY <1>1, <1>5, MemLSAssumption DEF TypeOK
<1>9. ClaimsAreHeld
  BY <1>1, <1>6 DEF ClaimsAreHeld
<1> QED
  BY <1>7, <1>8, <1>9 DEF IInv

\* What is left when an action has been shown to keep the struct and claims.
LEMMA StepInv ==
  ASSUME IInv, [Next]_vars
  PROVE  IInv' /\ Stays
<1>1. /\ Good(m) /\ TypeOK /\ ClaimsAreHeld
  BY DEF IInv
<1>2. ASSUME Good(m'), Owned(m', claims'), claims' \in [Caller -> SUBSET Name],
             clock' \in 0 .. MaxClock,
             ret' \in [op : {"none", "Create", "Confirm", "Release", "Refresh", "Unlock"},
                       err : {"nil", "ErrLocked", "ErrConfirmationFailed", "ErrNoSuchLock"}]
      PROVE  IInv'
  BY <1>2 DEF IInv, TypeOK, ClaimsAreHeld, Owned, Good
<1>3. ASSUME NEW root \in Name, NEW z \in BOOLEAN, NEW d \in Duration,
             NEW now \in Now, Create(root, z, d, now)
      PROVE  IInv' /\ Stays
  <2>1. Good(m') /\ Owned(m', claims') /\ Stays
    BY <1>3, CreateStep
  <2> QED
    BY <1>1, <1>2, <1>3, <2>1 DEF Create, Return, TypeOK
<1>4. ASSUME NEW c \in Caller, NEW name0, NEW name1, NEW conditions,
             NEW now \in Now, Confirm(c, name0, name1, conditions, now)
      PROVE  IInv' /\ Stays
  <2>1. Good(m') /\ Owned(m', claims') /\ claims' \in [Caller -> SUBSET Name] /\ Stays
    BY <1>4, ConfirmStep
  <2> QED
    BY <1>1, <1>2, <1>4, <2>1 DEF Confirm, Return, TypeOK
<1>5. ASSUME NEW c \in Caller, Release(c)
      PROVE  IInv' /\ Stays
  <2>1. Good(m') /\ Owned(m', claims') /\ claims' \in [Caller -> SUBSET Name] /\ Stays
    BY <1>5, ReleaseStep
  <2> QED
    BY <1>1, <1>2, <1>5, <2>1 DEF Release, Return, TypeOK
<1>6. ASSUME NEW token \in Token, NEW d \in Duration, NEW now \in Now,
             Refresh(token, d, now)
      PROVE  IInv' /\ Stays
  <2>1. Good(m') /\ Owned(m', claims') /\ Stays
    BY <1>6, RefreshStep
  <2> QED
    BY <1>1, <1>2, <1>6, <2>1 DEF Refresh, Return, TypeOK
<1>7. ASSUME NEW token \in Token, NEW now \in Now, Unlock(token, now)
      PROVE  IInv' /\ Stays
  <2>1. Good(m') /\ Owned(m', claims') /\ Stays
    BY <1>7, UnlockStep
  <2> QED
    BY <1>1, <1>2, <1>7, <2>1 DEF Unlock, Return, TypeOK
<1>8. \A n \in Held(m) : SameLock(m, m, n)
  BY DEF SameLock, Held
<1>9. CASE Tick
  <2>1. m' = m /\ claims' = claims
    BY <1>9 DEF Tick
  <2>2. Owned(m', claims') /\ Stays
    BY <1>8, <2>1, ClaimsKept
  <2>3. clock' \in 0 .. MaxClock
    BY <1>1, <1>9, MemLSAssumption DEF Tick, TypeOK
  <2> QED
    BY <1>1, <1>2, <1>9, <2>1, <2>2, <2>3 DEF Tick, TypeOK
<1>10. CASE UNCHANGED vars
  <2>1. m' = m /\ claims' = claims
    BY <1>10 DEF vars
  <2>2. Owned(m', claims') /\ Stays
    BY <1>8, <2>1, ClaimsKept
  <2> QED
    BY <1>1, <1>2, <1>10, <2>1, <2>2 DEF vars, TypeOK
<1> QED
  BY <1>3, <1>4, <1>5, <1>6, <1>7, <1>9, <1>10 DEF Next

\* The lock table's inductive invariant holds in every reachable state.
THEOREM LockTableInvariant == Spec => []IInv
<1>1. Init => IInv
  BY InitInv
<1>2. IInv /\ [Next]_vars => IInv'
  BY StepInv
<1> QED
  BY <1>1, <1>2, PTL DEF Spec

\* The types of the lock table's state (lock.go:123-131, 368-384).
THEOREM TypeCorrect == Spec => []TypeOK
<1>1. IInv => TypeOK
  BY DEF IInv
<1> QED
  BY <1>1, LockTableInvariant, PTL

\* A node's refCount is the number of locks at or below it, and a node is in
\* byName exactly while there is one: canCreate may take "n exists" for "a
\* descendent is locked" (lock.go:298-301), whatever expires in between.
THEOREM RefCountsExact == Spec => []RefCountExact
<1>1. IInv => RefCountExact
  BY DEF IInv, Good, RefCountExact
<1> QED
  BY <1>1, LockTableInvariant, PTL

\* No two locks ever conflict, however creation, refreshing, unlocking and
\* expiry interleave: an infinite-depth lock is alone in its subtree.
THEOREM LocksNeverConflict == Spec => []NoConflictingLocks
<1>1. IInv => NoConflictingLocks
  BY DEF IInv, Good, NoConflictingLocks
<1> QED
  BY <1>1, LockTableInvariant, PTL

\* At most one lock protects a name.
CoverUnique ==
  \A name \in Name : \A a, b \in Locked(m) :
     Covers(m, a, name) /\ Covers(m, b, name) => a = b

\* Two locks that protect one name are on one walk to the root, and the one
\* nearer to the root covers the other.
LEMMA CoversOnce ==
  ASSUME IInv
  PROVE  CoverUnique
<1> SUFFICES ASSUME NEW name \in Name, NEW a \in Locked(m), NEW b \in Locked(m),
                    Covers(m, a, name), Covers(m, b, name), a # b
             PROVE  FALSE
  BY DEF CoverUnique
<1>1. ~Covers(m, a, b) /\ ~Covers(m, b, a)
  BY DEF IInv, Good, ConflictFree
<1>2. a \in WalkToRoot(name) /\ b \in WalkToRoot(name)
  BY WalkFacts DEF Covers, Below
<1>3. a \in WalkToRoot(b) \/ b \in WalkToRoot(a)
  BY <1>2, WalkIsChain
<1>4. a # name /\ b # name
  BY <1>1 DEF Covers
<1> QED
  BY <1>1, <1>3, <1>4 DEF Covers, Below

\* Tokens, nodes and the expiry heap stay in step with each other.
THEOREM TokensIndexLocks == Spec => []LocksIndexed
<1>1. IInv => LocksIndexed
  BY DEF IInv, Good, LocksIndexed
<1> QED
  BY <1>1, LockTableInvariant, PTL

\* No lock with a timeout is lost from the expiry heap, whatever the order of
\* Confirm, Refresh, release and expiry, and none is there while it is held.
THEOREM ExpiryQueueIsExact == Spec => []ExpiryQueueExact
<1>1. IInv => ExpiryQueueExact
  BY DEF IInv, Good, ExpiryQueueExact
<1> QED
  BY <1>1, LockTableInvariant, PTL

\* A release always unholds exactly the locks its Confirm held, no other
\* caller's: the "inconsistent held state" panics are unreachable.
THEOREM HeldLocksAreClaimed == Spec => []ClaimsAreHeld
<1>1. IInv => ClaimsAreHeld
  BY DEF IInv
<1> QED
  BY <1>1, LockTableInvariant, PTL

\* A confirmed lock is not changed by anyone else until it is released.
THEOREM ConfirmedLocksStay == Spec => ConfirmedLockStays
<1>1. IInv /\ [Next]_vars => Stays
  BY StepInv
<1>2. Stays => \A c \in Caller : \A n \in claims[c] : n \in claims'[c] =>
        /\ n \in DOMAIN m'.byName
        /\ m'.byName[n].token     = m.byName[n].token
        /\ m'.byName[n].zeroDepth = m.byName[n].zeroDepth
        /\ m'.byName[n].duration  = m.byName[n].duration
        /\ m'.byName[n].expiry    = m.byName[n].expiry
  BY DEF Stays, SameLock
<1> QED
  BY <1>1, <1>2, LockTableInvariant, PTL DEF Spec, ConfirmedLockStays
=============================================================================
