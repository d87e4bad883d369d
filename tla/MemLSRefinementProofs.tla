----------------------- MODULE MemLSRefinementProofs -----------------------
(***************************************************************************)
(* Proofs about MemLSRefinement: for every tree of names, every set of     *)
(* callers and every set of durations, each step of memLS is a step of the *)
(* lock system its interface describes, and a confirmed claim is           *)
(* exclusive.                                                              *)
(***************************************************************************)
EXTENDS MemLSRefinement, MemLSProofs

-----------------------------------------------------------------------------
(* The locks of a struct: AbsLocks for the stages of a method.             *)

LockIn(s, n) ==
  [root      |-> n,
   zeroDepth |-> s.byName[n].zeroDepth,
   duration  |-> s.byName[n].duration,
   expiry    |-> IF s.byName[n].duration >= 0 THEN s.byName[n].expiry ELSE 0]

LocksOf(s) == [t \in DOMAIN s.byToken |-> LockIn(s, s.byToken[t])]

\* The mapping's locks are those of the struct.
LEMMA AbsLocksOf ==
  AbsLocks = LocksOf(m) /\ AbsLocks' = LocksOf(m')
BY DEF AbsLocks, AbsLock, LocksOf, LockIn

\* Tokens and locked nodes are one to one.
LEMMA TokenNode ==
  ASSUME NEW s, Good(s)
  PROVE  /\ \A t \in DOMAIN s.byToken :
              /\ s.byToken[t] \in Locked(s) /\ s.byToken[t] \in DOMAIN s.byName
              /\ s.byToken[t] \in Name
              /\ s.byName[s.byToken[t]].token = t
         /\ \A n \in Locked(s) : /\ s.byName[n].token \in DOMAIN s.byToken
                                 /\ s.byToken[s.byName[n].token] = n
         /\ \A t, u \in DOMAIN s.byToken : s.byToken[t] = s.byToken[u] => t = u
BY DEF Good, Indexed, Locked, IsStruct

\* A token is nobody's exactly while its node is not held.
LEMMA FreeNotHeld ==
  ASSUME IInv, NEW t \in DOMAIN m.byToken
  PROVE  LS!Free(t) <=> ~m.byName[m.byToken[t]].held
<1> DEFINE n == m.byToken[t]
<1>1. n \in Locked(m) /\ n \in DOMAIN m.byName /\ m.byName[n].token = t
  BY TokenNode DEF IInv
<1>2. /\ Held(m) = UNION { claims[c] : c \in Caller }
      /\ Held(m) \subseteq Locked(m)
  BY DEF IInv, ClaimsAreHeld
<1>3. ASSUME m.byName[n].held
      PROVE  ~LS!Free(t)
  <2>1. PICK c \in Caller : n \in claims[c]
    BY <1>1, <1>2, <1>3 DEF Held
  <2>2. t \in AbsHolds[c]
    BY <1>1, <2>1 DEF AbsHolds
  <2> QED
    BY <2>2 DEF LS!Free
<1>4. ASSUME ~LS!Free(t)
      PROVE  m.byName[n].held
  <2>1. PICK c \in Caller : t \in AbsHolds[c]
    BY <1>4 DEF LS!Free
  <2>2. PICK l \in claims[c] : m.byName[l].token = t
    BY <2>1 DEF AbsHolds
  <2>3. l \in Held(m) /\ l \in Locked(m)
    BY <1>2, <2>2
  <2>4. l = n
    BY <2>2, <2>3, TokenNode DEF IInv
  <2> QED
    BY <2>3, <2>4 DEF Held
<1> QED
  BY <1>3, <1>4

\* collectExpiredNodes takes away exactly the locks that are due: the heap
\* holds every lock with a timeout that nobody holds, and nothing else.
LEMMA CollectIsLive ==
  ASSUME IInv, NEW now, NEW s, s = CollectExpiredNodes(m, now)
  PROVE  /\ LS!Live(now) = LocksOf(s)
         /\ DOMAIN s.byToken \subseteq DOMAIN m.byToken
         /\ \A t \in DOMAIN s.byToken : s.byToken[t] = m.byToken[t]
<1> DEFINE due == { t \in DOMAIN AbsLocks : /\ AbsLocks[t].duration >= 0
                                            /\ AbsLocks[t].expiry <= now
                                            /\ LS!Free(t) }
<1>1. Good(m) /\ QueueExact(m)
  BY DEF IInv, Good
<1>2. Expired(m, now) \in SUBSET (Locked(m) \ Held(m))
  BY <1>1 DEF Expired, QueueExact, Held
<1>3. /\ DOMAIN s.byToken = { u \in DOMAIN m.byToken : m.byToken[u] \notin Expired(m, now) }
      /\ \A t \in DOMAIN s.byToken : s.byToken[t] = m.byToken[t]
  <2>1. Expired(m, now) \in SUBSET Locked(m)
    BY <1>2
  <2> QED
    BY <1>1, <2>1, RemoveFields DEF CollectExpiredNodes
<1>4. Good(s) /\ \A n \in Locked(s) : SameLock(m, s, n)
  BY <1>1, CollectGood
<1>5. \A t \in DOMAIN m.byToken : m.byToken[t] \in Expired(m, now) <=> t \in due
  <2> TAKE t \in DOMAIN m.byToken
  <2>1. m.byToken[t] \in Locked(m)
    BY <1>1, TokenNode
  <2>2. LS!Free(t) <=> ~m.byName[m.byToken[t]].held
    BY FreeNotHeld
  <2>3. t \in DOMAIN AbsLocks /\ AbsLocks[t] = LockIn(m, m.byToken[t])
    BY AbsLocksOf DEF LocksOf
  <2> QED
    BY <1>1, <2>1, <2>2, <2>3 DEF Expired, QueueExact, LockIn
<1>6. DOMAIN s.byToken = DOMAIN AbsLocks \ due
  BY <1>3, <1>5, AbsLocksOf DEF LocksOf
<1>7. \A t \in DOMAIN s.byToken : AbsLocks[t] = LockIn(s, s.byToken[t])
  <2> TAKE t \in DOMAIN s.byToken
  <2>1. SameLock(m, s, s.byToken[t])
    BY <1>4, TokenNode
  <2> QED
    BY <1>3, <2>1, AbsLocksOf DEF LocksOf, LockIn, SameLock
<1>8. LS!Live(now) = [t \in DOMAIN AbsLocks \ due |-> AbsLocks[t]]
  BY DEF LS!Live
<1> HIDE DEF due
<1> QED
  BY <1>3, <1>6, <1>7, <1>8 DEF LocksOf

\* In what is left a token is nobody's exactly while its node is not held.
LEMMA FreeInCollected ==
  ASSUME IInv, NEW now, NEW s, s = CollectExpiredNodes(m, now),
         NEW t \in DOMAIN s.byToken
  PROVE  LS!Free(t) <=> ~s.byName[s.byToken[t]].held
<1>1. Good(s) /\ \A n \in Locked(s) : SameLock(m, s, n)
  BY CollectGood DEF IInv
<1>2. t \in DOMAIN m.byToken /\ s.byToken[t] = m.byToken[t]
  BY CollectIsLive
<1>3. SameLock(m, s, s.byToken[t])
  BY <1>1, TokenNode
<1> QED
  BY <1>2, <1>3, FreeNotHeld DEF SameLock

-----------------------------------------------------------------------------
(* The methods' questions, put to the nodes and to the locks.              *)

\* canCreate looks at the name's node and its ancestors' only: a node without
\* a lock of its own tells it that something below is locked.
LEMMA CanCreateIsNoConflict ==
  ASSUME NEW s, Good(s), NEW name \in Name, NEW z \in BOOLEAN,
         NEW lock, lock.root = name, lock.zeroDepth = z
  PROVE  CanCreate(s, name, z)
           <=> \A t \in DOMAIN LocksOf(s) : ~LS!Conflict(LocksOf(s)[t], lock)
<1>1. /\ \A l \in Locked(s) : WalkToRoot(l) \subseteq DOMAIN s.byName
      /\ \A n \in DOMAIN s.byName :
            /\ s.byName[n].refCount = Cardinality(LockedBelow(s, n))
            /\ s.byName[n].refCount # 0
  BY DEF Good, RefsExact
<1>2. name \in WalkToRoot(name)
  BY WalkFacts
<1>3. \A n \in Locked(s) : \E t \in DOMAIN LocksOf(s) :
        LocksOf(s)[t].root = n /\ LocksOf(s)[t].zeroDepth = s.byName[n].zeroDepth
  <2> TAKE n \in Locked(s)
  <2>1. /\ s.byName[n].token \in DOMAIN LocksOf(s)
        /\ LocksOf(s)[s.byName[n].token] = LockIn(s, n)
    BY TokenNode DEF LocksOf
  <2> QED
    BY <2>1 DEF LockIn
<1>4. \A t \in DOMAIN LocksOf(s) : \E n \in Locked(s) :
        LocksOf(s)[t].root = n /\ LocksOf(s)[t].zeroDepth = s.byName[n].zeroDepth
  BY TokenNode DEF LocksOf, LockIn
<1>5. \A k : LS!Conflict(k, lock)
               <=> \/ name = k.root
                   \/ ~k.zeroDepth /\ Below(name, k.root)
                   \/ ~z /\ Below(k.root, name)
  BY DEF LS!Conflict, LS!Protects, LS!Below, LS!WalkToRoot, Below, WalkToRoot
<1>6. ASSUME CanCreate(s, name, z), NEW n \in Locked(s)
      PROVE  /\ name # n
             /\ s.byName[n].zeroDepth \/ ~Below(name, n)
             /\ z \/ ~Below(n, name)
  BY <1>1, <1>2, <1>6 DEF CanCreate, Locked, Below
<1>7. ASSUME \A n \in Locked(s) : /\ name # n
                                  /\ s.byName[n].zeroDepth \/ ~Below(name, n)
                                  /\ z \/ ~Below(n, name),
             NEW n \in WalkToRoot(name) \cap DOMAIN s.byName
      PROVE  IF n = name THEN s.byName[n].token = NoToken /\ z
                         ELSE s.byName[n].token # NoToken => s.byName[n].zeroDepth
  <2>1. CASE n = name
    <3>1. LockedBelow(s, name) # {}
      BY <1>1, <2>1, FS_EmptySet
    <3>2. PICK l \in Locked(s) : name \in WalkToRoot(l)
      BY <3>1 DEF LockedBelow
    <3>3. Below(l, name)
      BY <1>7, <3>2 DEF Below
    <3>4. z
      BY <1>7, <3>2, <3>3
    <3> QED
      BY <1>7, <2>1, <3>4 DEF Locked
  <2>2. CASE n # name
    BY <1>7, <2>2 DEF Locked, Below
  <2> QED
    BY <2>1, <2>2
<1>8. CanCreate(s, name, z)
        <=> \A n \in Locked(s) : /\ name # n
                                 /\ s.byName[n].zeroDepth \/ ~Below(name, n)
                                 /\ z \/ ~Below(n, name)
  BY <1>6, <1>7 DEF CanCreate
<1> QED
  BY <1>3, <1>4, <1>5, <1>8

\* lookup finds the node of the claim: its token is free and it covers name.
LEMMA LookupIsClaim ==
  ASSUME IInv, NEW now, NEW s, s = CollectExpiredNodes(m, now),
         NEW name, NEW conditions
  PROVE  { s.byName[n].token : n \in Lookup(s, name, conditions) }
           = LS!Claim(LocksOf(s), name, conditions)
<1>1. Good(s)
  BY CollectGood DEF IInv
<1>2. \A t \in DOMAIN s.byToken :
        /\ s.byName[s.byToken[t]].token = t
        /\ LS!Free(t) <=> ~s.byName[s.byToken[t]].held
        /\ LS!Protects(LocksOf(s)[t], name) <=> Covers(s, s.byToken[t], name)
  <2> TAKE t \in DOMAIN s.byToken
  <2>1. LS!Free(t) <=> ~s.byName[s.byToken[t]].held
    BY FreeInCollected
  <2>2. LS!Protects(LocksOf(s)[t], name) <=> Covers(s, s.byToken[t], name)
    BY DEF LS!Protects, Covers, LocksOf, LockIn, LS!Below, LS!WalkToRoot, Below, WalkToRoot
  <2> QED
    BY <1>1, <2>1, <2>2, TokenNode
<1>3. \A t : t \in LS!Claim(LocksOf(s), name, conditions)
               <=> /\ t \in conditions \cap DOMAIN s.byToken
                   /\ ~s.byName[s.byToken[t]].held
                   /\ Covers(s, s.byToken[t], name)
  BY <1>2 DEF LS!Claim, LocksOf
<1> QED
  BY <1>2, <1>3 DEF Lookup

-----------------------------------------------------------------------------
(* What the methods do to the locks.                                       *)

\* hold changes no lock, and no token.
LEMMA HoldLocks ==
  ASSUME NEW s, Good(s), NEW N \in SUBSET (Locked(s) \ Held(s)), NEW r, r = Hold(s, N)
  PROVE  /\ LocksOf(r) = LocksOf(s)
         /\ \A n \in Locked(s) : r.byName[n].token = s.byName[n].token
<1>1. /\ r.byToken = s.byToken
      /\ \A x \in DOMAIN s.byName :
           /\ r.byName[x].token     = s.byName[x].token
           /\ r.byName[x].zeroDepth = s.byName[x].zeroDepth
           /\ r.byName[x].duration  = s.byName[x].duration
           /\ r.byName[x].expiry    = s.byName[x].expiry
  BY DEF Hold, Good, IsStruct, Node
<1>2. \A t \in DOMAIN s.byToken : s.byToken[t] \in DOMAIN s.byName
  BY TokenNode
<1> QED
  BY <1>1, <1>2 DEF LocksOf, LockIn, Locked

\* unhold changes no lock.
LEMMA UnholdLocks ==
  ASSUME NEW s, Good(s), NEW N \in SUBSET Held(s), NEW r, r = Unhold(s, N)
  PROVE  LocksOf(r) = LocksOf(s)
<1>1. /\ r.byToken = s.byToken
      /\ \A x \in DOMAIN s.byName :
           /\ r.byName[x].zeroDepth = s.byName[x].zeroDepth
           /\ r.byName[x].duration  = s.byName[x].duration
           /\ r.byName[x].expiry    = s.byName[x].expiry
  BY DEF Unhold, Good, IsStruct, Node
<1>2. \A t \in DOMAIN s.byToken : s.byToken[t] \in DOMAIN s.byName
  BY TokenNode
<1> QED
  BY <1>1, <1>2 DEF LocksOf, LockIn

\* Unlock takes one lock away.
LEMMA RemoveLocks ==
  ASSUME NEW s, Good(s), NEW t \in DOMAIN s.byToken, s.byToken[t] \notin Held(s),
         NEW r, r = Remove(s, {s.byToken[t]})
  PROVE  LocksOf(r) = [u \in DOMAIN LocksOf(s) \ {t} |-> LocksOf(s)[u]]
<1> DEFINE N == {s.byToken[t]}
<1>1. N \in SUBSET (Locked(s) \ Held(s)) /\ N \in SUBSET Locked(s)
  BY TokenNode
<1>2. /\ DOMAIN r.byToken = { u \in DOMAIN s.byToken : s.byToken[u] \notin N }
      /\ \A u \in DOMAIN r.byToken : r.byToken[u] = s.byToken[u]
  BY <1>1, RemoveFields
<1>3. DOMAIN r.byToken = DOMAIN s.byToken \ {t}
  BY <1>2, TokenNode
<1>4. Good(r) /\ \A n \in Locked(r) : SameLock(s, r, n)
  BY <1>1, RemoveGood
<1>5. \A u \in DOMAIN r.byToken : LockIn(r, r.byToken[u]) = LockIn(s, s.byToken[u])
  <2> TAKE u \in DOMAIN r.byToken
  <2>1. SameLock(s, r, r.byToken[u])
    BY <1>4, TokenNode
  <2> QED
    BY <1>2, <2>1 DEF LockIn, SameLock
<1> QED
  BY <1>3, <1>5 DEF LocksOf

\* Create adds one lock, under a token that no lock has.
LEMMA InsertLocks ==
  ASSUME NEW s, Good(s), NEW name \in Name, NEW z \in BOOLEAN,
         NEW d \in Duration, NEW now \in Int,
         s.gen < MaxGen, CanCreate(s, name, z),
         NEW r, r = Insert(s, name, z, d, now)
  PROVE  \E t \in Token \ DOMAIN LocksOf(s) :
           LocksOf(r) = [u \in DOMAIN LocksOf(s) \cup {t} |->
                           IF u = t THEN [root |-> name, zeroDepth |-> z, duration |-> d,
                                          expiry |-> LS!Expiry(d, now)]
                                    ELSE LocksOf(s)[u]]
<1>1. name \notin Locked(s)
  BY WalkFacts DEF CanCreate, Locked
<1>0. Inserted(s, r, name, z, d, now)
  BY <1>1, InsertFields
<1>2. /\ r.gen = s.gen + 1
      /\ DOMAIN r.byToken = DOMAIN s.byToken \cup {r.gen}
      /\ \A t \in DOMAIN r.byToken :
           r.byToken[t] = IF t = r.gen THEN name ELSE s.byToken[t]
      /\ r.byName[name].zeroDepth = z
      /\ r.byName[name].duration = d
      /\ d >= 0 => r.byName[name].expiry = now + d
      /\ \A x \in DOMAIN s.byName : x # name => SameLock(s, r, x)
  BY <1>0 DEF Inserted
<1>3. r.gen \in Token \ DOMAIN s.byToken
  <2>1. s.gen \in Nat /\ MaxGen \in Nat
    BY MemLSAssumption DEF Good, IsStruct
  <2>2. \A t \in DOMAIN s.byToken : t <= s.gen
    BY TokenNode DEF Good, Indexed
  <2> QED
    BY <1>2, <2>1, <2>2 DEF Token
<1>4. LockIn(r, name) = [root |-> name, zeroDepth |-> z, duration |-> d,
                         expiry |-> LS!Expiry(d, now)]
  BY <1>2 DEF LockIn, LS!Expiry
<1>5. \A u \in DOMAIN s.byToken : r.byToken[u] = s.byToken[u]
                                  /\ LockIn(r, s.byToken[u]) = LockIn(s, s.byToken[u])
  <2> TAKE u \in DOMAIN s.byToken
  <2>1. SameLock(s, r, s.byToken[u])
    BY <1>1, <1>2, TokenNode
  <2> QED
    BY <1>2, <1>3, <2>1 DEF LockIn, SameLock
<1>6. LocksOf(r) = [u \in DOMAIN LocksOf(s) \cup {r.gen} |->
                      IF u = r.gen THEN LockIn(r, name) ELSE LocksOf(s)[u]]
  BY <1>2, <1>3, <1>5 DEF LocksOf
<1> QED
  BY <1>3, <1>4, <1>6 DEF LocksOf

\* A record with two of its four fields replaced.
LEMMA LockUpdate ==
  ASSUME NEW root, NEW z, NEW d, NEW e, NEW d2, NEW e2,
         NEW k, k = [root |-> root, zeroDepth |-> z, duration |-> d, expiry |-> e],
         NEW l, l = [k EXCEPT !.duration = d2, !.expiry = e2]
  PROVE  l = [root |-> root, zeroDepth |-> z, duration |-> d2, expiry |-> e2]
OBVIOUS

\* Refresh gives one lock its new timeout.
LEMMA RestartLocks ==
  ASSUME NEW s, Good(s), NEW t \in DOMAIN s.byToken, NEW d \in Duration, NEW now \in Int,
         NEW r, r = Restart(s, s.byToken[t], d, now)
  PROVE  LocksOf(r) = [LocksOf(s) EXCEPT ![t].duration = d,
                                         ![t].expiry = LS!Expiry(d, now)]
<1> DEFINE n == s.byToken[t]
<1>1. n \in DOMAIN s.byName /\ s.byName[n] \in Node /\ d \in Int
  BY TokenNode, MemLSAssumption DEF Good, IsStruct
<1>2. /\ r.byToken = s.byToken
      /\ \A x \in DOMAIN s.byName : x # n => r.byName[x] = s.byName[x]
      /\ r.byName[n].zeroDepth = s.byName[n].zeroDepth
      /\ r.byName[n].duration = d
      /\ d >= 0 => r.byName[n].expiry = now + d
  BY <1>1 DEF Restart, Good, IsStruct, Node
<1>3. \A u \in DOMAIN s.byToken : u # t =>
        s.byToken[u] # n /\ LockIn(r, s.byToken[u]) = LockIn(s, s.byToken[u])
  BY <1>2, TokenNode DEF LockIn
<1>4. LockIn(r, n) = [LockIn(s, n) EXCEPT !.duration = d, !.expiry = LS!Expiry(d, now)]
  <2> SUFFICES ASSUME NEW k, k = LockIn(s, n),
                      NEW l, l = [k EXCEPT !.duration = d, !.expiry = LS!Expiry(d, now)]
               PROVE  LockIn(r, n) = l
    OBVIOUS
  <2> HIDE DEF n
  <2>1. LockIn(r, n) = [root |-> n, zeroDepth |-> s.byName[n].zeroDepth, duration |-> d,
                        expiry |-> LS!Expiry(d, now)]
    <3>1. LockIn(r, n) = [root |-> n, zeroDepth |-> s.byName[n].zeroDepth, duration |-> d,
                          expiry |-> IF d >= 0 THEN r.byName[n].expiry ELSE 0]
      BY <1>2 DEF LockIn
    <3>2. d >= 0 => r.byName[n].expiry = now + d
      BY <1>2
    <3> QED
      BY <3>1, <3>2 DEF LS!Expiry
  <2>2. l = [root |-> n, zeroDepth |-> s.byName[n].zeroDepth, duration |-> d,
             expiry |-> LS!Expiry(d, now)]
    BY LockUpdate DEF LockIn
  <2> QED
    BY <2>1, <2>2
<1> HIDE DEF n
<1>5. LocksOf(r) = [u \in DOMAIN LocksOf(s) |->
                      IF u = t THEN [LocksOf(s)[t] EXCEPT !.duration = d,
                                                          !.expiry = LS!Expiry(d, now)]
                               ELSE LocksOf(s)[u]]
  BY <1>2, <1>3, <1>4 DEF LocksOf, n
<1> QED
  BY <1>5 DEF LocksOf

-----------------------------------------------------------------------------
(* The steps.                                                              *)

\* A step that keeps the claims and their nodes keeps the holds.
LEMMA HoldsKept ==
  ASSUME claims' = claims, Stays
  PROVE  AbsHolds' = AbsHolds
<1>1. \A c \in Caller : \A n \in claims[c] : m'.byName[n].token = m.byName[n].token
  BY DEF Stays, SameLock
<1>2. \A c \in Caller : { m'.byName[n].token : n \in claims'[c] }
                          = { m.byName[n].token : n \in claims[c] }
  BY <1>1
<1> QED
  BY <1>2 DEF AbsHolds

\* Create of the struct is Create of the locks.
LEMMA CreateImplements ==
  ASSUME IInv, NEW root \in Name, NEW z \in BOOLEAN, NEW d \in Duration,
         NEW now \in Now, Create(root, z, d, now)
  PROVE  LS!Create(root, z, d, now)
<1> DEFINE s == CollectExpiredNodes(m, now)
           ls == LocksOf(s)
           lock == [root |-> root, zeroDepth |-> z, duration |-> d,
                    expiry |-> LS!Expiry(d, now)]
<1>1. Good(s) /\ LS!Live(now) = ls
  BY CollectGood, CollectIsLive DEF IInv
<1>2. now \in Int
  BY MemLSAssumption DEF Now, IInv, TypeOK
<1>3. AbsHolds' = AbsHolds /\ clock' = clock
  BY CreateStep, HoldsKept DEF Create
<1>4. s.gen < MaxGen
  BY DEF Create
<1>5. AbsLocks' = LocksOf(m')
  BY AbsLocksOf
<1>6. CanCreate(s, root, z) <=> \A t \in DOMAIN ls : ~LS!Conflict(ls[t], lock)
  BY <1>1, CanCreateIsNoConflict
<1>7. /\ CanCreate(s, root, z) => /\ m' = Insert(s, root, z, d, now)
                                  /\ LS!Return("Create", "nil")
      /\ ~CanCreate(s, root, z) => m' = s /\ LS!Return("Create", "ErrLocked")
  BY DEF Create, Return, LS!Return
<1> HIDE DEF s
<1>8. CASE CanCreate(s, root, z)
  <2>1. \E t \in Token \ DOMAIN ls :
          AbsLocks' = [u \in DOMAIN ls \cup {t} |-> IF u = t THEN lock ELSE ls[u]]
    BY <1>1, <1>2, <1>4, <1>5, <1>7, <1>8, InsertLocks
  <2> HIDE DEF ls
  <2> QED
    BY <1>1, <1>3, <1>6, <1>7, <1>8, <2>1 DEF LS!Create
<1>9. CASE ~CanCreate(s, root, z)
  <2>1. AbsLocks' = ls
    BY <1>5, <1>7, <1>9
  <2> HIDE DEF ls
  <2> QED
    BY <1>1, <1>3, <1>6, <1>7, <1>9, <2>1 DEF LS!Create
<1> QED
  BY <1>8, <1>9

\* Confirm of the struct claims tokens of free locks for its names.
LEMMA ConfirmImplements ==
  ASSUME IInv, NEW c \in Caller, NEW name0 \in Name \cup {NoName},
         NEW name1 \in Name \cup {NoName}, NEW conditions, NEW now \in Now,
         Confirm(c, name0, name1, conditions, now)
  PROVE  LS!Confirm(c, {name0, name1} \ {NoName}, conditions, now)
<1> DEFINE s == CollectExpiredNodes(m, now)
           ls == LS!Live(now)
           found(name) == IF name = NoName THEN {} ELSE Lookup(s, name, conditions)
           fails(name) == name # NoName /\ found(name) = {}
           N == found(name0) \cup found(name1)
           named == {name0, name1} \ {NoName}
           tokens(S) == { s.byName[n].token : n \in S }
           claim(name) == LS!Claim(ls, name, conditions)
<1>1. Good(s) /\ ls = LocksOf(s) /\ Held(s) = Held(m)
  BY CollectGood, CollectIsLive DEF IInv
<1>2. /\ clock' = clock /\ claims[c] = {} /\ AbsHolds[c] = {}
  BY DEF Confirm, AbsHolds
<1>3. AbsLocks' = LocksOf(m')
  BY AbsLocksOf
<1>4. \A name \in named : found(name) = Lookup(s, name, conditions)
                          /\ tokens(found(name)) = claim(name)
  <2> TAKE name \in named
  <2>1. tokens(Lookup(s, name, conditions)) = claim(name)
    BY <1>1, LookupIsClaim
  <2> QED
    BY <2>1
<1>5. \A name : name \notin {NoName} => found(name) = Lookup(s, name, conditions)
  OBVIOUS
<1>6. N \in SUBSET (Locked(s) \ Held(s))
  BY <1>1, LookupLocked
<1>7. /\ fails(name0) \/ fails(name1) =>
           m' = s /\ claims' = claims /\ LS!Return("Confirm", "ErrConfirmationFailed")
      /\ ~(fails(name0) \/ fails(name1)) =>
           /\ m' = Hold(s, N) /\ claims' = [claims EXCEPT ![c] = N]
           /\ LS!Return("Confirm", "nil")
  BY DEF Confirm, Return, LS!Return
<1>8. fails(name0) \/ fails(name1) <=> \E name \in named : claim(name) = {}
  <2>1. \A S : tokens(S) = {} <=> S = {}
    OBVIOUS
  <2>2. \A name \in named : claim(name) = {} <=> found(name) = {}
    BY <1>4, <2>1
  <2> QED
    BY <2>2
<1>9. Stays
  BY ConfirmStep
<1> HIDE DEF s, found
<1>10. CASE fails(name0) \/ fails(name1)
  <2>1. AbsLocks' = ls /\ AbsHolds' = AbsHolds
    BY <1>1, <1>3, <1>7, <1>9, <1>10, HoldsKept
  <2>2. AbsHolds' = AbsHolds /\ LS!Return("Confirm", "ErrConfirmationFailed")
    BY <1>7, <1>10, <2>1
  <2>3. \E name \in named : claim(name) = {}
    BY <1>8, <1>10
  <2> QED
    BY <1>2, <2>1, <2>2, <2>3 DEF LS!Confirm
<1>11. CASE ~(fails(name0) \/ fails(name1))
  <2>1. m' = Hold(s, N) /\ claims' = [claims EXCEPT ![c] = N]
    BY <1>7, <1>11
  <2>2. AbsLocks' = ls /\ \A n \in Locked(s) : m'.byName[n].token = s.byName[n].token
    BY <1>1, <1>3, <1>6, <2>1, HoldLocks
  <2>3. N = UNION { found(name) : name \in named }
    BY DEF found
  <2>4. tokens(N) = UNION { claim(name) : name \in named }
    BY <1>4, <2>3
  <2>5. claims \in [Caller -> SUBSET Name]
    BY DEF IInv, TypeOK
  <2>6. { m'.byName[n].token : n \in claims'[c] } = tokens(N)
    BY <1>6, <2>1, <2>2, <2>5
  <2>7. \A e \in Caller \ {c} : { m'.byName[n].token : n \in claims'[e] } = AbsHolds[e]
    <3> TAKE e \in Caller \ {c}
    <3>1. claims'[e] = claims[e]
      BY <2>1, <2>5
    <3>2. \A n \in claims[e] : m'.byName[n].token = m.byName[n].token
      BY <1>9, <3>1 DEF Stays, SameLock
    <3> QED
      BY <3>1, <3>2 DEF AbsHolds
  <2>8. AbsHolds' = [AbsHolds EXCEPT ![c] = tokens(N)]
    BY <2>6, <2>7 DEF AbsHolds
  <2>9. /\ AbsHolds' = [AbsHolds EXCEPT ![c] = UNION { claim(name) : name \in named }]
        /\ LS!Return("Confirm", "nil")
    BY <1>7, <1>11, <2>4, <2>8
  <2>10. \A name \in named : claim(name) # {}
    BY <1>8, <1>11
  <2> QED
    BY <1>2, <2>2, <2>9, <2>10 DEF LS!Confirm
<1> QED
  BY <1>10, <1>11

\* The release frees the caller's tokens.
LEMMA ReleaseImplements ==
  ASSUME IInv, NEW c \in Caller, Release(c)
  PROVE  LS!Release(c)
<1>1. /\ m' = Unhold(m, claims[c]) /\ claims' = [claims EXCEPT ![c] = {}]
      /\ claims[c] # {} /\ clock' = clock
      /\ LS!Return("Release", "nil")
      /\ claims \in [Caller -> SUBSET Name] /\ Good(m)
  BY DEF Release, Return, LS!Return, IInv, TypeOK
<1>2. claims[c] \in SUBSET Held(m)
  BY DEF IInv, ClaimsAreHeld
<1>3. AbsLocks' = AbsLocks
  BY <1>1, <1>2, UnholdLocks, AbsLocksOf
<1>4. AbsHolds[c] # {}
  BY <1>1 DEF AbsHolds
<1>5. Stays
  BY ReleaseStep
<1>6. \A e \in Caller \ {c} : { m'.byName[n].token : n \in claims'[e] } = AbsHolds[e]
  <2> TAKE e \in Caller \ {c}
  <2>1. claims'[e] = claims[e]
    BY <1>1
  <2>2. \A n \in claims[e] : m'.byName[n].token = m.byName[n].token
    BY <1>5, <2>1 DEF Stays, SameLock
  <2> QED
    BY <2>1, <2>2 DEF AbsHolds
<1>7. { m'.byName[n].token : n \in claims'[c] } = {}
  BY <1>1
<1>8. AbsHolds' = [AbsHolds EXCEPT ![c] = {}]
  BY <1>6, <1>7 DEF AbsHolds
<1> QED
  BY <1>1, <1>3, <1>4, <1>8 DEF LS!Release

\* Refresh of the struct is Refresh of one lock.
LEMMA RefreshImplements ==
  ASSUME IInv, NEW token \in Token, NEW d \in Duration, NEW now \in Now,
         Refresh(token, d, now)
  PROVE  LS!Refresh(token, d, now)
<1> DEFINE s == CollectExpiredNodes(m, now)
           ls == LocksOf(s)
<1>1. Good(s) /\ LS!Live(now) = ls
  BY CollectGood, CollectIsLive DEF IInv
<1>2. now \in Int
  BY MemLSAssumption DEF Now, IInv, TypeOK
<1>3. AbsHolds' = AbsHolds /\ clock' = clock
  BY RefreshStep, HoldsKept DEF Refresh
<1>4. AbsLocks' = LocksOf(m')
  BY AbsLocksOf
<1>5. token \in DOMAIN s.byToken => (LS!Free(token) <=> ~s.byName[s.byToken[token]].held)
  BY FreeInCollected
<1>6. DOMAIN ls = DOMAIN s.byToken
  BY DEF LocksOf
<1>7. IF token \notin DOMAIN s.byToken
        THEN m' = s /\ LS!Return("Refresh", "ErrNoSuchLock")
      ELSE IF s.byName[s.byToken[token]].held
        THEN m' = s /\ LS!Return("Refresh", "ErrLocked")
      ELSE m' = Restart(s, s.byToken[token], d, now) /\ LS!Return("Refresh", "nil")
  BY DEF Refresh, Return, LS!Return
<1> HIDE DEF s
<1>8. CASE token \notin DOMAIN s.byToken
  <2>1. AbsLocks' = ls
    BY <1>4, <1>7, <1>8
  <2> HIDE DEF ls
  <2> QED
    BY <1>1, <1>3, <1>6, <1>7, <1>8, <2>1 DEF LS!Refresh
<1>9. CASE token \in DOMAIN s.byToken /\ s.byName[s.byToken[token]].held
  <2>1. AbsLocks' = ls
    BY <1>4, <1>7, <1>9
  <2> HIDE DEF ls
  <2> QED
    BY <1>1, <1>3, <1>5, <1>6, <1>7, <1>9, <2>1 DEF LS!Refresh
<1>10. CASE token \in DOMAIN s.byToken /\ ~s.byName[s.byToken[token]].held
  <2>1. AbsLocks' = [ls EXCEPT ![token].duration = d, ![token].expiry = LS!Expiry(d, now)]
    BY <1>1, <1>2, <1>4, <1>7, <1>10, RestartLocks
  <2> HIDE DEF ls
  <2> QED
    BY <1>1, <1>3, <1>5, <1>6, <1>7, <1>10, <2>1 DEF LS!Refresh
<1> QED
  BY <1>8, <1>9, <1>10

\* Unlock of the struct takes one lock away.
LEMMA UnlockImplements ==
  ASSUME IInv, NEW token \in Token, NEW now \in Now, Unlock(token, now)
  PROVE  LS!Unlock(token, now)
<1> DEFINE s == CollectExpiredNodes(m, now)
           ls == LocksOf(s)
<1>1. Good(s) /\ LS!Live(now) = ls
  BY CollectGood, CollectIsLive DEF IInv
<1>2. AbsHolds' = AbsHolds /\ clock' = clock
  BY UnlockStep, HoldsKept DEF Unlock
<1>3. AbsLocks' = LocksOf(m')
  BY AbsLocksOf
<1>4. token \in DOMAIN s.byToken => (LS!Free(token) <=> ~s.byName[s.byToken[token]].held)
  BY FreeInCollected
<1>5. DOMAIN ls = DOMAIN s.byToken
  BY DEF LocksOf
<1>6. IF token \notin DOMAIN s.byToken
        THEN m' = s /\ LS!Return("Unlock", "ErrNoSuchLock")
      ELSE IF s.byName[s.byToken[token]].held
        THEN m' = s /\ LS!Return("Unlock", "ErrLocked")
      ELSE m' = Remove(s, {s.byToken[token]}) /\ LS!Return("Unlock", "nil")
  BY DEF Unlock, Return, LS!Return
<1> HIDE DEF s
<1>7. CASE token \notin DOMAIN s.byToken
  <2>1. AbsLocks' = ls
    BY <1>3, <1>6, <1>7
  <2> HIDE DEF ls
  <2> QED
    BY <1>1, <1>2, <1>5, <1>6, <1>7, <2>1 DEF LS!Unlock
<1>8. CASE token \in DOMAIN s.byToken /\ s.byName[s.byToken[token]].held
  <2>1. AbsLocks' = ls
    BY <1>3, <1>6, <1>8
  <2> HIDE DEF ls
  <2> QED
    BY <1>1, <1>2, <1>4, <1>5, <1>6, <1>8, <2>1 DEF LS!Unlock
<1>9. CASE token \in DOMAIN s.byToken /\ ~s.byName[s.byToken[token]].held
  <2>1. s.byToken[token] \notin Held(s)
    BY <1>9 DEF Held
  <2>2. AbsLocks' = [t \in DOMAIN ls \ {token} |-> ls[t]]
    BY <1>1, <1>3, <1>6, <1>9, <2>1, RemoveLocks
  <2> HIDE DEF ls
  <2> QED
    BY <1>1, <1>2, <1>4, <1>5, <1>6, <1>9, <2>2 DEF LS!Unlock
<1> QED
  BY <1>7, <1>8, <1>9

-----------------------------------------------------------------------------
(* The theorems.                                                           *)

\* The initial struct has no locks.
LEMMA InitImplements == Init => LS!Init
<1> SUFFICES ASSUME Init PROVE LS!Init
  OBVIOUS
<1>1. DOMAIN m.byToken = {} /\ claims = [c \in Caller |-> {}]
  BY DEF Init
<1>2. AbsLocks = [t \in {} |-> LS!Root]
  BY <1>1 DEF AbsLocks
<1>3. AbsHolds = [c \in Caller |-> {}]
  BY <1>1 DEF AbsHolds
<1> QED
  BY <1>2, <1>3 DEF Init, LS!Init

\* Every step of memLS is a step of the lock system, or none.
LEMMA StepImplements ==
  ASSUME IInv, [Next]_vars
  PROVE  [LS!Next]_(LS!vars)
<1>1. ASSUME NEW root \in Name, NEW z \in BOOLEAN, NEW d \in Duration,
             NEW now \in Now, Create(root, z, d, now)
      PROVE  LS!Next
  <2>1. LS!Create(root, z, d, now)
    BY <1>1, CreateImplements
  <2> QED
    BY <2>1 DEF LS!Next, LS!Now, Now
<1>2. ASSUME NEW c \in Caller, NEW name0 \in Name \cup {NoName},
             NEW name1 \in Name \cup {NoName}, NEW conditions \in (SUBSET Token) \ {{}},
             NEW now \in Now, Confirm(c, name0, name1, conditions, now)
      PROVE  LS!Next
  <2>1. LS!Confirm(c, {name0, name1} \ {NoName}, conditions, now)
    BY <1>2, ConfirmImplements
  <2>2. {name0, name1} \ {NoName} \in LS!Named
    BY DEF LS!Named
  <2> QED
    BY <2>1, <2>2 DEF LS!Next, LS!Now, Now
<1>3. ASSUME NEW c \in Caller, Release(c)
      PROVE  LS!Next
  BY <1>3, ReleaseImplements DEF LS!Next
<1>4. ASSUME NEW token \in Token, NEW d \in Duration, NEW now \in Now,
             Refresh(token, d, now)
      PROVE  LS!Next
  <2>1. LS!Refresh(token, d, now)
    BY <1>4, RefreshImplements
  <2> QED
    BY <2>1 DEF LS!Next, LS!Now, Now
<1>5. ASSUME NEW token \in Token, NEW now \in Now, Unlock(token, now)
      PROVE  LS!Next
  <2>1. LS!Unlock(token, now)
    BY <1>5, UnlockImplements
  <2> QED
    BY <2>1 DEF LS!Next, LS!Now, Now
<1>6. ASSUME m' = m, claims' = claims
      PROVE  AbsLocks' = AbsLocks /\ AbsHolds' = AbsHolds
  BY <1>6 DEF AbsLocks, AbsLock, AbsHolds
<1>7. CASE Tick
  BY <1>6, <1>7 DEF Tick, LS!Next, LS!Tick
<1>8. CASE UNCHANGED vars
  BY <1>6, <1>8 DEF vars, LS!vars
<1> QED
  BY <1>1, <1>2, <1>3, <1>4, <1>5, <1>7, <1>8 DEF Next

\* Every behaviour of memLS is one of the lock system its interface describes:
\* the node table, the reference counts, the expiry heap and the held flags
\* answer every call as the set of locks would (lock.go:38-94).
THEOREM MemLSImplementsLockSystem == Spec => ImplementsLockSystem
<1>1. Init => LS!Init
  BY InitImplements
<1>2. IInv /\ [Next]_vars => [LS!Next]_(LS!vars)
  BY StepImplements
<1> QED
  BY <1>1, <1>2, LockTableInvariant, PTL DEF Spec, LS!Spec, ImplementsLockSystem

\* While a caller's claim is confirmed, no other lock protects a name the claim
\* protects and nobody else holds it (lock.go:39-42).
THEOREM ConfirmedAccessIsExclusive == Spec => []ExclusiveAccess
<1>1. IInv => ExclusiveAccess
  <2> SUFFICES ASSUME IInv, NEW c \in Caller, NEW d \in Caller,
                      NEW t \in AbsHolds[c], NEW u \in DOMAIN AbsLocks, NEW name \in Name,
                      LS!Protects(AbsLocks[t], name), LS!Protects(AbsLocks[u], name)
               PROVE  u = t /\ (u \in AbsHolds[d] => c = d)
    BY DEF ExclusiveAccess, LS!ExclusiveAccess
  <2>1. CoverUnique /\ Good(m)
    BY CoversOnce DEF IInv
  <2>2. /\ \A e, f \in Caller : e # f => claims[e] \cap claims[f] = {}
        /\ \A e \in Caller : claims[e] \subseteq Locked(m)
    BY DEF IInv, ClaimsAreHeld
  <2>3. PICK a \in claims[c] : m.byName[a].token = t
    BY DEF AbsHolds
  <2>4. a \in Locked(m) /\ t \in DOMAIN m.byToken /\ m.byToken[t] = a
    BY <2>1, <2>2, <2>3, TokenNode
  <2>5. \A v \in DOMAIN m.byToken :
          LS!Protects(AbsLocks[v], name) => Covers(m, m.byToken[v], name)
    BY DEF LS!Protects, Covers, AbsLocks, AbsLock, LS!Below, LS!WalkToRoot, Below, WalkToRoot
  <2>6. u \in DOMAIN m.byToken
    BY DEF AbsLocks
  <2>7. m.byToken[u] = a /\ u = t
    BY <2>1, <2>4, <2>5, <2>6, TokenNode DEF CoverUnique
  <2>8. ASSUME u \in AbsHolds[d]
        PROVE  c = d
    <3>1. PICK b \in claims[d] : m.byName[b].token = u
      BY <2>8 DEF AbsHolds
    <3>2. a = b
      BY <2>1, <2>2, <2>7, <3>1, TokenNode
    <3> QED
      BY <2>2, <3>1, <3>2
  <2> QED
    BY <2>7, <2>8
<1> QED
  BY <1>1, LockTableInvariant, PTL
=============================================================================
