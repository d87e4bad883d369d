------------------------------- MODULE MemLS -------------------------------
(***************************************************************************)
(* webdav/lock.go: memLS, the in-memory lock system the WebDAV handler     *)
(* takes its temporary locks from.  Every method runs under memLS.mu, so   *)
(* each is one action.  A node is identified by its details.Root: the      *)
(* pointers kept in byToken, byExpiry and in a Confirm's release closure   *)
(* are that name, and LocksIndexed and ClaimsAreHeld check that such a     *)
(* pointer never outlives its node.  container/heap is abstracted to the   *)
(* set of its members; its head is a member with the least expiry.         *)
(***************************************************************************)
EXTENDS Paths

CONSTANTS
  NoName,     \* the empty name "", which Confirm ignores
  Caller,     \* the goroutines that may be between a Confirm and its release
  Duration,   \* the LockDetails.Duration values asked for; -1 is infinite
  MaxGen,     \* bound: how many tokens are handed out
  MaxClock    \* bound: how often the clock ticks

ASSUME MemLSAssumption ==
  /\ IsFiniteSet(Name)
  /\ NoName \notin Name
  /\ Duration \subseteq Int
  /\ MaxGen \in Nat
  /\ MaxClock \in Nat

VARIABLES
  m,        \* the memLS struct: gen, byName, byToken, byExpiry
  claims,   \* the nodes each caller's release closure will unhold
  clock,    \* time.Now()
  ret       \* the method that returned last, and its error

vars == << m, claims, clock, ret >>

NoToken == 0        \* node.token = ""
Token   == 1 .. MaxGen

\* memLSNode.  expiry is meaningful only for a node with a finite Duration.
Node == [token : {NoToken} \cup Token, refCount : Nat, zeroDepth : BOOLEAN,
         duration : Int, expiry : Int, held : BOOLEAN]

FreshNode == [token |-> NoToken, refCount |-> 0, zeroDepth |-> FALSE,
              duration |-> 0, expiry |-> 0, held |-> FALSE]

\* The explicitly locked names of struct s.
Locked(s) == { n \in DOMAIN s.byName : s.byName[n].token # NoToken }

-----------------------------------------------------------------------------
(* The methods' bodies, as functions from struct to struct.                *)

\* Mutant: the reference counts of the ancestors are left alone.
Remove_SelfOnly(s, N) ==
  LET live == DOMAIN s.byName \ { n \in N : s.byName[n].refCount = 1 }
  IN  [s EXCEPT
        !.byName  = [x \in live |->
                      IF x \in N THEN [s.byName[x] EXCEPT !.token = NoToken,
                                                          !.refCount = @ - 1]
                                 ELSE s.byName[x]],
        !.byToken = [t \in { u \in DOMAIN s.byToken : s.byToken[u] \notin N }
                       |-> s.byToken[t]],
        !.byExpiry = @ \ N]

\* Mutant: the token of the removed lock stays in byToken.
Remove_KeepsToken(s, N) ==
  LET refs(x) == s.byName[x].refCount
                   - Cardinality({ n \in N : x \in WalkToRoot(n) })
      live    == { x \in DOMAIN s.byName : refs(x) # 0 }
  IN  [s EXCEPT
        !.byName   = [x \in live |->
                       [s.byName[x] EXCEPT !.refCount = refs(x),
                          !.token = IF x \in N THEN NoToken ELSE @]],
        !.byExpiry = @ \ N]

\* remove, applied to every node of N (N is one node, or the expired ones).
Remove(s, N) ==
  LET refs(x) == s.byName[x].refCount
                   - Cardinality({ n \in N : x \in WalkToRoot(n) })
      live    == { x \in DOMAIN s.byName : refs(x) # 0 }
  IN  [s EXCEPT
        !.byName  = [x \in live |->
                      [s.byName[x] EXCEPT !.refCount = refs(x),
                         !.token = IF x \in N THEN NoToken ELSE @]],
        !.byToken = [t \in { u \in DOMAIN s.byToken : s.byToken[u] \notin N }
                       |-> s.byToken[t]],
        !.byExpiry = @ \ N]

\* collectExpiredNodes: the loop removes the head while it is not after now.
Expired(s, now) == { n \in s.byExpiry : s.byName[n].expiry <= now }
CollectExpiredNodes(s, now) == Remove(s, Expired(s, now))

\* Mutant: the ancestors' infinite-depth locks are not looked at.
CanCreate_SelfOnly(s, name, zeroDepth) ==
  name \in DOMAIN s.byName => s.byName[name].token = NoToken /\ zeroDepth

\* canCreate: name is not locked; when the new lock is infinite, nothing
\* below name is; and no ancestor has an infinite-depth lock.
CanCreate(s, name, zeroDepth) ==
  \A n \in WalkToRoot(name) \cap DOMAIN s.byName :
     IF n = name
       THEN s.byName[n].token = NoToken /\ zeroDepth
       ELSE s.byName[n].token # NoToken => s.byName[n].zeroDepth

\* Mutant: the generator is read before it is incremented.
NextToken_Stale(s) == s.gen

\* nextToken.
NextToken(s) == s.gen + 1

\* create and the rest of Create: count the lock on name and its ancestors,
\* hand out the next token, and queue a lock that will expire.
Insert(s, name, zeroDepth, duration, now) ==
  LET up     == WalkToRoot(name)
      old(x) == IF x \in DOMAIN s.byName THEN s.byName[x] ELSE FreshNode
      token  == NextToken(s)
      locked == [old(name) EXCEPT
                   !.refCount  = @ + 1,
                   !.token     = token,
                   !.zeroDepth = zeroDepth,
                   !.duration  = duration,
                   !.expiry    = IF duration >= 0 THEN now + duration ELSE @]
  IN  [gen      |-> token,
       byName   |-> [x \in DOMAIN s.byName \cup up |->
                       IF x = name THEN locked
                       ELSE IF x \in up THEN [old(x) EXCEPT !.refCount = @ + 1]
                       ELSE s.byName[x]],
       byToken  |-> [t \in DOMAIN s.byToken \cup {token} |->
                       IF t = token THEN name ELSE s.byToken[t]],
       byExpiry |-> IF duration >= 0 THEN s.byExpiry \cup {name}
                                     ELSE s.byExpiry]

\* Does the lock of node n of s protect name?
Covers(s, n, name) == n = name \/ (~s.byName[n].zeroDepth /\ Below(name, n))

\* Mutant: a lock another party holds is claimed again.
Lookup_IgnoresHeld(s, name, conditions) ==
  { s.byToken[t] : t \in { u \in conditions \cap DOMAIN s.byToken :
                             Covers(s, s.byToken[u], name) } }

\* lookup: the node that locks name, among those the conditions give a token
\* of, as a set of at most one node (NoConflictingLocks).  Condition.Not and
\* Condition.ETag are not looked at, so a condition is its token.
Lookup(s, name, conditions) ==
  { s.byToken[t] : t \in { u \in conditions \cap DOMAIN s.byToken :
                             /\ ~s.byName[s.byToken[u]].held
                             /\ Covers(s, s.byToken[u], name) } }

\* hold: a held node leaves the expiry heap.
Hold(s, N) ==
  [s EXCEPT !.byName   = [x \in DOMAIN @ |-> IF x \in N
                            THEN [@[x] EXCEPT !.held = TRUE] ELSE @[x]],
            !.byExpiry = @ \ N]

\* Mutant: a released node does not go back to the expiry heap.
Unhold_NoRequeue(s, N) ==
  [s EXCEPT !.byName = [x \in DOMAIN @ |-> IF x \in N
                          THEN [@[x] EXCEPT !.held = FALSE] ELSE @[x]]]

\* unhold: a released node that can expire goes back to the heap.
Unhold(s, N) ==
  [s EXCEPT !.byName   = [x \in DOMAIN @ |-> IF x \in N
                            THEN [@[x] EXCEPT !.held = FALSE] ELSE @[x]],
            !.byExpiry = @ \cup { n \in N : s.byName[n].duration >= 0 }]

\* The rest of Refresh: the node's timeout starts again, from now.
Restart(s, n, duration, now) ==
  [s EXCEPT !.byName[n].duration = duration,
            !.byName[n].expiry   = IF duration >= 0 THEN now + duration ELSE @,
            !.byExpiry = IF duration >= 0 THEN @ \cup {n} ELSE @ \ {n}]

-----------------------------------------------------------------------------
(* The methods.  now is read before memLS.mu is taken, and a release       *)
(* passes on the now of the request's start: any earlier time is possible. *)

Now == 0 .. clock

Return(op, err) == ret' = [op |-> op, err |-> err]

Init ==
  /\ m = [gen      |-> 0,
          byName   |-> [n \in {} |-> FreshNode],
          byToken  |-> [t \in {} |-> Root],
          byExpiry |-> {}]
  /\ claims = [c \in Caller |-> {}]
  /\ clock = 0
  /\ ret = [op |-> "none", err |-> "nil"]

Create(root, zeroDepth, duration, now) ==
  LET s == CollectExpiredNodes(m, now)
  IN  /\ s.gen < MaxGen
      /\ IF CanCreate(s, root, zeroDepth)
           THEN /\ m' = Insert(s, root, zeroDepth, duration, now)
                /\ Return("Create", "nil")
           ELSE /\ m' = s
                /\ Return("Create", "ErrLocked")
      /\ UNCHANGED << claims, clock >>

\* The release function Confirm returns is c's to call: Release below.
Confirm(c, name0, name1, conditions, now) ==
  LET s     == CollectExpiredNodes(m, now)
      found(name) == IF name = NoName THEN {} ELSE Lookup(s, name, conditions)
      fails(name) == name # NoName /\ found(name) = {}
  IN  /\ claims[c] = {}
      /\ IF fails(name0) \/ fails(name1)
           THEN /\ m' = s
                /\ Return("Confirm", "ErrConfirmationFailed")
                /\ UNCHANGED claims
           ELSE /\ m' = Hold(s, found(name0) \cup found(name1))
                /\ Return("Confirm", "nil")
                /\ claims' = [claims EXCEPT ![c] = found(name0) \cup found(name1)]
      /\ UNCHANGED clock

Release(c) ==
  /\ claims[c] # {}
  /\ m' = Unhold(m, claims[c])
  /\ claims' = [claims EXCEPT ![c] = {}]
  /\ Return("Release", "nil")
  /\ UNCHANGED clock

\* Mutant: Refresh does not ask whether the lock is held.
Refresh_IgnoresHeld(token, duration, now) ==
  LET s == CollectExpiredNodes(m, now)
      n == s.byToken[token]
  IN  /\ IF token \notin DOMAIN s.byToken
           THEN m' = s /\ Return("Refresh", "ErrNoSuchLock")
         ELSE m' = Restart(s, n, duration, now) /\ Return("Refresh", "nil")
      /\ UNCHANGED << claims, clock >>

Refresh(token, duration, now) ==
  LET s == CollectExpiredNodes(m, now)
      n == s.byToken[token]
  IN  /\ IF token \notin DOMAIN s.byToken
           THEN m' = s /\ Return("Refresh", "ErrNoSuchLock")
         ELSE IF s.byName[n].held
           THEN m' = s /\ Return("Refresh", "ErrLocked")
         ELSE m' = Restart(s, n, duration, now) /\ Return("Refresh", "nil")
      /\ UNCHANGED << claims, clock >>

\* Mutant: Unlock does not ask whether the lock is held.
Unlock_IgnoresHeld(token, now) ==
  LET s == CollectExpiredNodes(m, now)
  IN  /\ IF token \notin DOMAIN s.byToken
           THEN m' = s /\ Return("Unlock", "ErrNoSuchLock")
           ELSE m' = Remove(s, {s.byToken[token]}) /\ Return("Unlock", "nil")
      /\ UNCHANGED << claims, clock >>

Unlock(token, now) ==
  LET s == CollectExpiredNodes(m, now)
  IN  /\ IF token \notin DOMAIN s.byToken
           THEN m' = s /\ Return("Unlock", "ErrNoSuchLock")
         ELSE IF s.byName[s.byToken[token]].held
           THEN m' = s /\ Return("Unlock", "ErrLocked")
         ELSE m' = Remove(s, {s.byToken[token]}) /\ Return("Unlock", "nil")
      /\ UNCHANGED << claims, clock >>

Tick ==
  /\ clock < MaxClock
  /\ clock' = clock + 1
  /\ UNCHANGED << m, claims, ret >>

Next ==
  \/ \E root \in Name, z \in BOOLEAN, d \in Duration, now \in Now :
        Create(root, z, d, now)
  \/ \E c \in Caller, name0, name1 \in Name \cup {NoName},
        conditions \in (SUBSET Token) \ {{}}, now \in Now :
        Confirm(c, name0, name1, conditions, now)
  \/ \E c \in Caller : Release(c)
  \/ \E token \in Token, d \in Duration, now \in Now : Refresh(token, d, now)
  \/ \E token \in Token, now \in Now : Unlock(token, now)
  \/ Tick

Spec == Init /\ [][Next]_vars

-----------------------------------------------------------------------------
(* Properties.  The parts that speak of the struct take it as a parameter: *)
(* the methods work on it in two stages, collectExpiredNodes first.        *)

IsStruct(s) ==
  /\ s = [gen |-> s.gen, byName |-> s.byName, byToken |-> s.byToken,
          byExpiry |-> s.byExpiry]
  /\ s.gen \in 0 .. MaxGen
  /\ DOMAIN s.byName \subseteq Name
  /\ s.byName \in [DOMAIN s.byName -> Node]
  /\ DOMAIN s.byToken \subseteq Token
  /\ s.byToken \in [DOMAIN s.byToken -> Name]
  /\ s.byExpiry \subseteq Name

Held(s) == { n \in DOMAIN s.byName : s.byName[n].held }

LockedBelow(s, n) == { l \in Locked(s) : n \in WalkToRoot(l) }

RefsExact(s) ==
  /\ \A n \in DOMAIN s.byName :
        /\ s.byName[n].refCount = Cardinality(LockedBelow(s, n))
        /\ s.byName[n].refCount # 0
  /\ \A l \in Locked(s) : WalkToRoot(l) \subseteq DOMAIN s.byName

Indexed(s) ==
  /\ \A t \in DOMAIN s.byToken :
        s.byToken[t] \in Locked(s) /\ s.byName[s.byToken[t]].token = t
  /\ \A n \in Locked(s) :
        /\ s.byName[n].token \in DOMAIN s.byToken
        /\ s.byName[n].token <= s.gen
        /\ s.byToken[s.byName[n].token] = n

QueueExact(s) ==
  s.byExpiry = { n \in Locked(s) : s.byName[n].duration >= 0
                                     /\ ~s.byName[n].held }

ConflictFree(s) == \A a, b \in Locked(s) : a # b => ~Covers(s, a, b)

\* The types of the struct, the claims, the clock and the results.
TypeOK ==
  /\ IsStruct(m)
  /\ claims \in [Caller -> SUBSET Name]
  /\ clock \in 0 .. MaxClock
  /\ ret \in [op  : {"none", "Create", "Confirm", "Release", "Refresh", "Unlock"},
              err : {"nil", "ErrLocked", "ErrConfirmationFailed", "ErrNoSuchLock"}]

\* memLSNode.refCount "is the number of self-or-descendent nodes that are
\* explicitly locked" (lock.go:375), and a name has a node exactly while that
\* number is not zero: what canCreate relies on when it takes the presence of
\* a node for the presence of a lock below it.
RefCountExact == RefsExact(m)

\* byToken and the nodes' tokens are inverse to each other, and no token is
\* ahead of the generator: a token names one lock, and never a second one.
LocksIndexed == Indexed(m)

\* The expiry heap holds exactly the locks with a finite duration that no
\* Confirm holds (lock.go:128-129, 217, 227): none is lost, so none outlives
\* its timeout for ever, and none is held and collected at the same time.
ExpiryQueueExact == QueueExact(m)

\* Two locks never protect the same name: an infinite-depth lock has no lock
\* below it and two locks have different roots (lock.go:291-313); so lookup's
\* answer does not depend on the order of the conditions it is given
\* (lock.go:192-210).
NoConflictingLocks == ConflictFree(m)

\* What is held is what some caller's outstanding release will unhold, and no
\* two callers claim the same lock (lock.go:46-48): so no release and no hold
\* panics with "inconsistent held state" (lock.go:213-215, 223-225).
ClaimsAreHeld ==
  /\ Held(m) = UNION { claims[c] : c \in Caller }
  /\ Held(m) \subseteq Locked(m)
  /\ \A c, d \in Caller : c # d => claims[c] \cap claims[d] = {}

\* A lock a caller has confirmed keeps its token, its depth and its timeout
\* until that caller releases it, whoever refreshes, unlocks or waits for it
\* to expire meanwhile (lock.go:44-48).
ConfirmedLockStays ==
  [][\A c \in Caller : \A n \in claims[c] : n \in claims'[c] =>
        /\ n \in DOMAIN m'.byName
        /\ m'.byName[n].token     = m.byName[n].token
        /\ m'.byName[n].zeroDepth = m.byName[n].zeroDepth
        /\ m'.byName[n].duration  = m.byName[n].duration
        /\ m'.byName[n].expiry    = m.byName[n].expiry]_vars
=============================================================================
