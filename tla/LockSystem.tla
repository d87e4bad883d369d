----------------------------- MODULE LockSystem -----------------------------
(***************************************************************************)
(* webdav/lock.go: what the LockSystem interface promises the handler that *)
(* uses it.  The locks are a function from tokens; there are no nodes, no  *)
(* reference counts and no expiry heap, and a request is judged by the     *)
(* locks themselves.  MemLS is shown to implement this specification       *)
(* (MemLSRefinement), and DavHandler is built on it.                       *)
(***************************************************************************)
EXTENDS Paths

CONSTANTS
  Token,      \* the tokens of locks
  NoName,     \* the empty name "", which Confirm ignores
  Caller,     \* the goroutines that may be between a Confirm and its release
  Duration,   \* the durations asked for; -1 is infinite
  MaxClock    \* bound: how often the clock ticks

VARIABLES
  locks,    \* the locks that are not unlocked and not collected, by token
  holds,    \* the tokens of the locks each caller has confirmed
  clock,    \* time.Now()
  ret       \* the method that returned last, and its error

vars == << locks, holds, clock, ret >>

\* LockDetails, with the time the lock expires (0 when it never does).
Lock == [root : Name, zeroDepth : BOOLEAN, duration : Int, expiry : Int]

Expiry(duration, now) == IF duration >= 0 THEN now + duration ELSE 0

Free(t) == \A c \in Caller : t \notin holds[c]

\* The locks that are left when those due at now have expired.  A lock a
\* caller holds does not expire.
Live(now) ==
  LET due == { t \in DOMAIN locks : /\ locks[t].duration >= 0
                                    /\ locks[t].expiry <= now
                                    /\ Free(t) }
  IN  [t \in DOMAIN locks \ due |-> locks[t]]

\* Does lock l protect name?
Protects(l, name) == name = l.root \/ (~l.zeroDepth /\ Below(name, l.root))

\* Two locks conflict when one protects the other's root.
Conflict(k, l) == Protects(k, l.root) \/ Protects(l, k.root)

Now == 0 .. clock

Return(op, err) == ret' = [op |-> op, err |-> err]

Init ==
  /\ locks = [t \in {} |-> Root]
  /\ holds = [c \in Caller |-> {}]
  /\ clock = 0
  /\ ret = [op |-> "none", err |-> "nil"]

-----------------------------------------------------------------------------
(* The methods.                                                            *)

Create(root, zeroDepth, duration, now) ==
  LET ls   == Live(now)
      lock == [root |-> root, zeroDepth |-> zeroDepth, duration |-> duration,
               expiry |-> Expiry(duration, now)]
  IN  /\ \/ /\ Return("Create", "ErrLocked")
            /\ \E t \in DOMAIN ls : Conflict(ls[t], lock)
            /\ locks' = ls
         \/ /\ Return("Create", "nil")
            /\ \A t \in DOMAIN ls : ~Conflict(ls[t], lock)
            /\ \E t \in Token \ DOMAIN ls :
                 locks' = [u \in DOMAIN ls \cup {t} |-> IF u = t THEN lock ELSE ls[u]]
      /\ UNCHANGED << holds, clock >>

\* The claim of name: the free locks among the conditions that protect it.
Claim(ls, name, conditions) ==
  { t \in conditions \cap DOMAIN ls : Free(t) /\ Protects(ls[t], name) }

\* "Up to two resources can be named.  Empty names are ignored."
Named == { {name0, name1} \ {NoName} : name0, name1 \in Name \cup {NoName} }

\* Each of the names needs a lock to claim; all are held together or none is.
Confirm(c, named, conditions, now) ==
  LET ls == Live(now)
  IN  /\ holds[c] = {}
      /\ \/ /\ Return("Confirm", "ErrConfirmationFailed")
            /\ \E name \in named : Claim(ls, name, conditions) = {}
            /\ holds' = holds
         \/ /\ Return("Confirm", "nil")
            /\ \A name \in named : Claim(ls, name, conditions) # {}
            /\ holds' = [holds EXCEPT ![c] =
                           UNION { Claim(ls, name, conditions) : name \in named }]
      /\ locks' = ls
      /\ UNCHANGED clock

Release(c) ==
  /\ holds[c] # {}
  /\ holds' = [holds EXCEPT ![c] = {}]
  /\ Return("Release", "nil")
  /\ UNCHANGED << locks, clock >>

Refresh(token, duration, now) ==
  LET ls == Live(now)
  IN  /\ \/ /\ Return("Refresh", "ErrNoSuchLock")
            /\ token \notin DOMAIN ls
            /\ locks' = ls
         \/ /\ Return("Refresh", "ErrLocked")
            /\ token \in DOMAIN ls /\ ~Free(token)
            /\ locks' = ls
         \/ /\ Return("Refresh", "nil")
            /\ token \in DOMAIN ls /\ Free(token)
            /\ locks' = [ls EXCEPT ![token].duration = duration,
                                   ![token].expiry = Expiry(duration, now)]
      /\ UNCHANGED << holds, clock >>

Unlock(token, now) ==
  LET ls == Live(now)
  IN  /\ \/ /\ Return("Unlock", "ErrNoSuchLock")
            /\ token \notin DOMAIN ls
            /\ locks' = ls
         \/ /\ Return("Unlock", "ErrLocked")
            /\ token \in DOMAIN ls /\ ~Free(token)
            /\ locks' = ls
         \/ /\ Return("Unlock", "nil")
            /\ token \in DOMAIN ls /\ Free(token)
            /\ locks' = [t \in DOMAIN ls \ {token} |-> ls[t]]
      /\ UNCHANGED << holds, clock >>

Tick ==
  /\ clock < MaxClock
  /\ clock' = clock + 1
  /\ UNCHANGED << locks, holds, ret >>

Next ==
  \/ \E root \in Name, z \in BOOLEAN, d \in Duration, now \in Now :
        Create(root, z, d, now)
  \/ \E c \in Caller, named \in Named,
        conditions \in (SUBSET Token) \ {{}}, now \in Now :
        Confirm(c, named, conditions, now)
  \/ \E c \in Caller : Release(c)
  \/ \E token \in Token, d \in Duration, now \in Now : Refresh(token, d, now)
  \/ \E token \in Token, now \in Now : Unlock(token, now)
  \/ Tick

Spec == Init /\ [][Next]_vars

-----------------------------------------------------------------------------
(* Properties.                                                             *)

\* Every hold is of a lock that is there.
TypeOK ==
  /\ DOMAIN locks \subseteq Token
  /\ locks \in [DOMAIN locks -> Lock]
  /\ holds \in [Caller -> SUBSET DOMAIN locks]
  /\ clock \in 0 .. MaxClock
  /\ ret \in [op  : {"none", "Create", "Confirm", "Release", "Refresh", "Unlock"},
              err : {"nil", "ErrLocked", "ErrConfirmationFailed", "ErrNoSuchLock"}]

\* "holding the union of all of those locks gives exclusive access to all of
\* the named resources" (lock.go:39-42): while a caller's claim is confirmed,
\* no other caller holds a lock that protects a name the claim protects, and
\* none can be created that does.
ExclusiveAccess ==
  \A c, d \in Caller : \A t \in holds[c], u \in DOMAIN locks :
     \A name \in Name :
        Protects(locks[t], name) /\ Protects(locks[u], name)
        => u = t /\ (u \in holds[d] => c = d)
=============================================================================
