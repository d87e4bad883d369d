-------------------------- MODULE MemLSRefinement --------------------------
(***************************************************************************)
(* memLS implements LockSystem: seen through its tokens, the table of      *)
(* nodes, counts and heap behaves as a set of locks.  What has to agree is *)
(* canCreate's reading of the nodes with the conflicts of the locks, the   *)
(* expiry heap with the locks that are due, and held with the holders.     *)
(***************************************************************************)
EXTENDS MemLS

\* The lock a node stands for.
AbsLock(n) ==
  [root      |-> n,
   zeroDepth |-> m.byName[n].zeroDepth,
   duration  |-> m.byName[n].duration,
   expiry    |-> IF m.byName[n].duration >= 0 THEN m.byName[n].expiry ELSE 0]

AbsLocks == [t \in DOMAIN m.byToken |-> AbsLock(m.byToken[t])]

AbsHolds == [c \in Caller |-> { m.byName[n].token : n \in claims[c] }]

LS == INSTANCE LockSystem WITH locks <- AbsLocks, holds <- AbsHolds

\* Every step of memLS is a step of the interface or leaves the locks alone
\* (lock.go:38-94).
ImplementsLockSystem == LS!Spec

\* "holding the union of all of those locks gives exclusive access to all of
\* the named resources" (lock.go:39-42): while a caller's claim is confirmed,
\* no other caller holds a lock that protects a name the claim protects, and
\* none is created that does.
ExclusiveAccess == LS!ExclusiveAccess
=============================================================================
