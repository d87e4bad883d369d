----------------------------- MODULE ExpiryHeap -----------------------------
(***************************************************************************)
(* byExpiry of webdav/lock.go, as container/heap keeps it: MemLS takes it  *)
(* for a set whose first element is one with the least expiry.  A heap is  *)
(* a record of the nodes in their order, each node's byExpiryIndex and     *)
(* expiry, and the set of nodes that were pushed and not removed.  Indexes *)
(* are those of the code, from 0.                                          *)
(***************************************************************************)
EXTENDS Integers, SequencesExt

NewHeap(nodes) ==
  [order |-> << >>, byExpiryIndex |-> [n \in nodes |-> -1], expiry |-> [n \in nodes |-> 0],
   queued |-> {}]

Less(h, i, j) == h.expiry[h.order[i + 1]] < h.expiry[h.order[j + 1]]

SwapAt(s, i, j) == [s EXCEPT ![i] = s[j], ![j] = s[i]]

\* Mutant: only one of the two indexes is brought up to date.
Swap_OneIndex(h, i, j) ==
  [h EXCEPT !.order = SwapAt(@, i + 1, j + 1), !.byExpiryIndex[h.order[i + 1]] = j]

Swap(h, i, j) ==
  [h EXCEPT !.order = SwapAt(@, i + 1, j + 1),
            !.byExpiryIndex = [@ EXCEPT ![h.order[i + 1]] = j, ![h.order[j + 1]] = i]]

Push(h, n) ==
  [h EXCEPT !.byExpiryIndex[n] = Len(h.order), !.order = Append(@, n)]

Pop(h) ==
  [h EXCEPT !.byExpiryIndex[Last(h.order)] = -1, !.order = Front(@)]

-----------------------------------------------------------------------------
(* container/heap.                                                         *)

RECURSIVE up(_, _)
up(h, j) ==
  LET i == (j - 1) \div 2
  IN  IF j = 0 \/ ~Less(h, j, i) THEN h ELSE up(Swap(h, i, j), i)

\* Among the first n elements; whether it moved is told by the place of i.
RECURSIVE down(_, _, _)
down(h, i, n) ==
  LET left == 2 * i + 1
      j == IF left + 1 < n /\ Less(h, left + 1, left) THEN left + 1 ELSE left
  IN  IF left >= n \/ ~Less(h, j, i) THEN h ELSE down(Swap(h, i, j), j, n)

HeapPush(h, n) == up(Push(h, n), Len(h.order))

HeapRemove(h, i) ==
  LET last  == Len(h.order) - 1
      moved == Swap(h, i, last)
      fixed == down(moved, i, last)
  IN  Pop(IF i = last THEN h ELSE IF fixed = moved THEN up(moved, i) ELSE fixed)

-----------------------------------------------------------------------------
(* Its users.                                                              *)

\* Create, unhold and the second half of Refresh.
Queue(h, n, expiry) ==
  [HeapPush([h EXCEPT !.expiry[n] = expiry], n) EXCEPT !.queued = @ \cup {n}]

\* hold, remove and the first half of Refresh.
Unqueue(h, n) ==
  [HeapRemove(h, h.byExpiryIndex[n]) EXCEPT !.queued = @ \ {n}]

\* Nothing but the nodes that were queued is in the heap, each where its index
\* says, and the first expires first: removing by an index never takes out
\* another node's lock, and collectExpiredNodes may stop at the first.
HeapExact(h) ==
  /\ Range(h.order) = h.queued
  /\ \A n \in DOMAIN h.byExpiryIndex : h.byExpiryIndex[n] >= 0 <=> n \in h.queued
  /\ \A i \in DOMAIN h.order : h.byExpiryIndex[h.order[i]] = i - 1
  /\ \A i \in DOMAIN h.order : h.expiry[h.order[1]] <= h.expiry[h.order[i]]
=============================================================================
