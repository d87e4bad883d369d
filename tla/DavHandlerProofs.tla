-------------------------- MODULE DavHandlerProofs --------------------------
(***************************************************************************)
(* Proofs about DavHandler: for every set of requests, jobs and names, the *)
(* temporary locks are those of the requests in flight, and two requests   *)
(* never change the same name at once, but for one whose If header is      *)
(* taken for a claim of nothing.                                           *)
(***************************************************************************)
EXTENDS DavHandler, TLAPS

\* The locks are all confirmLocks' own: of depth zero, without timeout, and
\* held by no Confirm.
OnlyTemporary ==
  /\ \A t \in DOMAIN locks : locks[t].zeroDepth /\ locks[t].duration = infiniteTimeout
  /\ \A r \in Request : holds[r] = {}

\* No two locks are on the same name.
OneLockPerName ==
  \A t, u \in DOMAIN locks : locks[t].root = locks[u].root => t = u

\* The inductive invariant.
IInv == TypeOK /\ LocksEndWithRequest /\ OnlyTemporary /\ OneLockPerName

-----------------------------------------------------------------------------
(* The lock system while all its locks are temporary.                      *)

\* The collection of expired locks, which every call starts with, finds none.
LEMMA LiveIsAll ==
  ASSUME IInv, NEW now
  PROVE  LS!Live(now) = locks
<1>1. locks = [t \in DOMAIN locks |-> locks[t]]
  BY DEF IInv, TypeOK, LS!TypeOK
<1>2. { t \in DOMAIN locks : /\ locks[t].duration >= 0
                             /\ locks[t].expiry <= now
                             /\ LS!Free(t) } = {}
  BY DEF IInv, OnlyTemporary, infiniteTimeout
<1> QED
  BY <1>1, <1>2 DEF LS!Live

\* Handler.lock: refused because the name itself is locked, or given a token
\* of its own.
LEMMA LockStep ==
  ASSUME IInv, NEW name \in Name, Lock(name)
  PROVE  /\ holds' = holds /\ clock' = clock
         /\ \/ /\ ret' = [op |-> "Create", err |-> "ErrLocked"]
               /\ locks' = locks
               /\ \E t \in DOMAIN locks : locks[t].root = name
            \/ /\ ret' = [op |-> "Create", err |-> "nil"]
               /\ \A t \in DOMAIN locks : locks[t].root # name
               /\ NewToken \in Token \ DOMAIN locks
               /\ DOMAIN locks' = DOMAIN locks \cup {NewToken}
               /\ locks'[NewToken] = [root |-> name, zeroDepth |-> TRUE,
                                      duration |-> infiniteTimeout, expiry |-> 0]
               /\ \A t \in DOMAIN locks : locks'[t] = locks[t]
               /\ locks' \in [DOMAIN locks' -> LS!Lock]
<1>1. PICK now \in LS!Now : LS!Create(name, TRUE, infiniteTimeout, now)
  BY DEF Lock
<1> DEFINE lock == [root |-> name, zeroDepth |-> TRUE,
                    duration |-> infiniteTimeout, expiry |-> 0]
<1>2. LS!Live(now) = locks
  BY LiveIsAll
<1>3. LS!Expiry(infiniteTimeout, now) = 0
  BY DEF LS!Expiry, infiniteTimeout
<1>4. \A t \in DOMAIN locks : LS!Conflict(locks[t], lock) <=> locks[t].root = name
  BY DEF IInv, OnlyTemporary, LS!Conflict, LS!Protects
<1>5. lock \in LS!Lock
  BY DEF LS!Lock, infiniteTimeout
<1>6. holds' = holds /\ clock' = clock
  BY <1>1 DEF LS!Create
<1>7. CASE \E t \in DOMAIN locks : LS!Conflict(locks[t], lock)
  <2>1. locks' = locks /\ ret' = [op |-> "Create", err |-> "ErrLocked"]
    BY <1>1, <1>2, <1>3, <1>7 DEF LS!Create, LS!Return
  <2> QED
    BY <1>4, <1>6, <1>7, <2>1
<1>8. CASE \A t \in DOMAIN locks : ~LS!Conflict(locks[t], lock)
  <2>1. /\ ret' = [op |-> "Create", err |-> "nil"]
        /\ \E t \in Token \ DOMAIN locks :
             locks' = [u \in DOMAIN locks \cup {t} |-> IF u = t THEN lock ELSE locks[u]]
    BY <1>1, <1>2, <1>3, <1>8 DEF LS!Create, LS!Return
  <2>2. PICK t \in Token \ DOMAIN locks :
          locks' = [u \in DOMAIN locks \cup {t} |-> IF u = t THEN lock ELSE locks[u]]
    BY <2>1
  <2>3. DOMAIN locks' = DOMAIN locks \cup {t}
    BY <2>2
  <2>4. NewToken = t
    BY <2>2, <2>3 DEF NewToken
  <2>5. locks'[t] = lock /\ \A u \in DOMAIN locks : locks'[u] = locks[u]
    BY <2>2
  <2>6. locks \in [DOMAIN locks -> LS!Lock]
    BY DEF IInv, TypeOK, LS!TypeOK
  <2>7. locks' \in [DOMAIN locks' -> LS!Lock]
    BY <1>5, <2>2, <2>3, <2>6
  <2> QED
    BY <1>4, <1>6, <1>8, <2>1, <2>2, <2>3, <2>4, <2>5, <2>7
<1> QED
  BY <1>7, <1>8

\* Unlock of a temporary lock always succeeds.
LEMMA UnlockStep ==
  ASSUME IInv, NEW token \in DOMAIN locks, Unlock(token)
  PROVE  /\ ret' = [op |-> "Unlock", err |-> "nil"]
         /\ locks' = [t \in DOMAIN locks \ {token} |-> locks[t]]
         /\ holds' = holds /\ clock' = clock
<1>1. PICK now \in LS!Now : LS!Unlock(token, now)
  BY DEF Unlock
<1>2. LS!Live(now) = locks
  BY LiveIsAll
<1>3. LS!Free(token)
  BY DEF IInv, OnlyTemporary, LS!Free
<1> QED
  BY <1>1, <1>2, <1>3 DEF LS!Unlock, LS!Return

-----------------------------------------------------------------------------
(* The requests' locals.                                                   *)

\* The tokens a request with locals q has, and the locks they name in ls.
TokensOf(q) == { q.srcToken, q.dstToken } \ { NoToken }
OnItsNames(q, ls) ==
  /\ q.srcToken # NoToken => ls[q.srcToken].root = q.job.src
  /\ q.dstToken # NoToken => /\ ls[q.dstToken].root = q.job.dst
                             /\ q.srcToken # q.dstToken

\* The invariant as the step lemmas use it: whose each lock is.
LEMMA Owned ==
  ASSUME IInv
  PROVE  /\ DOMAIN locks = UNION { TokensOf(req[r]) : r \in Request }
         /\ \A r, s \in Request : r # s => TokensOf(req[r]) \cap TokensOf(req[s]) = {}
         /\ \A r \in Request : /\ req[r] \in Locals /\ StageOK(req[r])
                               /\ OnItsNames(req[r], locks)
                               /\ TokensOf(req[r]) \subseteq DOMAIN locks
BY DEF IInv, TypeOK, LocksEndWithRequest, Tokens, TokensOf, OnItsNames

\* What a step of one request has to show, when it keeps the others' locks.
LEMMA OwnStep ==
  ASSUME IInv, NEW r \in Request, NEW q \in Locals, StageOK(q),
         req' = [req EXCEPT ![r] = q],
         LS!TypeOK', holds' = holds,
         DOMAIN locks' = (DOMAIN locks \ TokensOf(req[r])) \cup TokensOf(q),
         TokensOf(q) \cap (DOMAIN locks \ TokensOf(req[r])) = {},
         \A t \in DOMAIN locks \ TokensOf(req[r]) : locks'[t] = locks[t],
         \A t \in TokensOf(q) : /\ locks'[t].zeroDepth
                                /\ locks'[t].duration = infiniteTimeout,
         OnItsNames(q, locks'),
         OneLockPerName'
  PROVE  IInv'
<1>1. /\ req' \in [Request -> Locals] /\ req'[r] = q
      /\ \A s \in Request \ {r} : req'[s] = req[s]
  BY DEF IInv, TypeOK
<1>2. \A s \in Request : StageOK(req'[s])
  BY <1>1, Owned
<1>3. \A s \in Request \ {r} : TokensOf(req[s]) \subseteq DOMAIN locks \ TokensOf(req[r])
  BY Owned
<1>4. DOMAIN locks \ TokensOf(req[r]) = UNION { TokensOf(req[s]) : s \in Request \ {r} }
  BY <1>3, Owned
<1>5. DOMAIN locks' = UNION { TokensOf(req'[s]) : s \in Request }
  BY <1>1, <1>4
<1>6. \A s, u \in Request : s # u => TokensOf(req'[s]) \cap TokensOf(req'[u]) = {}
  BY <1>1, <1>3, Owned
<1>7. \A s \in Request : OnItsNames(req'[s], locks')
  <2>1. ASSUME NEW s \in Request \ {r} PROVE OnItsNames(req[s], locks')
    <3>1. OnItsNames(req[s], locks) /\ TokensOf(req[s]) \subseteq DOMAIN locks \ TokensOf(req[r])
      BY <1>3, Owned
    <3>2. \A t \in TokensOf(req[s]) : locks'[t] = locks[t]
      BY <3>1
    <3> QED
      BY <3>1, <3>2 DEF OnItsNames, TokensOf
  <2> QED
    BY <1>1, <2>1
<1>8. TypeOK'
  BY <1>1, <1>2 DEF TypeOK
<1>9. LocksEndWithRequest'
  BY <1>5, <1>6, <1>7 DEF LocksEndWithRequest, Tokens, TokensOf, OnItsNames
<1>10. OnlyTemporary'
  BY DEF IInv, OnlyTemporary
<1> QED
  BY <1>8, <1>9, <1>10 DEF IInv

\* A step that leaves the locks alone and keeps the request's tokens.
LEMMA QuietStep ==
  ASSUME IInv, NEW r \in Request, NEW q \in Locals, StageOK(q),
         req' = [req EXCEPT ![r] = q],
         LS!TypeOK', holds' = holds, locks' = locks,
         q.srcToken = req[r].srcToken, q.dstToken = req[r].dstToken,
         q.job = req[r].job \/ TokensOf(q) = {}
  PROVE  IInv'
<1>1. TokensOf(q) = TokensOf(req[r]) /\ TokensOf(q) \subseteq DOMAIN locks
  BY Owned DEF TokensOf
<1>2. OnItsNames(q, locks')
  BY Owned DEF OnItsNames, TokensOf
<1>3. OneLockPerName'
  BY DEF IInv, OneLockPerName
<1>4. \A t \in TokensOf(q) : /\ locks'[t].zeroDepth
                             /\ locks'[t].duration = infiniteTimeout
  BY <1>1 DEF IInv, OnlyTemporary
<1>5. DOMAIN locks' = (DOMAIN locks \ TokensOf(req[r])) \cup TokensOf(q)
  BY <1>1
<1> QED
  BY <1>1, <1>2, <1>3, <1>4, <1>5, OwnStep

\* A request that is idle or answered has no tokens.
LEMMA IdleLocals ==
  /\ Idle \in Locals /\ StageOK(Idle) /\ TokensOf(Idle) = {}
  /\ Idle.srcToken = NoToken /\ Idle.dstToken = NoToken
  /\ \A status \in Int : /\ Answered(status) \in Locals /\ StageOK(Answered(status))
                          /\ Answered(status).srcToken = NoToken
                          /\ Answered(status).dstToken = NoToken
                          /\ TokensOf(Answered(status)) = {}
<1>1. /\ Idle \in Locals /\ Idle.pc = "idle" /\ Idle.job = NoJob
      /\ Idle.srcToken = NoToken /\ Idle.dstToken = NoToken
  BY DEF Idle, Locals
<1>2. StageOK(Idle) /\ TokensOf(Idle) = {}
  BY <1>1 DEF StageOK, InWrite, TokensOf
<1>3. ASSUME NEW status \in Int
      PROVE  /\ Answered(status) \in Locals /\ StageOK(Answered(status))
             /\ Answered(status).srcToken = NoToken
             /\ Answered(status).dstToken = NoToken
             /\ TokensOf(Answered(status)) = {}
  <2> DEFINE a == Answered(status)
  <2>1. /\ a \in Locals /\ a.pc = "done"
        /\ a.srcToken = NoToken /\ a.dstToken = NoToken
    BY <1>1 DEF Answered, Locals
  <2> HIDE DEF a
  <2>2. StageOK(a) /\ TokensOf(a) = {}
    BY <2>1 DEF StageOK, InWrite, TokensOf
  <2> QED
    BY <2>1, <2>2 DEF a
<1> QED
  BY <1>1, <1>2, <1>3

\* A request without locks is answered.
LEMMA AnswerStep ==
  ASSUME IInv, NEW r \in Request, NEW status \in Int,
         Become(r, Answered(status)),
         LS!TypeOK', holds' = holds, locks' = locks,
         req[r].srcToken = NoToken, req[r].dstToken = NoToken
  PROVE  IInv'
<1> DEFINE q == Answered(status)
<1>1. /\ q \in Locals /\ StageOK(q) /\ TokensOf(q) = {}
      /\ q.srcToken = NoToken /\ q.dstToken = NoToken
  BY IdleLocals
<1> HIDE DEF q
<1>2. req' = [req EXCEPT ![r] = q]
  BY DEF q, Become
<1> QED
  BY <1>1, <1>2, QuietStep

-----------------------------------------------------------------------------
(* The actions.                                                            *)

\* A request arrives without tokens.
LEMMA ArriveStep ==
  ASSUME IInv, NEW r \in Request, NEW job \in Job, Arrive(r, job) \/ Refuse(r, job)
  PROVE  IInv'
<1>1. /\ req[r].pc \in {"idle", "done"} /\ UNCHANGED lockVars
      /\ req[r] \in Locals /\ StageOK(req[r])
  BY Owned DEF Arrive, Refuse
<1>2. req[r].srcToken = NoToken /\ req[r].dstToken = NoToken
  BY <1>1 DEF StageOK, InWrite
<1>3. LS!TypeOK' /\ holds' = holds /\ locks' = locks
  BY <1>1 DEF IInv, TypeOK, LS!TypeOK, lockVars
<1>4. CASE Arrive(r, job)
  <2> DEFINE q == [Idle EXCEPT !.job = job,
                               !.lists = job.lists,
                               !.pc = IF job.method = "READ" THEN "call"
                                      ELSE IF job.ifHeader THEN "confirm"
                                      ELSE "lockSrc"]
  <2>1. req' = [req EXCEPT ![r] = q]
    BY <1>4 DEF Arrive, Become
  <2>4. job.lists \in Seq(Name \cup {NoName}) /\ job.ifHeader \in BOOLEAN
    BY DavHandlerAssumption
  <2>2. /\ q \in Locals /\ q.job = job /\ q.srcToken = NoToken /\ q.dstToken = NoToken
        /\ q.lists = job.lists
        /\ q.pc = IF job.method = "READ" THEN "call"
                  ELSE IF job.ifHeader THEN "confirm" ELSE "lockSrc"
    BY <2>4, IdleLocals DEF Locals
  <2> HIDE DEF q
  <2>3. StageOK(q) /\ TokensOf(q) = {}
    BY <2>2, <2>4 DEF StageOK, InWrite, TokensOf
  <2> QED
    BY <1>2, <1>3, <2>1, <2>2, <2>3, QuietStep
<1>5. CASE Refuse(r, job)
  <2>1. PICK status \in {400, 405, 502} \cup {403 : n \in {job.src} \cap {job.dst}} :
          Become(r, Answered(status))
    BY <1>5 DEF Refuse
  <2>2. status \in Int
    OBVIOUS
  <2> QED
    BY <1>2, <1>3, <2>1, <2>2, AnswerStep
<1> QED
  BY <1>4, <1>5

\* A lock is taken, or refused: what both LockSrc and LockDst rest on.
LEMMA LockedStep ==
  ASSUME IInv, NEW r \in Request, NEW name \in Name, Lock(name)
  PROVE  /\ LS!TypeOK' /\ holds' = holds
         /\ ret'.err \in {"nil", "ErrLocked"}
         /\ ret'.err # "nil" => locks' = locks
         /\ ret'.err = "nil" =>
              /\ NewToken \in Token \ DOMAIN locks
              /\ DOMAIN locks' = DOMAIN locks \cup {NewToken}
              /\ \A t \in DOMAIN locks : locks'[t] = locks[t]
              /\ /\ locks'[NewToken].root = name /\ locks'[NewToken].zeroDepth
                 /\ locks'[NewToken].duration = infiniteTimeout
              /\ OneLockPerName'
<1>1. /\ LS!TypeOK
      /\ \A s \in Request : holds[s] = {}
      /\ OneLockPerName
  BY DEF IInv, TypeOK, OnlyTemporary
<1>2. holds' = holds /\ clock' = clock
  BY LockStep
<1>3. CASE ret' = [op |-> "Create", err |-> "ErrLocked"] /\ locks' = locks
  BY <1>1, <1>2, <1>3 DEF LS!TypeOK
<1>4. CASE /\ ret' = [op |-> "Create", err |-> "nil"]
           /\ \A t \in DOMAIN locks : locks[t].root # name
           /\ NewToken \in Token \ DOMAIN locks
           /\ DOMAIN locks' = DOMAIN locks \cup {NewToken}
           /\ locks'[NewToken] = [root |-> name, zeroDepth |-> TRUE,
                                  duration |-> infiniteTimeout, expiry |-> 0]
           /\ \A t \in DOMAIN locks : locks'[t] = locks[t]
           /\ locks' \in [DOMAIN locks' -> LS!Lock]
  <2>1. OneLockPerName'
    BY <1>1, <1>4 DEF OneLockPerName
  <2>2. holds' \in [Request -> SUBSET DOMAIN locks']
    BY <1>1, <1>2, <1>4 DEF LS!TypeOK
  <2>3. LS!TypeOK'
    BY <1>1, <1>2, <1>4, <2>2 DEF LS!TypeOK
  <2> QED
    BY <1>2, <1>4, <2>1, <2>3
<1> QED
  BY <1>3, <1>4, LockStep

\* The source's lock is taken, or the request is answered 423 without one.
LEMMA LockSrcStep ==
  ASSUME IInv, NEW r \in Request, LockSrc(r)
  PROVE  IInv'
<1> DEFINE q == req[r]
           new == [q EXCEPT !.srcToken = NewToken,
                            !.pc = IF q.job.dst = NoName THEN "call" ELSE "lockDst"]
<1>1. /\ q.pc = "lockSrc" /\ Lock(q.job.src)
      /\ req' = [req EXCEPT ![r] = IF ret'.err = "nil" THEN new ELSE Answered(423)]
  BY DEF LockSrc, Become
<1>2. q \in Locals /\ StageOK(q)
  BY Owned
<1>3. q.job.src \in Name /\ (q.job.method # "READ")
  BY <1>1, <1>2, DavHandlerAssumption, NameAssumption DEF Locals, NoJob, StageOK
<1>4. /\ q.srcToken = NoToken /\ q.dstToken = NoToken /\ TokensOf(q) = {}
      /\ ~q.job.ifHeader
  BY <1>1, <1>2 DEF StageOK, InWrite, TokensOf
<1>5. /\ LS!TypeOK' /\ holds' = holds
      /\ ret'.err # "nil" => locks' = locks
  BY <1>1, <1>3, LockedStep
<1>6. CASE ret'.err # "nil"
  <2>1. Become(r, Answered(423))
    BY <1>6 DEF LockSrc
  <2>2. 423 \in Int
    OBVIOUS
  <2> QED
    BY <1>4, <1>5, <1>6, <2>1, <2>2, AnswerStep
<1>7. CASE ret'.err = "nil"
  <2>1. /\ NewToken \in Token \ DOMAIN locks
        /\ DOMAIN locks' = DOMAIN locks \cup {NewToken}
        /\ \A t \in DOMAIN locks : locks'[t] = locks[t]
        /\ locks'[NewToken].root = q.job.src /\ locks'[NewToken].zeroDepth
        /\ locks'[NewToken].duration = infiniteTimeout
        /\ OneLockPerName'
    BY <1>1, <1>3, <1>7, LockedStep
  <2>2. NewToken # NoToken
    BY <2>1, DavHandlerAssumption
  <2>3. new \in Locals /\ new.srcToken = NewToken /\ new.dstToken = NoToken
        /\ new.job = q.job /\ new.pc = IF q.job.dst = NoName THEN "call" ELSE "lockDst"
    BY <1>2, <1>4, <2>1 DEF Locals
  <2>4. StageOK(new) /\ TokensOf(new) = {NewToken}
    BY <1>3, <1>4, <2>2, <2>3 DEF StageOK, InWrite, TokensOf
  <2>5. OnItsNames(new, locks')
    BY <2>1, <2>3 DEF OnItsNames
  <2>6. req' = [req EXCEPT ![r] = new]
    BY <1>1, <1>7
  <2> HIDE DEF new, q
  <2> QED
    BY <1>4, <1>5, <2>1, <2>3, <2>4, <2>5, <2>6, OwnStep DEF q
<1> QED
  BY <1>6, <1>7

\* The destination's lock is taken, or the request turns to give the first back.
LEMMA LockDstStep ==
  ASSUME IInv, NEW r \in Request, LockDst(r)
  PROVE  IInv'
<1> DEFINE q == req[r]
           new == [q EXCEPT !.dstToken = NewToken, !.pc = "call"]
           back == [q EXCEPT !.pc = "giveUp"]
<1>1. /\ q.pc = "lockDst" /\ Lock(q.job.dst)
      /\ req' = [req EXCEPT ![r] = IF ret'.err = "nil" THEN new ELSE back]
  BY DEF LockDst, Become
<1>2. q \in Locals /\ StageOK(q)
  BY Owned
<1>3. q.job.dst \in Name /\ q.job.dst # NoName
  BY <1>1, <1>2, DavHandlerAssumption, NameAssumption DEF Locals, NoJob, StageOK
<1>4. /\ q.srcToken # NoToken /\ q.dstToken = NoToken /\ TokensOf(q) = {q.srcToken}
      /\ ~q.job.ifHeader
  BY <1>1, <1>2 DEF StageOK, InWrite, TokensOf
<1>5. /\ LS!TypeOK' /\ holds' = holds
      /\ ret'.err # "nil" => locks' = locks
  BY <1>1, <1>3, LockedStep
<1>6. CASE ret'.err # "nil"
  <2>1. /\ back \in Locals /\ back.pc = "giveUp" /\ back.job = q.job
        /\ back.srcToken = q.srcToken /\ back.dstToken = q.dstToken
    BY <1>2 DEF Locals
  <2>2. req' = [req EXCEPT ![r] = back]
    BY <1>1, <1>6
  <2> HIDE DEF back
  <2>3. StageOK(back)
    BY <1>3, <1>4, <2>1 DEF StageOK, InWrite
  <2> QED
    BY <1>5, <1>6, <2>1, <2>2, <2>3, QuietStep
<1>7. CASE ret'.err = "nil"
  <2>1. /\ NewToken \in Token \ DOMAIN locks
        /\ DOMAIN locks' = DOMAIN locks \cup {NewToken}
        /\ \A t \in DOMAIN locks : locks'[t] = locks[t]
        /\ locks'[NewToken].root = q.job.dst /\ locks'[NewToken].zeroDepth
        /\ locks'[NewToken].duration = infiniteTimeout
        /\ OneLockPerName'
    BY <1>1, <1>3, <1>7, LockedStep
  <2>2. NewToken # NoToken
    BY <2>1, DavHandlerAssumption
  <2>3. /\ new \in Locals /\ new.srcToken = q.srcToken /\ new.dstToken = NewToken
        /\ new.job = q.job /\ new.pc = "call"
    BY <1>2, <2>1 DEF Locals
  <2>4. q.job.method # "READ"
    BY <1>2, <1>3, DavHandlerAssumption DEF Locals, NoJob
  <2>5. req' = [req EXCEPT ![r] = new]
    BY <1>1, <1>7
  <2>6. OnItsNames(q, locks) /\ q.srcToken \in DOMAIN locks
    BY <1>4, Owned
  <2> HIDE DEF new, q
  <2>7. StageOK(new) /\ TokensOf(new) = {q.srcToken, NewToken}
    BY <1>3, <1>4, <2>2, <2>3, <2>4 DEF StageOK, InWrite, TokensOf
  <2>8. OnItsNames(new, locks')
    BY <1>4, <2>1, <2>3, <2>6 DEF OnItsNames
  <2>9. locks'[q.srcToken].zeroDepth /\ locks'[q.srcToken].duration = infiniteTimeout
    BY <2>1, <2>6 DEF IInv, OnlyTemporary
  <2>10. \A t \in TokensOf(new) : /\ locks'[t].zeroDepth
                                  /\ locks'[t].duration = infiniteTimeout
    BY <2>1, <2>7, <2>9
  <2>11. /\ DOMAIN locks' = (DOMAIN locks \ TokensOf(q)) \cup TokensOf(new)
         /\ TokensOf(new) \cap (DOMAIN locks \ TokensOf(q)) = {}
         /\ \A t \in DOMAIN locks \ TokensOf(q) : locks'[t] = locks[t]
    BY <1>4, <2>1, <2>6, <2>7
  <2> QED
    BY <1>5, <2>1, <2>3, <2>5, <2>7, <2>8, <2>10, <2>11, OwnStep DEF q
<1> QED
  BY <1>6, <1>7

\* A request gives a lock back: what GiveUp, ReleaseDst and ReleaseSrc share.
LEMMA UnlockedStep ==
  ASSUME IInv, NEW token \in DOMAIN locks, Unlock(token)
  PROVE  /\ LS!TypeOK' /\ holds' = holds /\ ret'.err = "nil"
         /\ DOMAIN locks' = DOMAIN locks \ {token}
         /\ \A t \in DOMAIN locks \ {token} : locks'[t] = locks[t]
         /\ OneLockPerName'
<1>1. /\ ret' = [op |-> "Unlock", err |-> "nil"]
      /\ locks' = [t \in DOMAIN locks \ {token} |-> locks[t]]
      /\ holds' = holds /\ clock' = clock
  BY UnlockStep
<1>2. /\ LS!TypeOK /\ OneLockPerName /\ \A s \in Request : holds[s] = {}
  BY DEF IInv, TypeOK, OnlyTemporary
<1>3. holds' \in [Request -> SUBSET DOMAIN locks']
  BY <1>1, <1>2 DEF LS!TypeOK
<1>4. locks' \in [DOMAIN locks' -> LS!Lock]
  BY <1>1, <1>2 DEF LS!TypeOK
<1>5. LS!TypeOK'
  BY <1>1, <1>2, <1>3, <1>4 DEF LS!TypeOK
<1>6. OneLockPerName'
  BY <1>1, <1>2 DEF OneLockPerName
<1> QED
  BY <1>1, <1>5, <1>6

\* The last lock of a request is given back and the request is answered.
LEMMA LastUnlockStep ==
  ASSUME IInv, NEW r \in Request, NEW status \in Int,
         Unlock(req[r].srcToken), req[r].srcToken # NoToken, req[r].dstToken = NoToken,
         req' = [req EXCEPT ![r] = Answered(status)]
  PROVE  IInv' /\ ret'.err = "nil"
<1> DEFINE q == Answered(status)
           token == req[r].srcToken
<1>1. /\ q \in Locals /\ StageOK(q) /\ TokensOf(q) = {}
      /\ q.srcToken = NoToken /\ q.dstToken = NoToken
  BY IdleLocals
<1>2. TokensOf(req[r]) = {token} /\ token \in DOMAIN locks
  BY Owned DEF TokensOf
<1>3. /\ LS!TypeOK' /\ holds' = holds /\ ret'.err = "nil"
      /\ DOMAIN locks' = DOMAIN locks \ {token}
      /\ \A t \in DOMAIN locks \ {token} : locks'[t] = locks[t]
      /\ OneLockPerName'
  BY <1>2, UnlockedStep
<1>4. OnItsNames(q, locks')
  BY <1>1 DEF OnItsNames
<1>5. req' = [req EXCEPT ![r] = q]
  OBVIOUS
<1> HIDE DEF q, token
<1> QED
  BY <1>1, <1>2, <1>3, <1>4, <1>5, OwnStep

\* The last lock of a request goes, and Unlock succeeds.
LEMMA GiveUpStep ==
  ASSUME IInv, NEW r \in Request, GiveUp(r) \/ ReleaseSrc(r)
  PROVE  IInv' /\ ret'.err = "nil"
<1>1. req[r] \in Locals /\ StageOK(req[r])
  BY Owned
<1>2. req[r].srcToken # NoToken /\ req[r].dstToken = NoToken
  BY <1>1 DEF GiveUp, ReleaseSrc, StageOK
<1>3. \E status \in Int : /\ Unlock(req[r].srcToken)
                          /\ req' = [req EXCEPT ![r] = Answered(status)]
  BY <1>1 DEF GiveUp, ReleaseSrc, Become, Locals
<1> QED
  BY <1>2, <1>3, LastUnlockStep

\* The destination's lock goes first, and the source's stays the request's.
LEMMA ReleaseDstStep ==
  ASSUME IInv, NEW r \in Request, ReleaseDst(r)
  PROVE  IInv' /\ ret'.err = "nil"
<1> DEFINE q == req[r]
           new == [q EXCEPT !.dstToken = NoToken]
           token == q.dstToken
<1>1. /\ q.pc = "release" /\ token # NoToken /\ Unlock(token)
      /\ req' = [req EXCEPT ![r] = new]
  BY DEF ReleaseDst, Become
<1>2. /\ q \in Locals /\ StageOK(q) /\ OnItsNames(q, locks)
      /\ TokensOf(q) \subseteq DOMAIN locks
  BY Owned
<1>3. /\ q.srcToken # NoToken /\ q.srcToken # token
      /\ TokensOf(q) = {q.srcToken, token} /\ ~q.job.ifHeader
  BY <1>1, <1>2 DEF StageOK, OnItsNames, TokensOf
<1>4. /\ LS!TypeOK' /\ holds' = holds /\ ret'.err = "nil"
      /\ DOMAIN locks' = DOMAIN locks \ {token}
      /\ \A t \in DOMAIN locks \ {token} : locks'[t] = locks[t]
      /\ OneLockPerName'
  BY <1>1, <1>2, <1>3, UnlockedStep
<1>5. /\ new \in Locals /\ new.pc = "release" /\ new.job = q.job
      /\ new.srcToken = q.srcToken /\ new.dstToken = NoToken
  BY <1>1, <1>2 DEF Locals
<1> HIDE DEF new, q, token
<1>6. StageOK(new) /\ TokensOf(new) = {q.srcToken}
  BY <1>3, <1>5 DEF StageOK, InWrite, TokensOf
<1>7. OnItsNames(new, locks')
  BY <1>2, <1>3, <1>4, <1>5 DEF OnItsNames
<1>8. \A t \in TokensOf(new) : /\ locks'[t].zeroDepth
                               /\ locks'[t].duration = infiniteTimeout
  BY <1>2, <1>3, <1>4, <1>6 DEF IInv, OnlyTemporary
<1>9. /\ DOMAIN locks' = (DOMAIN locks \ TokensOf(q)) \cup TokensOf(new)
      /\ TokensOf(new) \cap (DOMAIN locks \ TokensOf(q)) = {}
      /\ \A t \in DOMAIN locks \ TokensOf(q) : locks'[t] = locks[t]
  BY <1>2, <1>3, <1>4, <1>6
<1> QED
  BY <1>1, <1>4, <1>5, <1>6, <1>7, <1>8, <1>9, OwnStep DEF q

\* A list is confirmed only when it and the request name nothing, and then
\* nothing is held; the locks stay as they are.
LEMMA ConfirmStep ==
  ASSUME IInv, NEW r \in Request, Confirm(r)
  PROVE  IInv'
<1> DEFINE q == req[r]
           taken == [q EXCEPT !.pc = "call"]
           next == [q EXCEPT !.lists = Tail(@)]
           named == {Head(q.lists), q.job.dst} \ {NoName}
<1>1. PICK now \in LS!Now :
        LS!Confirm(r, {Head(q.lists), q.job.dst} \ {NoName}, {}, now)
  BY DEF Confirm
<1>2. /\ q.pc = "confirm" /\ q.lists # << >>
      /\ req' = [req EXCEPT ![r] = IF ret'.err = "nil" THEN taken ELSE next]
  BY DEF Confirm, Become
<1>3. q \in Locals /\ StageOK(q) /\ holds[r] = {}
  BY Owned DEF IInv, OnlyTemporary
<1>4. q.srcToken = NoToken /\ q.dstToken = NoToken /\ TokensOf(q) = {}
  BY <1>2, <1>3 DEF StageOK, InWrite, TokensOf
<1>5. \A ls, name : LS!Claim(ls, name, {}) = {}
  BY DEF LS!Claim
<1>6. LS!Live(now) = locks
  BY LiveIsAll
<1>7. /\ locks' = locks /\ clock' = clock
      /\ \/ /\ holds' = holds
            /\ ret' = [op |-> "Confirm", err |-> "ErrConfirmationFailed"]
         \/ /\ named = {}
            /\ holds' = [holds EXCEPT ![r] = {}]
            /\ ret' = [op |-> "Confirm", err |-> "nil"]
  <2>1. CASE \E name \in named : LS!Claim(locks, name, {}) = {}
    BY <1>1, <1>5, <1>6, <2>1 DEF LS!Confirm, LS!Return
  <2>2. CASE \A name \in named : LS!Claim(locks, name, {}) # {}
    <3>1. named = {} /\ UNION { LS!Claim(locks, name, {}) : name \in named } = {}
      BY <1>5, <2>2
    <3> QED
      BY <1>1, <1>6, <2>2, <3>1 DEF LS!Confirm, LS!Return
  <2> QED
    BY <2>1, <2>2
<1>8. holds' = holds
  BY <1>3, <1>7 DEF IInv, TypeOK, LS!TypeOK
<1>9. LS!TypeOK'
  BY <1>7, <1>8 DEF IInv, TypeOK, LS!TypeOK
<1>10. /\ q.lists \in Seq(Name \cup {NoName}) /\ Head(q.lists) = q.lists[1]
       /\ 1 \in DOMAIN q.lists /\ Tail(q.lists) \in Seq(Name \cup {NoName})
       /\ \A i \in DOMAIN Tail(q.lists) : \E k \in DOMAIN q.lists : Tail(q.lists)[i] = q.lists[k]
  <2>1. q.lists \in Seq(Name \cup {NoName})
    BY <1>3 DEF Locals
  <2>2. ASSUME NEW i \in DOMAIN Tail(q.lists)
        PROVE  i + 1 \in DOMAIN q.lists /\ Tail(q.lists)[i] = q.lists[i + 1]
    BY <1>2, <2>1, <2>2
  <2> QED
    BY <1>2, <2>1, <2>2
<1>11. CASE ret'.err = "nil"
  <2>1. /\ taken \in Locals /\ taken.pc = "call" /\ taken.job = q.job
        /\ taken.srcToken = q.srcToken /\ taken.dstToken = q.dstToken
    BY <1>3 DEF Locals
  <2>2. named = {}
    BY <1>7, <1>11
  <2>3. q.job.dst = NoName /\ q.lists[1] = NoName
    BY <1>10, <2>2
  <2>4. NamesNothing(q.job)
    BY <1>2, <1>3, <1>10, <2>3 DEF StageOK, NamesNothing
  <2>5. req' = [req EXCEPT ![r] = taken]
    BY <1>2, <1>11
  <2> HIDE DEF taken, named
  <2>6. StageOK(taken)
    BY <1>2, <1>3, <1>4, <2>1, <2>3, <2>4 DEF StageOK, InWrite
  <2> QED
    BY <1>7, <1>8, <1>9, <2>1, <2>5, <2>6, QuietStep
<1>12. CASE ret'.err # "nil"
  <2>1. /\ next \in Locals /\ next.pc = "confirm" /\ next.job = q.job
        /\ next.lists = Tail(q.lists)
        /\ next.srcToken = q.srcToken /\ next.dstToken = q.dstToken
    BY <1>2, <1>3, <1>10 DEF Locals
  <2>2. req' = [req EXCEPT ![r] = next]
    BY <1>2, <1>12
  <2>3. \A i \in DOMAIN next.lists :
          \E k \in DOMAIN q.job.lists : next.lists[i] = q.job.lists[k]
    <3>1. ASSUME NEW i \in DOMAIN Tail(q.lists)
          PROVE  \E k \in DOMAIN q.job.lists : Tail(q.lists)[i] = q.job.lists[k]
      <4>1. PICK l \in DOMAIN q.lists : Tail(q.lists)[i] = q.lists[l]
        BY <1>10, <3>1
      <4>2. PICK k \in DOMAIN q.job.lists : q.lists[l] = q.job.lists[k]
        BY <1>2, <1>3 DEF StageOK
      <4> QED
        BY <4>1, <4>2
    <3> QED
      BY <2>1, <3>1
  <2> HIDE DEF next, named
  <2>4. StageOK(next)
    BY <1>2, <1>3, <1>4, <2>1, <2>3 DEF StageOK, InWrite
  <2> QED
    BY <1>7, <1>8, <1>9, <2>1, <2>2, <2>4, QuietStep
<1> QED
  BY <1>11, <1>12

\* A request none of whose lists is confirmed had taken no lock.
LEMMA NoListStep ==
  ASSUME IInv, NEW r \in Request, NoList(r)
  PROVE  IInv'
<1>1. req[r].pc = "confirm" /\ req[r] \in Locals /\ StageOK(req[r])
  BY Owned DEF NoList
<1>2. req[r].srcToken = NoToken /\ req[r].dstToken = NoToken
  BY <1>1 DEF StageOK, InWrite
<1>3. LS!TypeOK' /\ holds' = holds /\ locks' = locks
  BY DEF NoList, IInv, TypeOK, LS!TypeOK, lockVars
<1>4. Become(r, Answered(412)) /\ 412 \in Int
  BY DEF NoList
<1> QED
  BY <1>2, <1>3, <1>4, AnswerStep

\* The client's call, or the check of the request before it, is over.
LEMMA FinishStep ==
  ASSUME IInv, NEW r \in Request, Reject(r) \/ Return(r)
  PROVE  IInv'
<1> DEFINE q == req[r]
<1>1. q \in Locals /\ StageOK(q) /\ q.pc = "call"
  BY Owned DEF Reject, Return
<1>2. locks' = locks /\ holds' = holds /\ clock' = clock /\ ret' = ret
  BY DEF Reject, Return, lockVars
<1>3. \A method : Statuses(method) \subseteq Int \/ method \notin {"READ", "DELETE", "MKCOL", "MOVE"}
  BY DEF Statuses
<1>4. q.job.method \in {"READ", "DELETE", "MKCOL", "MOVE"}
  BY <1>1, DavHandlerAssumption DEF Locals, NoJob
<1>5. \E status \in Int : req' = [req EXCEPT ![r] = Finish(q, status)]
  <2>1. CASE Reject(r)
    <3>1. 415 \in Int /\ 400 \in Int
      OBVIOUS
    <3> QED
      BY <2>1, <3>1 DEF Reject, Become
  <2>2. CASE Return(r)
    BY <1>3, <1>4, <2>2 DEF Return, Become
  <2> QED
    BY <2>1, <2>2
<1>6. PICK status \in Int : req' = [req EXCEPT ![r] = Finish(q, status)]
  BY <1>5
<1>7. LS!TypeOK'
  BY <1>2 DEF IInv, TypeOK, LS!TypeOK
<1>8. CASE q.srcToken = NoToken
  <2>1. q.job.method = "READ" \/ NamesNothing(q.job)
    BY <1>1, <1>8 DEF StageOK, InWrite
  <2>2. q.job.dst = NoName
    BY <1>1, <2>1, DavHandlerAssumption DEF Locals, NoJob, NamesNothing
  <2>3. q.dstToken = NoToken
    BY <1>1, <2>2 DEF StageOK
  <2>4. Become(r, Answered(status))
    BY <1>6, <1>8 DEF Finish, Become
  <2> QED
    BY <1>2, <1>7, <1>8, <2>3, <2>4, AnswerStep
<1>9. CASE q.srcToken # NoToken
  <2> DEFINE new == [q EXCEPT !.pc = "release", !.status = status]
  <2>1. req' = [req EXCEPT ![r] = new]
    BY <1>6, <1>9 DEF Finish
  <2>2. /\ new \in Locals /\ new.pc = "release" /\ new.job = q.job
        /\ new.srcToken = q.srcToken /\ new.dstToken = q.dstToken
    BY <1>1 DEF Locals
  <2> HIDE DEF new
  <2>3. StageOK(new)
    BY <1>1, <1>9, <2>2 DEF StageOK, InWrite
  <2> QED
    BY <1>2, <1>7, <2>1, <2>2, <2>3, QuietStep
<1> QED
  BY <1>8, <1>9

-----------------------------------------------------------------------------
(* The theorems.                                                           *)

\* At first there are no locks and no requests.
LEMMA InitInv == Init => IInv
<1> SUFFICES ASSUME Init PROVE IInv
  OBVIOUS
<1>1. /\ locks = [t \in {} |-> Root] /\ holds = [r \in Request |-> {}]
      /\ clock = 0 /\ ret = [op |-> "none", err |-> "nil"]
      /\ req = [r \in Request |-> Idle]
  BY DEF Init, LS!Init, LS!Root, Root
<1>2. DOMAIN locks = {} /\ locks \in [DOMAIN locks -> LS!Lock]
  BY <1>1
<1>3. \A r \in Request : req[r] = Idle
  BY <1>1
<1>4. LS!TypeOK
  BY <1>1, <1>2, DavHandlerAssumption DEF LS!TypeOK
<1>5. TypeOK
  BY <1>1, <1>4, IdleLocals DEF TypeOK
<1>6. LocksEndWithRequest
  BY <1>2, <1>3, IdleLocals DEF LocksEndWithRequest, Tokens
<1>7. OnlyTemporary /\ OneLockPerName
  BY <1>1, <1>2 DEF OnlyTemporary, OneLockPerName
<1> QED
  BY <1>5, <1>6, <1>7 DEF IInv

\* Every step keeps the invariant, and a step that gives a lock back succeeds.
LEMMA StepInv ==
  ASSUME IInv, [Next]_vars
  PROVE  /\ IInv'
         /\ \A r \in Request : req[r].pc \in {"giveUp", "release"} /\ req'[r] # req[r]
                               => ret'.err = "nil"
<1> DEFINE Given == \A r \in Request :
             req[r].pc \in {"giveUp", "release"} /\ req'[r] # req[r] => ret'.err = "nil"
<1>1. ASSUME NEW r \in Request, NEW q, Become(r, q),
             req[r].pc \notin {"giveUp", "release"} \/ ret'.err = "nil"
      PROVE  Given
  BY <1>1 DEF Become, IInv, TypeOK
<1>2. ASSUME NEW r \in Request, NEW job \in Job, Arrive(r, job) \/ Refuse(r, job)
      PROVE  IInv' /\ Given
  <2>1. req[r].pc \notin {"giveUp", "release"}
    BY <1>2 DEF Arrive, Refuse
  <2>2. \E q : Become(r, q)
    BY <1>2 DEF Arrive, Refuse
  <2>3. Given
    BY <1>1, <2>1, <2>2
  <2> QED
    BY <1>2, <2>3, ArriveStep
<1>3. ASSUME NEW r \in Request, LockSrc(r) PROVE IInv' /\ Given
  <2>1. Given
    BY <1>1, <1>3 DEF LockSrc
  <2> QED
    BY <1>3, <2>1, LockSrcStep
<1>4. ASSUME NEW r \in Request, LockDst(r) PROVE IInv' /\ Given
  <2>1. Given
    BY <1>1, <1>4 DEF LockDst
  <2> QED
    BY <1>4, <2>1, LockDstStep
<1>5. ASSUME NEW r \in Request, GiveUp(r) \/ ReleaseSrc(r) PROVE IInv' /\ Given
  BY <1>1, <1>5, GiveUpStep DEF GiveUp, ReleaseSrc
<1>6. ASSUME NEW r \in Request, ReleaseDst(r) PROVE IInv' /\ Given
  <2>1. Given
    BY <1>1, <1>6, ReleaseDstStep DEF ReleaseDst
  <2> QED
    BY <1>6, <2>1, ReleaseDstStep
<1>7. ASSUME NEW r \in Request, Confirm(r) PROVE IInv' /\ Given
  <2>0. req[r].pc = "confirm" /\ \E q : Become(r, q)
    BY <1>7 DEF Confirm
  <2>1. Given
    BY <1>1, <2>0
  <2> QED
    BY <1>7, <2>1, ConfirmStep
<1>10. ASSUME NEW r \in Request, NoList(r) PROVE IInv' /\ Given
  <2>1. \E q : Become(r, q)
    BY <1>10 DEF NoList
  <2> QED
    BY <1>1, <1>10, <2>1, NoListStep DEF NoList
<1>8. ASSUME NEW r \in Request, Reject(r) \/ Return(r) PROVE IInv' /\ Given
  BY <1>1, <1>8, FinishStep DEF Reject, Return
<1>9. CASE Tick \/ UNCHANGED vars
  <2>1. locks' = locks /\ holds' = holds /\ ret' = ret /\ req' = req
        /\ clock' \in 0 .. MaxClock
    BY <1>9, DavHandlerAssumption DEF Tick, LS!Tick, vars, IInv, TypeOK, LS!TypeOK
  <2>2. TypeOK'
    <3>1. LS!TypeOK'
      BY <2>1 DEF IInv, TypeOK, LS!TypeOK
    <3>2. req' \in [Request -> Locals] /\ \A r \in Request : StageOK(req'[r])
      BY <2>1, Owned DEF IInv, TypeOK
    <3> QED
      BY <3>1, <3>2 DEF TypeOK
  <2>3. OnlyTemporary' /\ OneLockPerName'
    BY <2>1 DEF IInv, OnlyTemporary, OneLockPerName
  <2>4. LocksEndWithRequest'
    BY <2>1 DEF IInv, LocksEndWithRequest, Tokens
  <2> QED
    BY <2>1, <2>2, <2>3, <2>4 DEF IInv
<1> QED
  BY <1>2, <1>3, <1>4, <1>5, <1>6, <1>7, <1>8, <1>9, <1>10 DEF Next, Step

\* The handlers' inductive invariant holds in every reachable state.
THEOREM HandlerInvariant == Spec => []IInv
<1>1. Init => IInv
  BY InitInv
<1>2. IInv /\ [Next]_vars => IInv'
  BY StepInv
<1> QED
  BY <1>1, <1>2, PTL DEF Spec

\* The types of the handlers' locals and of the locks, stage by stage.
THEOREM TypeCorrect == Spec => []TypeOK
<1>1. IInv => TypeOK
  BY DEF IInv
<1> QED
  BY <1>1, HandlerInvariant, PTL

\* The locks in the table are those of the requests in flight, however many
\* there are and whatever their names: no request leaves one behind.
THEOREM TemporaryLocksEnd == Spec => []LocksEndWithRequest
<1>1. IInv => LocksEndWithRequest
  BY DEF IInv
<1> QED
  BY <1>1, HandlerInvariant, PTL

\* Two requests are never in a changing call of the drive client for the same
\* name, unless one of them was let in by an If header that names nothing.
THEOREM WritersExclude == Spec => []OneWriterPerName
<1>1. ASSUME IInv, NEW r \in Request, Writing(r), ~NamesNothing(req[r].job)
      PROVE  \A name \in Names(r) : \E t \in Tokens(r) : locks[t].root = name
  <2>1. StageOK(req[r]) /\ OnItsNames(req[r], locks)
    BY <1>1, Owned
  <2>2. /\ req[r].srcToken # NoToken
        /\ req[r].job.dst # NoName => req[r].dstToken # NoToken
    BY <1>1, <2>1 DEF StageOK, Writing
  <2> QED
    BY <2>1, <2>2 DEF OnItsNames, Names, Tokens
<1>2. IInv => OneWriterPerName
  <2> SUFFICES ASSUME IInv, NEW r \in Request, NEW s \in Request, r # s,
                      Writing(r), Writing(s),
                      ~NamesNothing(req[r].job), ~NamesNothing(req[s].job),
                      NEW name \in Names(r) \cap Names(s)
               PROVE  FALSE
    BY DEF OneWriterPerName
  <2>1. PICK t \in Tokens(r) : locks[t].root = name
    BY <1>1
  <2>2. PICK u \in Tokens(s) : locks[u].root = name
    BY <1>1
  <2>3. t \in DOMAIN locks /\ u \in DOMAIN locks /\ t # u
    BY <2>1, <2>2 DEF IInv, LocksEndWithRequest
  <2> QED
    BY <2>1, <2>2, <2>3 DEF IInv, OneLockPerName
<1> QED
  BY <1>2, HandlerInvariant, PTL

\* The errors of Unlock that the release does not look at never occur.
THEOREM ReleasesSucceed == Spec => UnlocksSucceed
<1>1. IInv /\ [Next]_vars =>
        \A r \in Request : req[r].pc \in {"giveUp", "release"} /\ req'[r] # req[r]
                           => ret'.err = "nil"
  BY StepInv
<1> QED
  BY <1>1, HandlerInvariant, PTL DEF Spec, UnlocksSucceed
\* A request that is refused a lock finds the name locked by a request in
\* flight: there is no lock but theirs, and each is on its owner's name.
LEMMA RefusalStep ==
  ASSUME IInv, [Next]_vars, NEW r \in Request,
         req[r].pc \in {"lockSrc", "lockDst"}, req'[r] # req[r], ret'.err = "ErrLocked",
         NEW name, name = IF req[r].pc = "lockSrc" THEN req[r].job.src ELSE req[r].job.dst
  PROVE  \E s \in Request : name \in LockedBy(s)
<1>1. ASSUME NEW s \in Request, NEW q, Become(s, q), req[r].pc # req[s].pc
      PROVE  FALSE
  BY <1>1 DEF Become, IInv, TypeOK
<1>2. (LockSrc(r) /\ req[r].pc = "lockSrc") \/ (LockDst(r) /\ req[r].pc = "lockDst")
  <2>1. ASSUME NEW s \in Request, NEW q, Become(s, q)
        PROVE  s = r
    BY <2>1 DEF Become, IInv, TypeOK
  <2>2. PICK s \in Request : Step(s) \/ \E job \in Job : Arrive(s, job) \/ Refuse(s, job)
    <3>1. CASE Tick
      BY <3>1 DEF Tick
    <3>2. CASE UNCHANGED vars
      BY <3>2 DEF vars
    <3> QED
      BY <3>1, <3>2 DEF Next
  <2>3. ASSUME NEW job \in Job, Arrive(s, job) \/ Refuse(s, job)
        PROVE  FALSE
    <3>1. req[s].pc \in {"idle", "done"} /\ \E q : Become(s, q)
      BY <2>3 DEF Arrive, Refuse
    <3> QED
      BY <1>1, <3>1
  <2>4. CASE LockSrc(s)
    BY <2>1, <2>4 DEF LockSrc
  <2>5. CASE LockDst(s)
    BY <2>1, <2>5 DEF LockDst
  <2>6. CASE GiveUp(s) \/ ReleaseDst(s) \/ ReleaseSrc(s)
    <3>1. req[s].pc \in {"giveUp", "release"} /\ \E q : Become(s, q)
      BY <2>6 DEF GiveUp, ReleaseDst, ReleaseSrc
    <3> QED
      BY <1>1, <3>1
  <2>7. CASE Confirm(s) \/ NoList(s)
    <3>1. req[s].pc = "confirm" /\ \E q : Become(s, q)
      BY <2>7 DEF Confirm, NoList
    <3> QED
      BY <1>1, <3>1
  <2>8. CASE Reject(s) \/ Return(s)
    <3>1. req[s].pc = "call" /\ \E q : Become(s, q)
      BY <2>8 DEF Reject, Return
    <3> QED
      BY <1>1, <3>1
  <2> QED
    BY <2>2, <2>3, <2>4, <2>5, <2>6, <2>7, <2>8 DEF Step
<1>3. name \in Name /\ Lock(name)
  <2>1. req[r] \in Locals /\ StageOK(req[r])
    BY Owned
  <2>2. req[r].job.method # "READ" \/ req[r].job.dst # NoName
    BY <1>2, <2>1 DEF StageOK, LockSrc, LockDst
  <2>3. req[r].job \in Job
    BY <2>1, <2>2 DEF Locals, NoJob
  <2>4. req[r].job.src \in Name /\ req[r].job.dst \in Name \cup {NoName}
    BY <2>3, DavHandlerAssumption
  <2>5. CASE LockSrc(r) /\ req[r].pc = "lockSrc"
    BY <2>4, <2>5 DEF LockSrc
  <2>6. CASE LockDst(r) /\ req[r].pc = "lockDst"
    BY <2>1, <2>4, <2>6 DEF LockDst, StageOK
  <2> QED
    BY <1>2, <2>5, <2>6
<1>4. PICK t \in DOMAIN locks : locks[t].root = name
  <2>1. ret' # [op |-> "Create", err |-> "nil"]
    OBVIOUS
  <2> QED
    BY <1>3, <2>1, LockStep
<1>5. PICK s \in Request : t \in TokensOf(req[s]) /\ OnItsNames(req[s], locks)
  BY <1>4, Owned
<1>6. name \in LockedBy(s)
  <2>1. CASE t = req[s].srcToken
    BY <1>4, <1>5, <2>1 DEF TokensOf, OnItsNames, LockedBy
  <2>2. CASE t = req[s].dstToken
    BY <1>4, <1>5, <2>2 DEF TokensOf, OnItsNames, LockedBy
  <2> QED
    BY <1>5, <2>1, <2>2 DEF TokensOf
<1> QED
  BY <1>6

\* Only a name that a request in flight has locked is refused with 423.
THEOREM RefusalsAreContended == Spec => RefusedOnlyIfContended
<1>1. IInv /\ [Next]_vars =>
        \A r \in Request :
          req[r].pc \in {"lockSrc", "lockDst"} /\ req'[r] # req[r] /\ ret'.err = "ErrLocked"
          => LET name == IF req[r].pc = "lockSrc" THEN req[r].job.src ELSE req[r].job.dst
             IN  \E s \in Request : name \in LockedBy(s)
  BY RefusalStep
<1> QED
  BY <1>1, HandlerInvariant, PTL DEF Spec, RefusedOnlyIfContended
=============================================================================
