----------------------------- MODULE DavHandler -----------------------------
(***************************************************************************)
(* webdav/webdav.go: the requests the server handles concurrently, each in *)
(* a goroutine of its own, with the temporary locks confirmLocks takes for *)
(* them.  A request is cut at every call of the lock system and around its *)
(* call of the drive client, which is known by its interface only          *)
(* (common/drive/interface.go): it returns nil, ErrNotFound or another     *)
(* error.  Handler.Prefix is empty (main.go), so stripPrefix is no step.   *)
(***************************************************************************)
EXTENDS Paths

CONSTANTS
  Request,    \* the goroutines
  Job,        \* the requests clients send: [method, src, dst, ifHeader, lists]
  Token,      \* the lock system's tokens
  NoToken,    \* the token variables of confirmLocks before a lock is taken
  NoName,     \* the empty name "": no destination, or a tag without a path
  MaxClock    \* bound: how often the clock ticks

infiniteTimeout == -1

ASSUME DavHandlerAssumption ==
  /\ Job \subseteq [method : {"READ", "DELETE", "MKCOL", "MOVE"}, src : Name,
                    dst : Name \cup {NoName}, ifHeader : BOOLEAN,
                    lists : Seq(Name \cup {NoName})]
  /\ \A j \in Job : j.method = "MOVE" <=> j.dst # NoName
  /\ NoName \notin Name
  /\ NoToken \notin Token
  /\ MaxClock \in Nat

VARIABLES
  locks, holds, clock, ret,   \* LockSystem's
  req                         \* the locals of each request's handler

lockVars == << locks, holds, clock, ret >>
vars     == << locks, holds, clock, ret, req >>

LS == INSTANCE LockSystem WITH Caller <- Request, Duration <- {infiniteTimeout}

\* job.lists are the lists of the If header that are tried, each by the name it
\* is for: the request's own when it has no tag, its tag's path when it has one,
\* NoName when that is empty.  Lists for another host are passed over.
NoJob == [method |-> "READ", src |-> Root, dst |-> NoName, ifHeader |-> FALSE,
          lists |-> << >>]
Idle  == [pc |-> "idle", job |-> NoJob, lists |-> << >>,
          srcToken |-> NoToken, dstToken |-> NoToken, status |-> 0]

Init ==
  /\ LS!Init
  /\ req = [r \in Request |-> Idle]

Become(r, q) == req' = [req EXCEPT ![r] = q]

\* The handler returns, and ServeHTTP writes the status.
Answered(status) == [Idle EXCEPT !.pc = "done", !.status = status]

\* The request is answered status once its locks are given back.  One that had
\* an If header has none: its release, of a Confirm that held nothing, is no step.
Finish(q, status) ==
  IF q.srcToken = NoToken THEN Answered(status)
                          ELSE [q EXCEPT !.pc = "release", !.status = status]

\* The statuses of the client's answers.  READ stands for OPTIONS, GET, HEAD,
\* POST and PROPFIND, which take no locks; 0 is a body of their own.
Statuses(method) ==
  CASE method = "READ"   -> {0, 400, 404, 405, 500}
    [] method = "DELETE" -> {204, 404, 405}
    [] method = "MKCOL"  -> {201, 404, 405}
    [] method = "MOVE"   -> {204, 500}

-----------------------------------------------------------------------------
(* The steps of a request.                                                 *)

Arrive(r, job) ==
  /\ req[r].pc \in {"idle", "done"}
  /\ Become(r, [Idle EXCEPT !.job = job,
                            !.lists = job.lists,
                            !.pc = IF job.method = "READ" THEN "call"
                                   ELSE IF job.ifHeader THEN "confirm"
                                   ELSE "lockSrc"])
  /\ UNCHANGED lockVars

\* ServeHTTP and handleMove answer what they do not serve before any lock is
\* taken: another method (400, 405), a Destination that is missing, of another
\* host, empty, or the source itself (400, 502, 403), an If header that does not
\* parse (400).
Refuse(r, job) ==
  /\ req[r].pc \in {"idle", "done"}
  /\ \E status \in {400, 405, 502} \cup {403 : n \in {job.src} \cap {job.dst}} :
       Become(r, Answered(status))
  /\ UNCHANGED lockVars

\* Mutant: the temporary lock is of infinite depth.
Lock_Infinite(name) == \E now \in LS!Now : LS!Create(name, FALSE, infiniteTimeout, now)

\* Handler.lock: a zero-depth lock that does not expire.
Lock(name) == \E now \in LS!Now : LS!Create(name, TRUE, infiniteTimeout, now)

\* The token Create has returned.
NewToken == CHOOSE t \in DOMAIN locks' : t \notin DOMAIN locks

\* Mutant: only the source of a move is locked.
LockSrc_Only(r) ==
  LET q == req[r]
  IN  /\ q.pc = "lockSrc"
      /\ Lock(q.job.src)
      /\ Become(r, IF ret'.err = "nil"
                     THEN [q EXCEPT !.srcToken = NewToken, !.pc = "call"]
                     ELSE Answered(423))

LockSrc(r) ==
  LET q == req[r]
  IN  /\ q.pc = "lockSrc"
      /\ Lock(q.job.src)
      /\ Become(r, IF ret'.err = "nil"
                     THEN [q EXCEPT !.srcToken = NewToken,
                                    !.pc = IF q.job.dst = NoName THEN "call"
                                                                 ELSE "lockDst"]
                     ELSE Answered(423))

\* Mutant: confirmLocks returns without giving the first lock back.
LockDst_KeepsSrc(r) ==
  LET q == req[r]
  IN  /\ q.pc = "lockDst"
      /\ Lock(q.job.dst)
      /\ Become(r, IF ret'.err = "nil"
                     THEN [q EXCEPT !.dstToken = NewToken, !.pc = "call"]
                     ELSE Answered(423))

\* Mutant: the second token is not kept for the release.
LockDst_DropsToken(r) ==
  LET q == req[r]
  IN  /\ q.pc = "lockDst"
      /\ Lock(q.job.dst)
      /\ Become(r, [q EXCEPT !.pc = IF ret'.err = "nil" THEN "call" ELSE "giveUp"])

\* Mutant: the second lock is waited for.
LockDst_Waits(r) ==
  LET q == req[r]
  IN  /\ q.pc = "lockDst"
      /\ Lock(q.job.dst)
      /\ ret'.err = "nil"
      /\ Become(r, [q EXCEPT !.dstToken = NewToken, !.pc = "call"])

\* When the second lock is refused, the first is given back: GiveUp.
LockDst(r) ==
  LET q == req[r]
  IN  /\ q.pc = "lockDst"
      /\ Lock(q.job.dst)
      /\ Become(r, IF ret'.err = "nil"
                     THEN [q EXCEPT !.dstToken = NewToken, !.pc = "call"]
                     ELSE [q EXCEPT !.pc = "giveUp"])

\* Unlock's error is not looked at, here and in ReleaseDst and ReleaseSrc.
Unlock(token) == \E now \in LS!Now : LS!Unlock(token, now)

GiveUp(r) ==
  LET q == req[r]
  IN  /\ q.pc = "giveUp"
      /\ Unlock(q.srcToken)
      /\ Become(r, Answered(423))

\* Mutant: the destination is not confirmed.
Confirm_SrcOnly(r) ==
  LET q == req[r]
  IN  /\ q.pc = "confirm" /\ q.lists # << >>
      /\ \E now \in LS!Now : LS!Confirm(r, {Head(q.lists)} \ {NoName}, {}, now)
      /\ Become(r, IF ret'.err = "nil" THEN [q EXCEPT !.pc = "call"]
                                      ELSE [q EXCEPT !.lists = Tail(@)])

\* The next list of the If header: the first that is confirmed will do.  Its
\* conditions name tokens the client was given; LOCK is answered 405, so these
\* are of no lock of this server, and a list fails unless it names nothing.
Confirm(r) ==
  LET q == req[r]
  IN  /\ q.pc = "confirm" /\ q.lists # << >>
      /\ \E now \in LS!Now : LS!Confirm(r, {Head(q.lists), q.job.dst} \ {NoName}, {}, now)
      /\ Become(r, IF ret'.err = "nil" THEN [q EXCEPT !.pc = "call"]
                                      ELSE [q EXCEPT !.lists = Tail(@)])

\* No list is left to try.
NoList(r) ==
  LET q == req[r]
  IN  /\ q.pc = "confirm" /\ q.lists = << >>
      /\ Become(r, Answered(412))
      /\ UNCHANGED lockVars

\* A MKCOL with a body, or a MOVE with a Depth other than infinity.
Reject(r) ==
  LET q == req[r]
  IN  /\ q.pc = "call"
      /\ \/ q.job.method = "MKCOL" /\ Become(r, Finish(q, 415))
         \/ q.job.method = "MOVE"  /\ Become(r, Finish(q, 400))
      /\ UNCHANGED lockVars

\* The call of the drive client returns.
Return(r) ==
  LET q == req[r]
  IN  /\ q.pc = "call"
      /\ \E status \in Statuses(q.job.method) : Become(r, Finish(q, status))
      /\ UNCHANGED lockVars

\* Mutant: the release gives src's lock back twice.
ReleaseDst_UnlocksSrc(r) ==
  LET q == req[r]
  IN  /\ q.pc = "release" /\ q.dstToken # NoToken
      /\ Unlock(q.srcToken)
      /\ Become(r, [q EXCEPT !.dstToken = NoToken])

\* The deferred release: dst's lock first.
ReleaseDst(r) ==
  LET q == req[r]
  IN  /\ q.pc = "release" /\ q.dstToken # NoToken
      /\ Unlock(q.dstToken)
      /\ Become(r, [q EXCEPT !.dstToken = NoToken])

ReleaseSrc(r) ==
  LET q == req[r]
  IN  /\ q.pc = "release" /\ q.dstToken = NoToken
      /\ Unlock(q.srcToken)
      /\ Become(r, Answered(q.status))

Step(r) ==
  \/ LockSrc(r) \/ LockDst(r) \/ GiveUp(r) \/ Confirm(r) \/ NoList(r) \/ Reject(r)
  \/ Return(r) \/ ReleaseDst(r) \/ ReleaseSrc(r)

Tick == LS!Tick /\ UNCHANGED req

Next ==
  \/ \E r \in Request : Step(r) \/ \E job \in Job : Arrive(r, job) \/ Refuse(r, job)
  \/ Tick

Spec == Init /\ [][Next]_vars

\* A handler that has started runs on, and the client's calls return.
FairSpec == Spec /\ \A r \in Request : WF_vars(Step(r))

-----------------------------------------------------------------------------
(* Properties.                                                             *)

Tokens(r) == { req[r].srcToken, req[r].dstToken } \ { NoToken }
Names(r)  == { req[r].job.src, req[r].job.dst } \ { NoName }

\* The names r has locked at the moment.
LockedBy(r) ==  { req[r].job.src : t \in { req[r].srcToken } \ { NoToken } }
           \cup { req[r].job.dst : t \in { req[r].dstToken } \ { NoToken } }

\* Is r in a call of the drive client that changes something?
InWrite(q) == q.pc = "call" /\ q.job.method # "READ"
Writing(r) == InWrite(req[r])

Locals == [pc       : {"idle", "lockSrc", "lockDst", "giveUp", "confirm", "call",
                       "release", "done"},
           job      : Job \cup {NoJob},
           lists    : Seq(Name \cup {NoName}),
           srcToken : Token \cup {NoToken},
           dstToken : Token \cup {NoToken},
           status   : Int]

\* The If headers confirmLocks takes without a lock: no destination, and a list
\* whose tag has no path.
NamesNothing(job) ==
  job.ifHeader /\ job.dst = NoName /\ \E i \in DOMAIN job.lists : job.lists[i] = NoName

\* In each stage of a request exactly the tokens it has been given are set: both
\* or one of them when it sent no If header, and else none.
StageOK(q) ==
  /\ q.srcToken # NoToken <=>
       ~q.job.ifHeader /\ (q.pc \in {"lockDst", "giveUp", "release"} \/ InWrite(q))
  /\ q.dstToken # NoToken => q.pc \in {"call", "release"} /\ q.job.dst # NoName
  /\ InWrite(q) /\ q.job.dst # NoName => q.dstToken # NoToken
  /\ InWrite(q) /\ q.job.ifHeader => NamesNothing(q.job)
  /\ q.pc \in {"lockDst", "giveUp"} => q.job.dst # NoName
  /\ q.pc \in {"lockSrc", "lockDst", "giveUp", "release"} => ~q.job.ifHeader
  /\ q.pc \in {"lockSrc", "confirm"} => q.job.method # "READ"
  /\ q.pc = "confirm" =>
       /\ q.job.ifHeader
       /\ \A i \in DOMAIN q.lists : \E k \in DOMAIN q.job.lists : q.lists[i] = q.job.lists[k]

\* The types of the handlers' locals, stage by stage.
TypeOK ==
  /\ LS!TypeOK
  /\ req \in [Request -> Locals]
  /\ \A r \in Request : StageOK(req[r])

\* "These temporary locks are unlocked at the end of the HTTP request"
\* (webdav.go:325-326): there is no lock but those of the requests in flight,
\* each request has its own, on its own names, and none is left behind by a
\* request that was refused its second lock or whose call failed.
LocksEndWithRequest ==
  /\ DOMAIN locks = UNION { Tokens(r) : r \in Request }
  /\ \A r, s \in Request : r # s => Tokens(r) \cap Tokens(s) = {}
  /\ \A r \in Request :
       LET q == req[r]
       IN  /\ q.srcToken # NoToken => locks[q.srcToken].root = q.job.src
           /\ q.dstToken # NoToken => /\ locks[q.dstToken].root = q.job.dst
                                      /\ q.srcToken # q.dstToken

\* No two requests change the same name at the same time: what MakeDir and
\* MoveFile of the drive client check before they act is not undone in
\* between by another request for that name (webdav.go:322-326).  The requests
\* this leaves out are told exactly: those with an If header that confirmLocks
\* takes for a claim of nothing (webdav.go:371-383, lock.go:153-184).  Any other
\* request that reaches the drive client holds locks on all its names.
OneWriterPerName ==
  \A r, s \in Request :
     r # s /\ Writing(r) /\ Writing(s) /\ Names(r) \cap Names(s) # {}
     => NamesNothing(req[r].job) \/ NamesNothing(req[s].job)

\* "If this header is evaluated and all state lists fail, then the request must
\* fail with a 412 (Precondition Failed) status.  We follow the spec"
\* (webdav.go:385-388).  No condition names a lock that is there, so every list
\* fails and no request with an If header reaches the drive client's changes.
FailedListsRefuse == \A r \in Request : Writing(r) => ~req[r].job.ifHeader

\* A request is refused with 423 only when a request in flight, another one
\* or itself, has the name locked: never because of the names above or below
\* its own, and never because of a request that is over (webdav.go:304-340).
RefusedOnlyIfContended ==
  [][\A r \in Request :
       req[r].pc \in {"lockSrc", "lockDst"} /\ req'[r] # req[r] /\ ret'.err = "ErrLocked"
       => LET name == IF req[r].pc = "lockSrc" THEN req[r].job.src ELSE req[r].job.dst
          IN  \E s \in Request : name \in LockedBy(s)]_vars

\* The errors of Unlock that confirmLocks and its release do not look at do
\* not occur (webdav.go:338, 346, 349): the lock is there and nobody holds it.
UnlocksSucceed ==
  [][\A r \in Request :
       req[r].pc \in {"giveUp", "release"} /\ req'[r] # req[r] => ret'.err = "nil"]_vars

\* Every request is answered: requests never wait for each other's locks.
EveryRequestAnswered == \A r \in Request : req[r].pc # "idle" ~> req[r].pc = "done"
=============================================================================
