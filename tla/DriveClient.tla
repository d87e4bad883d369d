---------------------------- MODULE DriveClient ----------------------------
(***************************************************************************)
(* 115/client.go: the calls the WebDAV handlers make concurrently on one   *)
(* DriveClient.  A call is cut where it can interleave with others: every  *)
(* access to the cache and every API call is a step.  limiter.Wait only    *)
(* delays a call.  The cache may drop a listing whenever it likes: that is *)
(* the two minutes' expiry and the LFU eviction.  A files answer is taken  *)
(* to name the offset it was asked for.                                    *)
(*                                                                         *)
(* hist is the external drive, as the sequence of its trees so far; the    *)
(* fields from, to, raced, whole and at are history: the code has no such  *)
(* fields and no step depends on them.                                     *)
(***************************************************************************)
EXTENDS Drive115

CONSTANTS
  Call,       \* the goroutines that may be in a call
  Job,        \* the calls they make: [op, src, dst]
  Tree0,      \* the drive at the start
  Shared,     \* does the account have other clients, which change the drive?
  PageSize,   \* pageSize; 1000 in the code
  MaxHist,    \* bound: how many trees the drive goes through
  MaxStart    \* bound: how many calls are started

Op == {"list", "get", "open", "remove", "mkdir", "move"}

ASSUME DriveClientAssumption ==
  /\ Job \subseteq [op : Op, src : Name, dst : Name]
  /\ IsDrive(Tree0, Component \cup {""})
  /\ Shared \in BOOLEAN
  /\ PageSize \in Nat \ {0}
  /\ MaxHist \in Nat \ {0}
  /\ MaxStart \in Nat

VARIABLES
  hist,     \* the trees the drive has been, the current one last
  cache,    \* DriveClient.cache: the listings under "files:<dir>", by dir
  urls,     \* and the addresses under "url:<pick code>", by pick code
  call,     \* the locals of each goroutine's call
  started   \* how many calls were started

vars == << hist, cache, urls, call, started >>

tree == hist[Len(hist)]
Room == Len(hist) < MaxHist

\* The service gives every new entry an id of its own.
NewId == 1 + Max({RootId} \cup UNION { DOMAIN hist[k] : k \in DOMAIN hist })

NoJob   == [op |-> "list", src |-> Root, dst |-> Root]
NoEntry == [id |-> RootId, name |-> "", dir |-> FALSE]

Idle == [pc |-> "idle", job |-> NoJob, goal |-> "list", key |-> Root, cid |-> RootId,
         offset |-> 0, files |-> << >>, src |-> NoEntry, url |-> RootId, flush |-> << >>,
         err |-> "nil",
         from |-> 0, raced |-> FALSE, whole |-> TRUE, at |-> 0]

-----------------------------------------------------------------------------
(* The code between two steps, as functions of the call's locals q.        *)

\* The call returns; only what the properties ask about is kept.
Reply(q, err) ==
  [Idle EXCEPT !.pc = "done", !.job = q.job, !.err = err,
               !.at = IF err = "nil" THEN q.at ELSE 0]

\* GetFiles(dir), for the sake of goal.
AskFiles(q, goal, dir) ==
  [q EXCEPT !.pc = "cache", !.goal = goal, !.key = dir, !.offset = 0,
            !.files = << >>, !.raced = FALSE, !.whole = TRUE]

\* MoveFile once the destination's directory is known: rename, move, or
\* nothing at all.
GotDst(q, dstDirFi) ==
  LET src == q.job.src  dst == q.job.dst
  IN  IF ~dstDirFi.dir THEN Reply(q, "nil")
      ELSE IF DirOf(src) = DirOf(dst) THEN [q EXCEPT !.pc = "rename"]
      ELSE IF BaseOf(src) = BaseOf(dst)
        THEN [q EXCEPT !.pc = "move", !.cid = dstDirFi.id]
      ELSE Reply(q, "nil")

\* Mutant: what GetFile found is not kept.
GotSrc_Forgets(q, fi) ==
  CASE q.job.op = "get"    -> Reply(q, "nil")
    [] q.job.op = "open"   -> IF fi.dir THEN Reply(q, "err") ELSE [q EXCEPT !.pc = "url"]
    [] q.job.op = "remove" -> [q EXCEPT !.pc = "delete"]
    [] q.job.op = "move"   -> GotDst(q, RootEntry)

\* The call once GetFile(srcPath) has found fi.
GotSrc(q0, fi) ==
  LET q   == [q0 EXCEPT !.src = fi]
      dst == q.job.dst
  IN  CASE q.job.op = "get"    -> Reply(q, "nil")
        [] q.job.op = "open"   -> IF fi.dir THEN Reply(q, "err") ELSE [q EXCEPT !.pc = "url"]
        [] q.job.op = "remove" -> [q EXCEPT !.pc = "delete"]
        [] q.job.op = "move"   ->
             IF q.job.src = Root \/ dst = Root THEN Reply(q, "nil")
             ELSE IF DirOf(dst) = Root THEN GotDst(q, RootEntry)
             ELSE AskFiles(q, "dst", DirOf(DirOf(dst)))

\* The call once GetFiles has returned: GetFile takes the first entry with
\* the name.
GotFiles(q, files) ==
  LET name == IF q.goal = "src" THEN BaseOf(q.job.src) ELSE BaseOf(DirOf(q.job.dst))
      hits == { i \in DOMAIN files : files[i].name = name }
      rest == [q EXCEPT !.key = Root, !.cid = RootId, !.offset = 0, !.files = << >>,
                        !.from = 0, !.raced = FALSE, !.whole = TRUE]
  IN  IF q.goal = "list" THEN Reply(q, "nil")
      ELSE IF hits = {}  THEN Reply(q, "ErrNotFound")
      ELSE IF q.goal = "src" THEN GotSrc(rest, files[Min(hits)])
      ELSE GotDst(rest, files[Min(hits)])

Begin(job) ==
  LET q == [Idle EXCEPT !.job = job]
  IN  CASE job.op = "list"  -> AskFiles(q, "list", job.src)
        [] job.op = "mkdir" -> [q EXCEPT !.pc = "exists"]
        [] OTHER -> IF job.src = Root THEN GotSrc(q, RootEntry)
                                      ELSE AskFiles(q, "src", DirOf(job.src))

-----------------------------------------------------------------------------
(* The steps of a call.                                                    *)

Init ==
  /\ hist = << Tree0 >>
  /\ cache = [d \in {} |-> Idle]
  /\ urls = << >>
  /\ call = [c \in Call |-> Idle]
  /\ started = 0

Become(c, q) == call' = [call EXCEPT ![c] = q]

Start(c, job) ==
  /\ call[c].pc \in {"idle", "done"}
  /\ started < MaxStart
  /\ started' = started + 1
  /\ Become(c, Begin(job))
  /\ UNCHANGED << hist, cache, urls >>

\* GetFiles: c.cache.Get.
LookupCache(c) ==
  LET q == call[c]
  IN  /\ q.pc = "cache"
      /\ Become(c, IF q.key \in DOMAIN cache THEN GotFiles(q, cache[q.key].files)
                                             ELSE [q EXCEPT !.pc = "dirid"])
      /\ UNCHANGED << hist, cache, started, urls >>

\* Mutant: a failed lookup is tried again, without end.
LookupDirID_Retries(c) ==
  LET q == call[c]
  IN  /\ q.pc = "dirid"
      /\ \/ Become(c, [q EXCEPT !.pc = "cache"])
         \/ \E cid \in DirIDAnswers(tree, q.key) :
              Become(c, [q EXCEPT !.pc = "page", !.cid = cid, !.from = Len(hist)])
      /\ UNCHANGED << hist, cache, started, urls >>

\* GetFiles: APIGetDirID(dir).  The answer 0 is not told from the root's id.
LookupDirID(c) ==
  LET q == call[c]
  IN  /\ q.pc = "dirid"
      /\ \/ Become(c, Reply(q, "err"))
         \/ \E cid \in DirIDAnswers(tree, q.key) :
              Become(c, [q EXCEPT !.pc = "page", !.cid = cid, !.from = Len(hist)])
      /\ UNCHANGED << hist, cache, started, urls >>

\* Mutant: a last page of one entry is not asked for.
LastPage_Early(next, count) == next >= count - 1

\* Does the page loop stop, when the next page starts at next?
LastPage(next, count) == next >= count

\* GetFiles: one turn of the page loop.  The next page starts after the offset the
\* answer names (client.go:107); the service is taken to name the one it was asked
\* for.  An answer with state false has no data and count 0, which ends the loop
\* like a last page.
GetPage(c) ==
  LET q     == call[c]
      count == Cardinality(Children(tree, q.cid))
      next  == q.offset + PageSize
  IN  /\ q.pc = "page"
      /\ \/ Become(c, Reply(q, "err"))
         \/ Become(c, [q EXCEPT !.pc = "set", !.whole = FALSE])
         \/ Become(c, [q EXCEPT !.files = @ \o Page(tree, q.cid, PageSize, q.offset),
                                !.offset = next,
                                !.pc = IF LastPage(next, count) THEN "set" ELSE "page"])
      /\ UNCHANGED << hist, cache, started, urls >>

\* Mutant: the listing is cached under the parent's name.
SetCache_ParentKey(c) ==
  LET q     == call[c]
      entry == [files |-> q.files, from |-> q.from, raced |-> q.raced]
      key   == IF q.key = Root THEN Root ELSE DirOf(q.key)
  IN  /\ q.pc = "set"
      /\ cache' = [d \in DOMAIN cache \cup {key} |->
                     IF d = key THEN entry ELSE cache[d]]
      /\ Become(c, GotFiles(q, q.files))
      /\ UNCHANGED << hist, started, urls >>

\* GetFiles: c.cache.SetWithExpire.
SetCache(c) ==
  LET q     == call[c]
      entry == [files |-> q.files, from |-> q.from, raced |-> q.raced]
  IN  /\ q.pc = "set"
      /\ cache' = [d \in DOMAIN cache \cup {q.key} |->
                     IF d = q.key THEN entry ELSE cache[d]]
      /\ Become(c, GotFiles(q, q.files))
      /\ UNCHANGED << hist, started, urls >>

\* An API call that changes the drive, if it succeeds into one of changed.
Change(c, changed, flush) ==
  LET q == call[c]
  IN  /\ \E a \in Answers(tree, IF Room THEN changed ELSE {}) :
           LET h == IF a.tree = tree THEN hist ELSE Append(hist, a.tree)
           IN  /\ hist' = h
               /\ Become(c, IF a.answer = "ok"
                              THEN [q EXCEPT !.pc = "flush", !.flush = flush,
                                             !.at = Len(h)]
                              ELSE Reply(q, "err"))
      /\ UNCHANGED << cache, started, urls >>

\* RemoveFile: APIDeleteFile.
DeleteFile(c) ==
  LET q == call[c]
  IN  /\ q.pc = "delete"
      /\ Change(c, Deleted(tree, q.src.id), << DirOf(q.job.src) >>)

\* MoveFile: APIRenameFile.
RenameFile(c) ==
  LET q == call[c]
  IN  /\ q.pc = "rename"
      /\ Change(c, Renamed(tree, q.src.id, BaseOf(q.job.dst)), << DirOf(q.job.src) >>)

\* Mutant: only the directory the file leaves is flushed.
MoveFile_FlushesSrcOnly(c) ==
  LET q == call[c]
  IN  /\ q.pc = "move"
      /\ Change(c, Moved(tree, q.src.id, q.cid), << DirOf(q.job.src) >>)

\* MoveFile: APIMoveFile.
MoveFile(c) ==
  LET q == call[c]
  IN  /\ q.pc = "move"
      /\ Change(c, Moved(tree, q.src.id, q.cid),
                << DirOf(q.job.src), DirOf(q.job.dst) >>)

\* MakeDir: APIGetDirID(dir).  A directory that exists is left alone; an
\* answer without an id counts as 0.
CheckExists(c) ==
  LET q == call[c]
  IN  /\ q.pc = "exists"
      /\ \/ Become(c, Reply(q, "err"))
         \/ \E cid \in DirIDAnswers(tree, q.job.src) :
              Become(c, IF cid \in {RootId, NoId}
                            THEN [q EXCEPT !.pc = "parent"]
                            ELSE Reply(q, "nil"))
      /\ UNCHANGED << hist, cache, started, urls >>

\* Mutant: the id 0 of a missing parent is taken for the root's.
LookupParent_NoCheck(c) ==
  LET q == call[c]
  IN  /\ q.pc = "parent"
      /\ \/ Become(c, Reply(q, "err"))
         \/ \E pid \in DirIDAnswers(tree, DirOf(q.job.src)) :
              Become(c, [q EXCEPT !.pc = "add", !.cid = pid])
      /\ UNCHANGED << hist, cache, started, urls >>

\* MakeDir: APIGetDirID(parentDir).  A missing parent is not reported, and an
\* answer without an id is not told from an id.
LookupParent(c) ==
  LET q == call[c]
  IN  /\ q.pc = "parent"
      /\ \/ Become(c, Reply(q, "err"))
         \/ \E pid \in DirIDAnswers(tree, DirOf(q.job.src)) :
              Become(c, IF pid = RootId /\ DirOf(q.job.src) # Root
                          THEN Reply(q, "nil")
                          ELSE [q EXCEPT !.pc = "add", !.cid = pid])
      /\ UNCHANGED << hist, cache, started, urls >>

\* MakeDir: APIAddDir.  The root, whose id is 0, does not seem to exist, and
\* has the empty name.
AddDir(c) ==
  LET q    == call[c]
      name == IF q.job.src = Root THEN "" ELSE BaseOf(q.job.src)
  IN  /\ q.pc = "add"
      /\ Change(c, Added(tree, NewId, q.cid, name), << DirOf(q.job.src) >>)

\* flushDir, for the next of the directories a change touched; then the call
\* returns nil.
FlushDir(c) ==
  LET q    == call[c]
      dir  == Head(q.flush)
      rest == [q EXCEPT !.flush = Tail(@)]
      raced(p) == [p EXCEPT !.raced = @ \/ (p.pc \in {"page", "set"} /\ p.key = dir)]
  IN  /\ q.pc = "flush"
      /\ cache' = [d \in DOMAIN cache \ {dir} |-> cache[d]]
      /\ call' = [p \in Call |-> IF p # c THEN raced(call[p])
                                 ELSE IF rest.flush = << >> THEN Reply(rest, "nil")
                                 ELSE rest]
      /\ UNCHANGED << hist, started, urls >>

\* Mutant: addresses are kept by the name of the file.
UrlKey_Name(fi) == fi.name

\* The pick code of a file, which the service gives to no other.
UrlKey(fi) == fi.id

\* GetFileURL: c.cache.Get.
LookupURL(c) ==
  LET q == call[c]
  IN  /\ q.pc = "url"
      /\ Become(c, IF UrlKey(q.src) \in DOMAIN urls
                     THEN [q EXCEPT !.pc = "proxy", !.url = urls[UrlKey(q.src)]]
                     ELSE [q EXCEPT !.pc = "address"])
      /\ UNCHANGED << hist, cache, started, urls >>

\* GetFileURL: APIGetDownloadURL.  It fails, also for a file without content;
\* an answer that holds no address is read through a nil pointer; or it gives
\* an address of the file, if there is one.
GetAddress(c) ==
  LET q == call[c]
  IN  /\ q.pc = "address"
      /\ \/ Become(c, Reply(q, "err"))
         \/ Become(c, Reply(q, "panic"))
         \/ /\ q.src.id \in DOMAIN tree
            /\ Become(c, [q EXCEPT !.pc = "seturl", !.url = q.src.id])
      /\ UNCHANGED << hist, cache, started, urls >>

\* GetFileURL: c.cache.SetWithExpire.
SetURL(c) ==
  LET q == call[c]
  IN  /\ q.pc = "seturl"
      /\ urls' = [k \in DOMAIN urls \cup {UrlKey(q.src)} |->
                    IF k = UrlKey(q.src) THEN q.url ELSE urls[k]]
      /\ Become(c, [q EXCEPT !.pc = "proxy"])
      /\ UNCHANGED << hist, cache, started >>

\* Proxy: the request goes on to the address, and its answer comes back or the
\* connection is cut.
Proxy(c) ==
  /\ call[c].pc = "proxy"
  /\ \E err \in {"nil", "err"} : Become(c, Reply(call[c], err))
  /\ UNCHANGED << hist, cache, started, urls >>

\* A listing expires or is evicted.
Expire(d) ==
  /\ d \in DOMAIN cache
  /\ cache' = [e \in DOMAIN cache \ {d} |-> cache[e]]
  /\ UNCHANGED << hist, call, started, urls >>

\* An address expires or is evicted.
ExpireURL ==
  /\ \E k \in DOMAIN urls : urls' = [j \in DOMAIN urls \ {k} |-> urls[j]]
  /\ UNCHANGED << hist, cache, call, started >>

\* Another client of the account removes an entry or adds one.
Elsewhere ==
  /\ Shared /\ Room
  /\ \/ \E id \in DOMAIN tree : \E t \in Deleted(tree, id) : hist' = Append(hist, t)
     \/ \E dir \in DOMAIN tree \cup {RootId}, name \in Component :
          \E t \in Added(tree, NewId, dir, name) : hist' = Append(hist, t)
  /\ UNCHANGED << cache, call, started, urls >>

Step(c) ==
  \/ LookupCache(c) \/ LookupDirID(c) \/ GetPage(c) \/ SetCache(c)
  \/ DeleteFile(c) \/ RenameFile(c) \/ MoveFile(c)
  \/ CheckExists(c) \/ LookupParent(c) \/ AddDir(c) \/ FlushDir(c)
  \/ LookupURL(c) \/ GetAddress(c) \/ SetURL(c) \/ Proxy(c)

Next ==
  \/ \E c \in Call : Step(c) \/ \E job \in Job : Start(c, job)
  \/ \E d \in Name : Expire(d)
  \/ ExpireURL
  \/ Elsewhere

Spec == Init /\ [][Next]_vars

\* Every step of a call is taken in the end: the goroutine runs, the limiter
\* gives out tokens and the service answers.
FairSpec == Spec /\ \A c \in Call : WF_vars(Step(c))

-----------------------------------------------------------------------------
(* Properties.                                                             *)

ListedEntry == [id : Nat, name : Component \cup {""}, dir : BOOLEAN]

\* The types of the cache and of the calls' locals; a call that is about to
\* change an entry has found one.
TypeOK ==
  /\ Len(hist) \in 1 .. MaxHist
  /\ DOMAIN cache \subseteq Name
  /\ \A d \in DOMAIN cache :
       /\ cache[d].files \in Seq(ListedEntry)
       /\ cache[d].from \in 1 .. Len(hist)
  /\ \A c \in Call :
       /\ call[c].pc \in {"idle", "cache", "dirid", "page", "set", "delete", "rename",
                         "move", "exists", "parent", "add", "flush", "url", "address",
                         "seturl", "proxy", "done"}
       /\ call[c].job \in Job \cup {NoJob}
       /\ call[c].key \in Name
       /\ call[c].files \in Seq(ListedEntry)
       /\ call[c].pc \in {"delete", "rename", "move", "url", "address", "seturl", "proxy"}
            => call[c].src # NoEntry
       /\ call[c].err \in {"nil", "err", "ErrNotFound", "panic"}
       /\ call[c].from \in 0 .. Len(hist) /\ call[c].at \in 0 .. Len(hist)

\* The page loop of GetFiles misses nothing (client.go:94-111): when no entry
\* left the directory while it was being read and no page was refused, every
\* entry that was there from the first page on is in the listing, however
\* many were added meanwhile and shifted the pages.
ListingComplete ==
  \A c \in Call :
     LET q    == call[c]
         kids == [k \in q.from .. Len(hist) |-> Children(hist[k], q.cid)]
     IN  /\ q.pc = "set" /\ q.whole
         /\ \A k \in q.from .. Len(hist) - 1 : kids[k] \subseteq kids[k + 1]
         => \A i \in kids[q.from] : \E j \in DOMAIN q.files : q.files[j].id = i

\* Once a call that changed the drive has returned nil, the directories it
\* named are served as they are after the change (flushDir, client.go:202,
\* 238, 288, 298-299), unless another call was reading the directory while
\* the listing was being flushed and put the old one back.
AnsweredChangesAreSeen ==
  \A c \in Call :
     LET q == call[c]
     IN  q.pc = "done" /\ q.err = "nil" /\ q.at # 0
         => \A d \in DOMAIN cache :
              /\ d = DirOf(q.job.src) \/ (q.job.op = "move" /\ d = DirOf(q.job.dst))
              /\ cache[d].from < q.at
              => cache[d].raced

\* Was id an entry of this name, in a directory a lookup of dir had given?
WasListed(id, name, dir) ==
  \E k \in DOMAIN hist : /\ id \in DOMAIN hist[k]
                         /\ hist[k][id].name = name
                         /\ \E j \in 1 .. k : hist[k][id].parent \in DirIDs(hist[j], dir)

\* A call changes no entry but one that was listed under the name it was
\* given, in the directory that name's lookup gave, at some time - however
\* stale the listing is that the id was taken from (client.go:176-185,
\* 246-253): ids are never mixed up between calls, directories or pages.
TargetWasListed ==
  [][\A c \in Call :
       LET q == call[c]
       IN  q.pc \in {"delete", "rename", "move"} /\ hist' # hist /\ call' # call
             /\ call'[c] # q
           => WasListed(q.src.id, BaseOf(q.job.src), DirOf(q.job.src))]_vars

\* A download is of the file that was listed under the path asked for, and not
\* of another of its name or one another call asked for: addresses are kept
\* apart in the cache, however stale they and the listings are
\* (client.go:141-172).
ServedAsListed ==
  \A c \in Call :
     LET q == call[c]
     IN  q.pc = "proxy" => /\ q.url = q.src.id /\ ~q.src.dir
                           /\ WasListed(q.src.id, BaseOf(q.job.src), DirOf(q.job.src))

\* MKCOL makes a directory only in one its parent's path had named, never in
\* the root because the parent is missing (client.go:225-228).
NewDirWhereAsked ==
  [][\A c \in Call : \A id \in DOMAIN tree' \ DOMAIN tree :
       call[c].pc = "add" /\ call'[c] # call[c]
       => LET dir == DirOf(call[c].job.src)  parent == tree'[id].parent
          IN  IF dir = Root THEN parent = RootId
              ELSE \E k \in DOMAIN hist : parent \in DOMAIN hist[k]
                                           /\ PathOf(hist[k])[parent] = dir]_vars

\* Every call returns: the page loop always comes to an end.
EveryCallReturns == \A c \in Call : call[c].pc # "idle" ~> call[c].pc = "done"

\* "WebDAV semantics are that it should return a 404 Not Found" when the path
\* does not exist (webdav.go:146-148): a DELETE that succeeds was of a path
\* that named something.
DeletedPathExisted ==
  \A c \in Call :
     LET q == call[c]
     IN  q.pc = "done" /\ q.job.op = "remove" /\ q.err = "nil"
         => \E k \in DOMAIN hist : \E i \in DOMAIN hist[k] :
              PathOf(hist[k])[i] = q.job.src
=============================================================================
