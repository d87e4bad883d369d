-------------------------- MODULE DriveClientProofs --------------------------
(***************************************************************************)
(* Proofs about DriveClient, for every drive, every set of calls and every *)
(* page size.  The inductive invariant says of each call what its locals   *)
(* are worth at each place of its code: where a listing or an id came      *)
(* from, which directories a change has flushed, and what is left to read. *)
(***************************************************************************)
EXTENDS DriveClient, Drive115Proofs

-----------------------------------------------------------------------------
(* The inductive invariant.  h is the history of the drive and q a call.   *)

EntryName == Component \cup {""}

Tree == Drives(EntryName)

Asking  == {"cache", "dirid", "page", "set"}
Reading == {"page", "set"}
Serving == {"url", "address", "seturl", "proxy"}

CallRecord ==
  [pc : {"idle", "cache", "dirid", "page", "set", "delete", "rename", "move", "exists",
         "parent", "add", "flush", "url", "address", "seturl", "proxy", "done"},
   job : Job \cup {NoJob}, goal : {"list", "src", "dst"}, key : Name, cid : Int,
   offset : Nat, files : Seq(ListedEntry), src : ListedEntry, url : Nat,
   flush : Seq(Name), err : {"nil", "err", "ErrNotFound", "panic"},
   from : Nat, raced : BOOLEAN, whole : BOOLEAN, at : Nat]

\* WasListed, of the history h.
ListedIn(h, id, name, dir) ==
  \E k \in DOMAIN h : /\ id \in DOMAIN h[k]
                      /\ h[k][id].name = name
                      /\ \E j \in 1 .. k : h[k][id].parent \in DirIDs(h[j], dir)

FilesListed(h, files, dir) ==
  \A k \in DOMAIN files : ListedIn(h, files[k].id, files[k].name, dir)

\* The entry a call works on is what GetFile gave for its path.
Found(h, q) ==
  IF q.job.src = Root
    THEN q.src = RootEntry
    ELSE ListedIn(h, q.src.id, BaseOf(q.job.src), DirOf(q.job.src))

\* The locals' types.  A call has changed nothing before it flushes.
CallType(h, q) ==
  /\ q \in CallRecord /\ q.from <= Len(h) /\ q.at <= Len(h)
  /\ q.pc # "idle" => q.job \in Job
  /\ q.pc \notin {"flush", "done"} => q.at = 0
  /\ q.pc # "flush" <=> q.flush = << >>

\* Inside GetFiles: for whose sake it was called.
AskInv(h, q) ==
  q.pc \in Asking =>
    \/ q.goal = "list" /\ q.job.op = "list"
    \/ /\ q.goal = "src" /\ q.job.op \in {"get", "open", "remove", "move"}
       /\ q.job.src # Root /\ q.key = DirOf(q.job.src)
    \/ /\ q.goal = "dst" /\ q.job.op = "move"
       /\ q.job.src # Root /\ q.job.dst # Root /\ Found(h, q)

\* Inside the page loop: the directory was looked up in the tree that was the
\* current one at from, and what was read of it is in it.
ReadInv(h, q) ==
  /\ q.pc \in {"cache", "dirid"} => q.offset = 0 /\ q.files = << >>
  /\ q.pc \in Reading =>
       /\ q.from >= 1 /\ q.cid \in DirIDAnswers(h[q.from], q.key)
       /\ FilesListed(h, q.files, q.key)

\* Nothing has left the directory since from.
Steady(h, q) ==
  \A k \in q.from .. Len(h) - 1 : Children(h[k], q.cid) \subseteq Children(h[k + 1], q.cid)

\* What of a steady directory was not read yet comes after the offset.
PageInv(h, q) ==
  q.pc \in Reading /\ q.whole /\ Steady(h, q) =>
    LET now == Children(h[Len(h)], q.cid)
    IN  \A i \in Children(h[q.from], q.cid) :
          /\ i \in now
          /\ \/ \E j \in DOMAIN q.files : q.files[j].id = i
             \/ q.pc = "page" /\ Rank(now, i) > q.offset

\* With the entry in hand: which call it is for.
FoundInv(h, q) ==
  /\ q.pc \in {"delete", "rename", "move"} \cup Serving => Found(h, q)
  /\ q.pc = "delete" => q.job.op = "remove"
  /\ q.pc \in {"rename", "move"} => q.job.op = "move" /\ q.job.src # Root /\ q.job.dst # Root
  /\ q.pc = "rename" => DirOf(q.job.src) = DirOf(q.job.dst)
  /\ q.pc \in Serving => q.job.op = "open" /\ ~q.src.dir
  /\ q.pc \in {"seturl", "proxy"} => q.url = q.src.id

\* MakeDir: the parent's id is what the parent's path named at some time.
MkdirInv(h, q) ==
  /\ q.pc \in {"exists", "parent", "add"} => q.job.op = "mkdir"
  /\ q.pc = "add" =>
       /\ \E j \in DOMAIN h : q.cid \in DirIDAnswers(h[j], DirOf(q.job.src))
       /\ DirOf(q.job.src) # Root => q.cid # RootId

CallInv(h, q) ==
  CallType(h, q) /\ AskInv(h, q) /\ ReadInv(h, q) /\ PageInv(h, q) /\ FoundInv(h, q)
    /\ MkdirInv(h, q)

HistInv == hist \in Seq(Tree) /\ Len(hist) \in 1 .. MaxHist

CacheInv(h, listings) ==
  /\ DOMAIN listings \subseteq Name
  /\ \A d \in DOMAIN listings :
       /\ listings[d].files \in Seq(ListedEntry) /\ listings[d].from \in 1 .. Len(h)
       /\ FilesListed(h, listings[d].files, d)

UrlInv == \A k \in DOMAIN urls : urls[k] = k

\* The directories a call that made a change has flushed so far.
Targets(job) == {DirOf(job.src)} \cup (IF job.op = "move" THEN {DirOf(job.dst)} ELSE {})
Flushed(q)   == { d \in Targets(q.job) : \A k \in DOMAIN q.flush : q.flush[k] # d }

\* A flushed directory's older listings, those in the cache and those still
\* being read, are of a call that was reading while it was flushed.
SeenInv ==
  \A c \in Call : call[c].at # 0 =>
    \A d \in Flushed(call[c]) :
      /\ d \in DOMAIN cache /\ cache[d].from < call[c].at => cache[d].raced
      /\ \A p \in Call : call[p].pc \in Reading /\ call[p].key = d
                           /\ call[p].from < call[c].at => call[p].raced

CallsInv == call \in [Call -> CallRecord] /\ \A c \in Call : CallInv(hist, call[c])

IInv == HistInv /\ CacheInv(hist, cache) /\ UrlInv /\ CallsInv /\ SeenInv

-----------------------------------------------------------------------------
(* The history grows, and what was once listed stays so.                   *)

Extends(h, g) == g = h \/ \E t \in Tree : g = Append(h, t)

\* The trees of a history are the drives.
LEMMA TreeIsDrive ==
  ASSUME NEW t
  PROVE  t \in Tree <=> IsDrive(t, EntryName)
BY AllDrives DEF Tree

\* A history that grows keeps its trees at their places.
LEMMA Grown ==
  ASSUME NEW h \in Seq(Tree), NEW g, Extends(h, g)
  PROVE  /\ g \in Seq(Tree)
         /\ Len(h) \in Nat /\ Len(g) \in Nat
         /\ Len(h) <= Len(g) /\ Len(g) <= Len(h) + 1
         /\ DOMAIN h = 1 .. Len(h) /\ DOMAIN g = 1 .. Len(g)
         /\ \A k \in 1 .. Len(h) : g[k] = h[k]
BY DEF Extends

\* What was listed in a history was listed in every longer one.
LEMMA StillListed ==
  ASSUME NEW h \in Seq(Tree), NEW g, Extends(h, g)
  PROVE  /\ \A id, name, dir : ListedIn(h, id, name, dir) => ListedIn(g, id, name, dir)
         /\ \A files, dir : FilesListed(h, files, dir) => FilesListed(g, files, dir)
         /\ \A q : Found(h, q) => Found(g, q)
<1>1. ASSUME NEW id, NEW name, NEW dir, ListedIn(h, id, name, dir)
      PROVE  ListedIn(g, id, name, dir)
  <2>1. PICK k \in DOMAIN h : /\ id \in DOMAIN h[k]
                              /\ h[k][id].name = name
                              /\ \E j \in 1 .. k : h[k][id].parent \in DirIDs(h[j], dir)
    BY <1>1 DEF ListedIn
  <2>2. k \in DOMAIN g /\ g[k] = h[k] /\ \A j \in 1 .. k : g[j] = h[j]
    BY <2>1, Grown
  <2> QED
    BY <2>1, <2>2 DEF ListedIn
<1>2. \A files, dir : FilesListed(h, files, dir) => FilesListed(g, files, dir)
  BY <1>1 DEF FilesListed
<1> QED
  BY <1>1, <1>2 DEF Found

\* An entry that was listed has an id, which is not the root's.
LEMMA ListedHasId ==
  ASSUME NEW h \in Seq(Tree), NEW id, NEW name, NEW dir, ListedIn(h, id, name, dir)
  PROVE  id \in Nat \ {RootId}
<1>1. PICK k \in DOMAIN h : id \in DOMAIN h[k]
  BY DEF ListedIn
<1>2. h[k] \in Tree
  BY <1>1
<1> QED
  BY <1>1, <1>2, TreeIsDrive DEF IsDrive

\* A listing only grows in a directory that nothing leaves: what was not read
\* yet is still to come.
LEMMA PageGrows ==
  ASSUME NEW h \in Seq(Tree), NEW g, Extends(h, g), NEW q,
         CallType(h, q), ReadInv(h, q), PageInv(h, q)
  PROVE  PageInv(g, q)
<1> SUFFICES ASSUME q.pc \in Reading, q.whole, Steady(g, q)
             PROVE  \A i \in Children(g[q.from], q.cid) :
                      /\ i \in Children(g[Len(g)], q.cid)
                      /\ \/ \E j \in DOMAIN q.files : q.files[j].id = i
                         \/ /\ q.pc = "page"
                            /\ Rank(Children(g[Len(g)], q.cid), i) > q.offset
  BY DEF PageInv
<1> DEFINE old == Children(h[Len(h)], q.cid)
           now == Children(g[Len(g)], q.cid)
<1>1. q.from \in 1 .. Len(h) /\ q.offset \in Nat
  BY DEF CallType, CallRecord, ReadInv
<1>2. /\ Len(h) \in Nat /\ Len(g) \in Nat /\ Len(h) <= Len(g) /\ Len(g) <= Len(h) + 1
      /\ \A k \in 1 .. Len(h) : g[k] = h[k]
  BY Grown
<1>3. Steady(h, q)
  <2> SUFFICES ASSUME NEW k \in q.from .. Len(h) - 1
               PROVE  Children(h[k], q.cid) \subseteq Children(h[k + 1], q.cid)
    BY DEF Steady
  <2>1. k \in q.from .. Len(g) - 1 /\ g[k] = h[k] /\ g[k + 1] = h[k + 1]
    BY <1>1, <1>2
  <2> QED
    BY <2>1 DEF Steady
<1>4. old \subseteq now
  <2>1. CASE Len(g) = Len(h)
    BY <1>1, <1>2, <2>1
  <2>2. CASE Len(g) = Len(h) + 1
    <3>1. Len(h) \in q.from .. Len(g) - 1 /\ g[Len(h)] = h[Len(h)]
      BY <1>1, <1>2, <2>2
    <3> QED
      BY <3>1, <2>2 DEF Steady
  <2> QED
    BY <1>2, <2>1, <2>2
<1>5. now \in SUBSET Int /\ IsFiniteSet(now)
  <2>1. g \in Seq(Tree) /\ Len(g) \in 1 .. Len(g)
    BY <1>1, <1>2, Grown
  <2>2. IsDrive(g[Len(g)], EntryName)
    BY <2>1, TreeIsDrive
  <2> QED
    BY <2>2, ChildrenFacts
<1>6. g[q.from] = h[q.from]
  BY <1>1, <1>2
<1>7. ASSUME NEW i \in old, Rank(old, i) > q.offset
      PROVE  Rank(now, i) > q.offset
  <2> DEFINE up(ids) == { j \in ids : j >= i }
  <2>1. up(now) \in SUBSET now /\ up(old) \in SUBSET up(now) /\ up(old) \in SUBSET now
    BY <1>4
  <2>2. IsFiniteSet(up(now)) /\ IsFiniteSet(up(old))
    BY <1>5, <2>1, FS_Subset
  <2>3. Cardinality(up(old)) <= Cardinality(up(now))
    BY <2>1, <2>2, FS_Subset
  <2>4. Cardinality(up(old)) \in Nat /\ Cardinality(up(now)) \in Nat
    BY <2>2, FS_CardinalityType
  <2> QED
    BY <1>1, <1>7, <2>3, <2>4 DEF Rank
<1> QED
  BY <1>3, <1>4, <1>6, <1>7 DEF PageInv

\* What the invariant says of a call outlives every change of the drive.
LEMMA CallGrows ==
  ASSUME NEW h \in Seq(Tree), NEW g, Extends(h, g), NEW q, CallInv(h, q)
  PROVE  CallInv(g, q)
<1>1. CallType(g, q)
  BY Grown DEF CallInv, CallType, CallRecord
<1>2. AskInv(g, q)
  BY StillListed DEF CallInv, AskInv
<1>3. ReadInv(g, q)
  <2>1. ReadInv(h, q)
    BY DEF CallInv
  <2>2. ASSUME q.pc \in Reading
        PROVE  /\ q.from >= 1 /\ q.cid \in DirIDAnswers(g[q.from], q.key)
               /\ FilesListed(g, q.files, q.key)
    <3>1. q.from \in 1 .. Len(h)
      BY <2>1, <2>2 DEF CallInv, CallType, CallRecord, ReadInv
    <3>2. g[q.from] = h[q.from]
      BY <3>1, Grown
    <3> QED
      BY <2>1, <2>2, <3>2, StillListed DEF ReadInv
  <2> QED
    BY <2>1, <2>2 DEF ReadInv
<1>4. PageInv(g, q)
  BY PageGrows DEF CallInv
<1>5. FoundInv(g, q)
  BY StillListed DEF CallInv, FoundInv
<1>6. MkdirInv(g, q)
  BY Grown DEF CallInv, MkdirInv
<1> QED
  BY <1>1, <1>2, <1>3, <1>4, <1>5, <1>6 DEF CallInv

-----------------------------------------------------------------------------
(* The code between two steps: what it makes of a call's locals.           *)

\* A call that has changed nothing so far.
Fresh(h, q) ==
  /\ q \in CallRecord /\ q.job \in Job /\ q.from <= Len(h)
  /\ q.at = 0 /\ q.flush = << >>

\* The invariant of a call that has changed nothing and is not reading.
Settled(h, q) == CallInv(h, q) /\ q.pc \notin Reading /\ q.at = 0

\* The locals of a goroutine that has called nothing.
LEMMA IdleIsCall ==
  /\ Idle \in CallRecord
  /\ Idle.pc = "idle" /\ Idle.from = 0 /\ Idle.at = 0 /\ Idle.flush = << >>
<1>1. << >> \in Seq(ListedEntry) /\ << >> \in Seq(Name) /\ Root \in Name
  BY NameAssumption
<1>2. NoEntry \in ListedEntry
  BY DEF NoEntry, ListedEntry, RootId
<1> QED
  BY <1>1, <1>2 DEF Idle, CallRecord, RootId

\* A call that returns keeps no obligations, and tells of a change only with nil.
LEMMA ReplyInv ==
  ASSUME NEW h \in Seq(Tree), NEW q \in CallRecord, q.job \in Job, q.at <= Len(h),
         NEW err \in {"nil", "err", "ErrNotFound", "panic"}, NEW r, r = Reply(q, err)
  PROVE  /\ CallInv(h, r) /\ r.pc = "done" /\ r.job = q.job /\ r.flush = << >>
         /\ r.at = IF err = "nil" THEN q.at ELSE 0
<1>1. /\ r \in CallRecord /\ r.pc = "done" /\ r.job = q.job /\ r.flush = << >>
      /\ r.from = 0 /\ r.at = IF err = "nil" THEN q.at ELSE 0
  <2>1. q.at \in Nat /\ q.job \in Job \cup {NoJob}
    BY DEF CallRecord
  <2> QED
    BY <2>1, IdleIsCall DEF Reply, CallRecord
<1>2. Len(h) \in Nat
  OBVIOUS
<1>3. CallType(h, r)
  BY <1>1, <1>2 DEF CallType, CallRecord
<1>4. AskInv(h, r) /\ ReadInv(h, r) /\ PageInv(h, r) /\ FoundInv(h, r) /\ MkdirInv(h, r)
  BY <1>1 DEF AskInv, ReadInv, PageInv, FoundInv, MkdirInv, Asking, Reading, Serving
<1> QED
  BY <1>1, <1>3, <1>4 DEF CallInv

\* GetFiles is called: for whose sake, and what of.
LEMMA AskFilesInv ==
  ASSUME NEW h \in Seq(Tree), NEW q, Fresh(h, q),
         NEW goal \in {"list", "src", "dst"}, NEW dir \in Name,
         \/ goal = "list" /\ q.job.op = "list"
         \/ /\ goal = "src" /\ q.job.op \in {"get", "open", "remove", "move"}
            /\ q.job.src # Root /\ dir = DirOf(q.job.src)
         \/ /\ goal = "dst" /\ q.job.op = "move"
            /\ q.job.src # Root /\ q.job.dst # Root /\ Found(h, q),
         NEW r, r = AskFiles(q, goal, dir)
  PROVE  Settled(h, r)
<1>1. /\ r \in CallRecord /\ r.pc = "cache" /\ r.goal = goal /\ r.key = dir
      /\ r.job = q.job /\ r.src = q.src /\ r.flush = << >> /\ r.from = q.from /\ r.at = 0
      /\ r.offset = 0 /\ r.files = << >>
  <2>1. << >> \in Seq(ListedEntry)
    OBVIOUS
  <2> QED
    BY <2>1 DEF Fresh, AskFiles, CallRecord
<1>2. CallType(h, r)
  BY <1>1 DEF Fresh, CallType
<1>3. AskInv(h, r)
  BY <1>1 DEF AskInv, Found
<1>4. ReadInv(h, r) /\ PageInv(h, r) /\ FoundInv(h, r) /\ MkdirInv(h, r)
  BY <1>1 DEF ReadInv, PageInv, FoundInv, MkdirInv, Reading, Serving
<1> QED
  BY <1>1, <1>2, <1>3, <1>4 DEF CallInv, Settled, Reading

\* A call goes on with the entry it found.
LEMMA GoOnInv ==
  ASSUME NEW h \in Seq(Tree), NEW q, Fresh(h, q), Found(h, q),
         NEW pc \in {"delete", "rename", "move", "url"},
         pc = "delete" => q.job.op = "remove",
         pc \in {"rename", "move"} =>
           q.job.op = "move" /\ q.job.src # Root /\ q.job.dst # Root,
         pc = "rename" => DirOf(q.job.src) = DirOf(q.job.dst),
         pc = "url" => q.job.op = "open" /\ ~q.src.dir,
         NEW cid \in Int, NEW r, r = [q EXCEPT !.pc = pc, !.cid = cid]
  PROVE  Settled(h, r)
<1>1. /\ r \in CallRecord /\ r.pc = pc
      /\ r.job = q.job /\ r.src = q.src /\ r.flush = << >> /\ r.from = q.from /\ r.at = 0
  BY DEF Fresh, CallRecord
<1>2. CallType(h, r)
  BY <1>1 DEF Fresh, CallType
<1>3. Found(h, r)
  BY <1>1 DEF Found
<1>4. FoundInv(h, r)
  BY <1>1, <1>3 DEF FoundInv, Serving
<1>5. AskInv(h, r) /\ ReadInv(h, r) /\ PageInv(h, r) /\ MkdirInv(h, r)
  BY <1>1 DEF AskInv, ReadInv, PageInv, MkdirInv, Asking, Reading
<1> QED
  BY <1>1, <1>2, <1>4, <1>5 DEF CallInv, Settled, Reading

\* MoveFile, once it has the destination's entry: by the job and the entry found
\* the call goes to rename, to move, or returns.
LEMMA GotDstInv ==
  ASSUME NEW h \in Seq(Tree), NEW q, Fresh(h, q), Found(h, q),
         q.job.op = "move", q.job.src # Root, q.job.dst # Root,
         NEW fi \in ListedEntry, NEW r, r = GotDst(q, fi)
  PROVE  Settled(h, r)
<1>1. CASE r = Reply(q, "nil")
  BY <1>1, ReplyInv DEF Fresh, Settled, Reading
<1>2. CASE /\ DirOf(q.job.src) = DirOf(q.job.dst)
           /\ r = [q EXCEPT !.pc = "rename"]
  <2>1. r = [q EXCEPT !.pc = "rename", !.cid = q.cid] /\ q.cid \in Int
    BY <1>2 DEF Fresh, CallRecord
  <2> QED
    BY <1>2, <2>1, GoOnInv
<1>3. CASE r = [q EXCEPT !.pc = "move", !.cid = fi.id]
  <2>1. fi.id \in Nat
    BY DEF ListedEntry
  <2>2. fi.id \in Int
    BY <2>1
  <2> QED
    BY <1>3, <2>2, GoOnInv
<1> QED
  BY <1>1, <1>2, <1>3 DEF GotDst

\* The root's entry is what GetFile gives for the root, and what was listed is
\* what it gives for another path.
LEMMA GotSrcInv ==
  ASSUME NEW h \in Seq(Tree), NEW q0, Fresh(h, q0),
         q0.job.op \in {"get", "open", "remove", "move"},
         NEW fi \in ListedEntry, Found(h, [q0 EXCEPT !.src = fi]),
         NEW r, r = GotSrc(q0, fi)
  PROVE  Settled(h, r)
<1>0. PICK q : q = [q0 EXCEPT !.src = fi]
  OBVIOUS
<1>1. Fresh(h, q) /\ Found(h, q) /\ q.src = fi /\ q.job = q0.job /\ q.cid \in Int
  BY <1>0 DEF Fresh, CallRecord
<1>2. ASSUME NEW err \in {"nil", "err"}, r = Reply(q, err)
      PROVE  Settled(h, r)
  BY <1>1, <1>2, ReplyInv DEF Fresh, Settled, Reading
<1>3. CASE q0.job.op = "get"
  BY <1>0, <1>1, <1>2, <1>3 DEF GotSrc
<1>4. CASE q0.job.op = "open"
  <2>1. CASE fi.dir
    BY <1>0, <1>1, <1>2, <1>4, <2>1 DEF GotSrc
  <2>2. CASE ~fi.dir
    <3>1. r = [q EXCEPT !.pc = "url"]
      BY <1>0, <1>1, <1>4, <2>2 DEF GotSrc
    <3>2. r = [q EXCEPT !.pc = "url", !.cid = q.cid]
      BY <1>1, <3>1 DEF Fresh, CallRecord
    <3> QED
      BY <1>1, <1>4, <2>2, <3>2, GoOnInv
  <2> QED
    BY <2>1, <2>2
<1>5. CASE q0.job.op = "remove"
  <2>1. r = [q EXCEPT !.pc = "delete"]
    BY <1>0, <1>1, <1>5 DEF GotSrc
  <2>2. r = [q EXCEPT !.pc = "delete", !.cid = q.cid]
    BY <1>1, <2>1 DEF Fresh, CallRecord
  <2> QED
    BY <1>1, <1>5, <2>2, GoOnInv
<1>6. CASE q0.job.op = "move"
  <2>1. r = IF q.job.src = Root \/ q.job.dst = Root THEN Reply(q, "nil")
            ELSE IF DirOf(q.job.dst) = Root THEN GotDst(q, RootEntry)
            ELSE AskFiles(q, "dst", DirOf(DirOf(q.job.dst)))
    BY <1>0, <1>1, <1>6 DEF GotSrc
  <2>2. q.job.dst \in Name /\ DirOf(DirOf(q.job.dst)) \in Name
    BY <1>1, DirOfName, DriveClientAssumption DEF Fresh
  <2>3. CASE q.job.src = Root \/ q.job.dst = Root
    BY <1>2, <2>1, <2>3
  <2>4. CASE q.job.src # Root /\ q.job.dst # Root /\ DirOf(q.job.dst) = Root
    <3>1. RootEntry \in ListedEntry
      BY DEF RootEntry, ListedEntry, RootId
    <3> QED
      BY <1>1, <1>6, <2>1, <2>4, <3>1, GotDstInv
  <2>5. CASE q.job.src # Root /\ q.job.dst # Root /\ DirOf(q.job.dst) # Root
    BY <1>1, <1>6, <2>1, <2>2, <2>5, AskFilesInv
  <2> QED
    BY <2>3, <2>4, <2>5
<1> QED
  BY <1>3, <1>4, <1>5, <1>6

\* GetFiles has returned files: a listing of the directory that was asked for.
LEMMA GotFilesInv ==
  ASSUME NEW h \in Seq(Tree), NEW q, Fresh(h, q), q.pc \in Asking, AskInv(h, q),
         NEW files \in Seq(ListedEntry), FilesListed(h, files, q.key),
         NEW r, r = GotFiles(q, files)
  PROVE  Settled(h, r)
<1> DEFINE name == IF q.goal = "src" THEN BaseOf(q.job.src) ELSE BaseOf(DirOf(q.job.dst))
           hits == { i \in DOMAIN files : files[i].name = name }
<1>1. PICK rest : rest = [q EXCEPT !.key = Root, !.cid = RootId, !.offset = 0,
                                   !.files = << >>, !.from = 0, !.raced = FALSE,
                                   !.whole = TRUE]
  OBVIOUS
<1>2. /\ r = IF q.goal = "list" THEN Reply(q, "nil")
            ELSE IF hits = {} THEN Reply(q, "ErrNotFound")
            ELSE IF q.goal = "src" THEN GotSrc(rest, files[Min(hits)])
            ELSE GotDst(rest, files[Min(hits)])
  BY <1>1 DEF GotFiles
<1>3. Len(files) \in Nat /\ DOMAIN files = 1 .. Len(files) /\ Len(h) \in Nat
  OBVIOUS
<1>4. hits # {} => Min(hits) \in hits
  <2>1. hits \in SUBSET (1 .. Len(files)) /\ hits \in SUBSET Int
    BY <1>3
  <2> HIDE DEF hits
  <2>2. IsFiniteSet(1 .. Len(files))
    BY <1>3, FS_Interval
  <2>3. IsFiniteSet(hits)
    BY <2>1, <2>2, FS_Subset
  <2> QED
    BY <2>1, <2>3, MaxMin
<1>5. rest \in CallRecord /\ rest.job = q.job /\ rest.src = q.src /\ Fresh(h, rest)
  <2>1. << >> \in Seq(ListedEntry) /\ Root \in Name /\ RootId \in Int
    BY NameAssumption DEF RootId
  <2>2. /\ rest \in CallRecord /\ rest.job = q.job /\ rest.src = q.src /\ rest.from = 0
        /\ rest.at = 0 /\ rest.flush = << >>
    BY <1>1, <2>1 DEF Fresh, CallRecord
  <2> QED
    BY <1>3, <2>2 DEF Fresh
<1>6. ASSUME NEW err \in {"nil", "ErrNotFound"}, r = Reply(q, err)
      PROVE  Settled(h, r)
  BY <1>3, <1>6, ReplyInv DEF Fresh, Settled, Reading
<1>7. CASE hits # {} /\ q.goal = "src"
  <2>1. PICK fi : fi = files[Min(hits)]
    OBVIOUS
  <2>2. fi \in ListedEntry /\ fi.name = BaseOf(q.job.src) /\ ListedIn(h, fi.id, fi.name, q.key)
    BY <1>3, <1>4, <1>7, <2>1 DEF FilesListed
  <2>3. /\ q.job.op \in {"get", "open", "remove", "move"} /\ q.job.src # Root
        /\ q.key = DirOf(q.job.src)
    BY <1>7 DEF AskInv
  <2>4. PICK q1 : q1 = [rest EXCEPT !.src = fi]
    OBVIOUS
  <2>5. q1.job = q.job /\ q1.src = fi
    BY <1>5, <2>4 DEF CallRecord
  <2>6. Found(h, q1)
    BY <2>2, <2>3, <2>5 DEF Found
  <2>7. r = GotSrc(rest, fi)
    BY <1>2, <1>7, <2>1
  <2> QED
    BY <1>5, <2>2, <2>3, <2>4, <2>6, <2>7, GotSrcInv
<1>8. CASE hits # {} /\ q.goal = "dst"
  <2>1. PICK fi : fi = files[Min(hits)]
    OBVIOUS
  <2>2. fi \in ListedEntry
    BY <1>3, <1>4, <1>8, <2>1
  <2>3. q.job.op = "move" /\ q.job.src # Root /\ q.job.dst # Root /\ Found(h, q)
    BY <1>8 DEF AskInv
  <2>4. Found(h, rest)
    BY <1>5, <2>3 DEF Found
  <2>5. r = GotDst(rest, fi)
    BY <1>2, <1>8, <2>1
  <2> QED
    BY <1>5, <2>2, <2>3, <2>4, <2>5, GotDstInv
<1>9. q.goal \in {"list", "src", "dst"}
  BY DEF Fresh, CallRecord
<1> QED
  BY <1>2, <1>6, <1>7, <1>8, <1>9

\* Where a call of each operation starts.
LEMMA BeginInv ==
  ASSUME NEW h \in Seq(Tree), NEW job \in Job, NEW r, r = Begin(job)
  PROVE  Settled(h, r)
<1>1. PICK q : q = [Idle EXCEPT !.job = job]
  OBVIOUS
<1>2. job \in [op : Op, src : Name, dst : Name]
  BY DriveClientAssumption
<1>3. Len(h) \in Nat /\ q.job = job /\ Fresh(h, q)
  <2>1. q \in CallRecord /\ q.job = job /\ q.from = 0 /\ q.at = 0 /\ q.flush = << >>
    BY <1>1, IdleIsCall DEF CallRecord
  <2> QED
    BY <2>1 DEF Fresh
<1>4. CASE job.op = "list"
  <2>1. r = AskFiles(q, "list", job.src)
    BY <1>1, <1>4 DEF Begin
  <2> QED
    BY <1>2, <1>3, <1>4, <2>1, AskFilesInv
<1>5. CASE job.op = "mkdir"
  <2>1. r = [q EXCEPT !.pc = "exists"]
    BY <1>1, <1>5 DEF Begin
  <2>2. /\ r \in CallRecord /\ r.pc = "exists" /\ r.job = job /\ r.flush = << >>
        /\ r.from = q.from /\ r.at = 0
    BY <1>3, <2>1 DEF Fresh, CallRecord
  <2>3. CallType(h, r)
    BY <1>3, <2>2 DEF CallType, Fresh
  <2>4. AskInv(h, r) /\ ReadInv(h, r) /\ PageInv(h, r) /\ FoundInv(h, r) /\ MkdirInv(h, r)
    BY <1>5, <2>2 DEF AskInv, ReadInv, PageInv, FoundInv, MkdirInv, Asking, Reading, Serving
  <2> QED
    BY <2>2, <2>3, <2>4 DEF Settled, CallInv, Reading
<1>6. CASE job.op \in {"get", "open", "remove", "move"}
  <2>1. CASE job.src = Root
    <3>1. r = GotSrc(q, RootEntry)
      BY <1>1, <1>6, <2>1 DEF Begin
    <3>2. RootEntry \in ListedEntry
      BY DEF RootEntry, ListedEntry, RootId
    <3>3. PICK q1 : q1 = [q EXCEPT !.src = RootEntry]
      OBVIOUS
    <3>4. q1.job = job /\ q1.src = RootEntry
      BY <1>3, <3>3 DEF Fresh, CallRecord
    <3>5. Found(h, q1)
      BY <2>1, <3>4 DEF Found
    <3> QED
      BY <1>3, <1>6, <3>1, <3>2, <3>3, <3>5, GotSrcInv
  <2>2. CASE job.src # Root
    <3>1. r = AskFiles(q, "src", DirOf(job.src))
      BY <1>1, <1>6, <2>2 DEF Begin
    <3>2. DirOf(job.src) \in Name
      BY <1>2, DirOfName
    <3> QED
      BY <1>3, <1>6, <2>2, <3>1, <3>2, AskFilesInv
  <2> QED
    BY <2>1, <2>2
<1> QED
  BY <1>2, <1>4, <1>5, <1>6 DEF Op

\* The elements of two sequences, put one after the other.
Joins(s, a, b) ==
  /\ \A k \in DOMAIN a : \E j \in DOMAIN s : s[j] = a[k]
  /\ \A k \in DOMAIN b : \E j \in DOMAIN s : s[j] = b[k]
  /\ \A j \in DOMAIN s : \/ \E k \in DOMAIN a : s[j] = a[k]
                        \/ \E k \in DOMAIN b : s[j] = b[k]

\* The entries of a concatenation are those of its parts.
LEMMA ConcatJoins ==
  ASSUME NEW S, NEW a \in Seq(S), NEW b \in Seq(S)
  PROVE  a \o b \in Seq(S) /\ Joins(a \o b, a, b)
<1>0. PICK s : s = a \o b
  OBVIOUS
<1>1. PICK m \in Nat, n \in Nat : m = Len(a) /\ n = Len(b)
  OBVIOUS
<1>2. /\ s \in Seq(S) /\ Len(s) = m + n
      /\ \A i \in 1 .. m + n : s[i] = IF i <= m THEN a[i] ELSE b[i - m]
  BY <1>0, <1>1, ConcatProperties
<1>3. DOMAIN a = 1 .. m /\ DOMAIN b = 1 .. n /\ DOMAIN s = 1 .. m + n
  BY <1>1, <1>2
<1>4. ASSUME NEW k \in 1 .. m
      PROVE  k \in 1 .. m + n /\ s[k] = a[k]
  BY <1>2
<1>5. ASSUME NEW k \in 1 .. n
      PROVE  m + k \in 1 .. m + n /\ s[m + k] = b[k]
  <2>1. m + k \in 1 .. m + n /\ ~(m + k <= m) /\ (m + k) - m = k
    OBVIOUS
  <2> QED
    BY <1>2, <2>1
<1>6. ASSUME NEW j \in 1 .. m + n
      PROVE  \/ j \in 1 .. m /\ s[j] = a[j]
             \/ j - m \in 1 .. n /\ s[j] = b[j - m]
  BY <1>2
<1> QED
  BY <1>0, <1>2, <1>3, <1>4, <1>5, <1>6 DEF Joins

\* A page of the current tree is read.
ReadPage(q, t) ==
  LET next == q.offset + PageSize
  IN  [q EXCEPT !.files = @ \o Page(t, q.cid, PageSize, q.offset), !.offset = next,
                !.pc = IF LastPage(next, Cardinality(Children(t, q.cid)))
                         THEN "set" ELSE "page"]

\* A page read: its entries are in the directory now, and with the pages before it
\* they are all whose rank is at most the new offset.
LEMMA ReadPageInv ==
  ASSUME NEW h \in Seq(Tree), Len(h) >= 1, NEW q, CallInv(h, q), q.pc = "page",
         NEW t, t = h[Len(h)], NEW r, r = ReadPage(q, t)
  PROVE  /\ CallInv(h, r) /\ r.pc \in Reading /\ r.key = q.key /\ r.from = q.from
         /\ r.raced = q.raced /\ r.at = 0
<1>0. PICK page, ids, next : /\ page = Page(t, q.cid, PageSize, q.offset)
                             /\ ids = Children(t, q.cid) /\ next = q.offset + PageSize
  OBVIOUS
<1>1. /\ q \in CallRecord /\ q.offset \in Nat /\ q.files \in Seq(ListedEntry)
      /\ PageSize \in Nat \ {0} /\ Len(h) \in Nat
      /\ q.from \in 1 .. Len(h) /\ next \in Nat
  <2>1. q \in CallRecord /\ q.from <= Len(h) /\ q.from >= 1
    BY DEF CallInv, CallType, ReadInv, Reading
  <2>2. q.offset \in Nat /\ q.files \in Seq(ListedEntry) /\ q.from \in Nat
    BY <2>1 DEF CallRecord
  <2>3. PageSize \in Nat \ {0}
    BY DriveClientAssumption
  <2>4. Len(h) \in Nat
    OBVIOUS
  <2> QED
    BY <1>0, <2>1, <2>2, <2>3, <2>4
<1>2. t \in Tree /\ IsDrive(t, EntryName)
  BY <1>1, TreeIsDrive
<1>3. PICK Row : Row = [id : Nat \ {RootId}, name : EntryName, dir : BOOLEAN]
  OBVIOUS
<1>4. /\ page \in Seq(Row)
      /\ \A k \in DOMAIN page : page[k].id \in ids /\ page[k].name = t[page[k].id].name
      /\ \A i \in ids : Rank(ids, i) \in q.offset + 1 .. q.offset + PageSize
           => \E k \in DOMAIN page : page[k].id = i
  <2>1. PageShows(page, t, EntryName, ids, PageSize, q.offset)
    BY <1>0, <1>1, <1>2, PageFacts
  <2> QED
    BY <1>3, <2>1 DEF PageShows
<1>5. page \in Seq(ListedEntry)
  <2>1. Row \subseteq ListedEntry
    BY <1>3 DEF ListedEntry, EntryName
  <2> QED
    BY <1>4, <2>1, SeqMonotonic
<1>6. PICK files : files = q.files \o page
  OBVIOUS
<1>7. files \in Seq(ListedEntry) /\ Joins(files, q.files, page)
  BY <1>1, <1>5, <1>6, ConcatJoins
<1>8. PICK pc \in {"set", "page"} :
        /\ pc = IF LastPage(next, Cardinality(ids)) THEN "set" ELSE "page"
        /\ r = [q EXCEPT !.files = files, !.offset = next, !.pc = pc]
  <2>1. r = [q EXCEPT !.files = q.files \o page, !.offset = next,
                      !.pc = IF LastPage(next, Cardinality(ids)) THEN "set" ELSE "page"]
    BY <1>0 DEF ReadPage
  <2> QED
    BY <1>6, <2>1
<1>9. /\ r \in CallRecord /\ r.pc = pc /\ r.files = files /\ r.offset = next
      /\ r.job = q.job /\ r.goal = q.goal /\ r.key = q.key /\ r.cid = q.cid /\ r.src = q.src
      /\ r.flush = q.flush /\ r.from = q.from /\ r.raced = q.raced /\ r.whole = q.whole
      /\ r.at = q.at
  BY <1>1, <1>7, <1>8 DEF CallRecord
<1>10. CallType(h, r) /\ r.at = 0
  BY <1>9 DEF CallInv, CallType
<1>11. AskInv(h, r)
  BY <1>9 DEF CallInv, AskInv, Asking, Found
<1>12. ReadInv(h, r)
  <2>1. q.cid \in DirIDAnswers(h[q.from], q.key) /\ FilesListed(h, q.files, q.key)
    BY DEF CallInv, ReadInv, Reading
  <2>2. ASSUME NEW k \in DOMAIN page
        PROVE  ListedIn(h, page[k].id, page[k].name, q.key)
    <3>1. page[k].id \in ids /\ page[k].name = t[page[k].id].name
      BY <1>4
    <3>2. q.cid # NoId
      BY <1>0, <1>2, <3>1, ChildrenFacts
    <3>3. q.cid \in DirIDs(h[q.from], q.key)
      BY <2>1, <3>2 DEF DirIDAnswers
    <3>4. page[k].id \in DOMAIN t /\ t[page[k].id].parent = q.cid
      BY <1>0, <3>1 DEF Children
    <3>5. Len(h) \in DOMAIN h
      BY <1>1
    <3> QED
      BY <1>1, <3>1, <3>3, <3>4, <3>5 DEF ListedIn
  <2>3. FilesListed(h, files, q.key)
    <3> SUFFICES ASSUME NEW k \in DOMAIN files
                 PROVE  ListedIn(h, files[k].id, files[k].name, q.key)
      BY DEF FilesListed
    <3> QED
      BY <1>7, <2>1, <2>2 DEF FilesListed, Joins
  <2>4. r.pc \notin {"cache", "dirid"} /\ q.from >= 1
    BY <1>1, <1>8, <1>9
  <2> QED
    BY <1>9, <2>1, <2>3, <2>4 DEF ReadInv
<1>13. PageInv(h, r)
  <2> SUFFICES ASSUME q.whole, Steady(h, q), NEW i \in Children(h[q.from], q.cid)
               PROVE  /\ i \in ids
                      /\ \/ \E j \in DOMAIN files : files[j].id = i
                         \/ pc = "page" /\ Rank(ids, i) > next
    BY <1>0, <1>9 DEF PageInv, Steady
  <2>1. /\ i \in ids
        /\ \/ \E j \in DOMAIN q.files : q.files[j].id = i
           \/ Rank(ids, i) > q.offset
    BY <1>0 DEF CallInv, PageInv, Reading
  <2>2. ASSUME NEW k \in DOMAIN q.files, q.files[k].id = i
        PROVE  \E j \in DOMAIN files : files[j].id = i
    <3>1. PICK j \in DOMAIN files : files[j] = q.files[k]
      BY <1>7 DEF Joins
    <3> QED
      BY <2>2, <3>1
  <2>3. CASE Rank(ids, i) > q.offset
    <3>1. Rank(ids, i) \in 1 .. Cardinality(ids) /\ Cardinality(ids) \in Nat
      <4>1. ids \in SUBSET Int /\ IsFiniteSet(ids)
        BY <1>0, <1>2, ChildrenFacts
      <4> QED
        BY <2>1, <4>1, RankBijection
    <3>2. CASE Rank(ids, i) <= next
      <4>1. Rank(ids, i) \in q.offset + 1 .. q.offset + PageSize
        BY <1>0, <1>1, <2>3, <3>1, <3>2
      <4>2. PICK k \in DOMAIN page : page[k].id = i
        BY <1>4, <2>1, <4>1
      <4>3. PICK j \in DOMAIN files : files[j] = page[k]
        BY <1>7 DEF Joins
      <4> QED
        BY <2>1, <4>2, <4>3
    <3>3. CASE Rank(ids, i) > next
      <4>1. ~LastPage(next, Cardinality(ids))
        BY <1>1, <3>1, <3>3 DEF LastPage
      <4> QED
        BY <1>8, <2>1, <3>3, <4>1
    <3> QED
      BY <1>1, <3>1, <3>2, <3>3
  <2> QED
    BY <2>1, <2>2, <2>3
<1>14. FoundInv(h, r) /\ MkdirInv(h, r)
  BY <1>8, <1>9 DEF FoundInv, MkdirInv, Serving
<1> QED
  BY <1>8, <1>9, <1>10, <1>11, <1>12, <1>13, <1>14 DEF CallInv, Reading

\* The id of the directory was looked up: it is all to be read.
StartReading(q, cid, n) == [q EXCEPT !.pc = "page", !.cid = cid, !.from = n]

\* The page loop starts with everything of the directory still to come.
LEMMA StartReadingInv ==
  ASSUME NEW h \in Seq(Tree), Len(h) >= 1, NEW q, CallInv(h, q), q.pc = "dirid",
         NEW cid \in DirIDAnswers(h[Len(h)], q.key),
         NEW r, r = StartReading(q, cid, Len(h))
  PROVE  CallInv(h, r) /\ r.at = 0 /\ r.from = Len(h) /\ r.pc = "page"
<1>1. q \in CallRecord /\ Len(h) \in Nat /\ q.offset = 0 /\ q.files = << >> /\ q.at = 0
  BY DEF CallInv, CallType, ReadInv
<1>2. PICK t \in Tree : t = h[Len(h)]
  BY <1>1
<1>3. cid \in Int
  BY <1>2, TreeIsDrive, DirIDsFacts DEF DirIDAnswers, NoId
<1>4. /\ r \in CallRecord /\ r.pc = "page" /\ r.cid = cid /\ r.from = Len(h)
      /\ r.files = q.files /\ r.offset = q.offset /\ r.job = q.job /\ r.goal = q.goal
      /\ r.key = q.key /\ r.src = q.src /\ r.flush = q.flush /\ r.at = q.at
  BY <1>1, <1>3 DEF CallRecord, StartReading
<1>5. CallType(h, r)
  BY <1>1, <1>4 DEF CallInv, CallType
<1>6. AskInv(h, r)
  BY <1>4 DEF CallInv, AskInv, Asking, Found
<1>7. ReadInv(h, r)
  BY <1>1, <1>4 DEF ReadInv, FilesListed
<1>8. PageInv(h, r)
  <2> SUFFICES ASSUME NEW i \in Children(h[Len(h)], cid)
               PROVE  Rank(Children(h[Len(h)], cid), i) > 0
    BY <1>1, <1>4 DEF PageInv
  <2>1. PICK ids : ids = Children(h[Len(h)], cid)
    OBVIOUS
  <2>2. ids \in SUBSET Int /\ IsFiniteSet(ids)
    BY <1>2, <2>1, TreeIsDrive, ChildrenFacts
  <2> QED
    BY <2>1, <2>2, RankBijection
<1>9. FoundInv(h, r) /\ MkdirInv(h, r)
  BY <1>4 DEF FoundInv, MkdirInv, Serving
<1> QED
  BY <1>1, <1>4, <1>5, <1>6, <1>7, <1>8, <1>9 DEF CallInv

-----------------------------------------------------------------------------
(* The steps preserve the invariant.                                       *)

\* What a step may make of the call q, as far as the flushed directories go:
\* it is not about to say that it changed the drive before it has flushed, and
\* it is not reading a directory from before without having been told.
Careful(q, r) ==
  /\ r.at = 0 \/ Flushed(r) = {}
  /\ r.pc \in Reading =>
       \/ r.from = Len(hist)
       \/ q.pc \in Reading /\ r.key = q.key /\ r.from = q.from /\ r.raced = q.raced

\* The invariant as the step lemmas use it, for one call.
LEMMA InvParts ==
  ASSUME IInv, NEW c \in Call
  PROVE  /\ hist \in Seq(Tree) /\ Len(hist) >= 1 /\ Len(hist) \in Nat /\ tree \in Tree
         /\ tree = hist[Len(hist)]
         /\ call[c] \in CallRecord /\ CallInv(hist, call[c])
<1>1. hist \in Seq(Tree) /\ Len(hist) \in 1 .. MaxHist
  BY DEF IInv, HistInv
<1>2. Len(hist) \in Nat /\ Len(hist) >= 1
  <2>1. MaxHist \in Nat
    BY DriveClientAssumption
  <2> QED
    BY <1>1, <2>1
<1> QED
  BY <1>1, <1>2 DEF IInv, CallsInv, tree

\* A step that makes r of a call, and may change the drive.
LEMMA CallMoves ==
  ASSUME IInv, NEW c \in Call, NEW r, Become(c, r),
         Extends(hist, hist'), Len(hist') <= MaxHist, UNCHANGED << cache, urls >>,
         CallInv(hist', r), Careful(call[c], r)
  PROVE  IInv'
<1>1. /\ hist \in Seq(Tree) /\ Len(hist) \in Nat /\ Len(hist) >= 1
      /\ \A p \in Call : call[p] \in CallRecord /\ CallInv(hist, call[p])
  BY InvParts
<1>2. /\ hist' \in Seq(Tree) /\ Len(hist') \in Nat /\ Len(hist) <= Len(hist')
  BY <1>1, Grown
<1>3. HistInv'
  <2>1. MaxHist \in Nat
    BY DriveClientAssumption
  <2> QED
    BY <1>1, <1>2, <2>1 DEF HistInv
<1>4. CacheInv(hist, cache)'
  BY <1>1, <1>2, StillListed DEF IInv, CacheInv
<1>5. UrlInv'
  BY DEF IInv, UrlInv
<1>6. r \in CallRecord
  BY DEF CallInv, CallType
<1>7. \A p \in Call : call'[p] = IF p = c THEN r ELSE call[p]
  BY DEF Become, IInv, CallsInv
<1>8. CallsInv'
  <2>1. call' \in [Call -> CallRecord]
    BY <1>6 DEF Become, IInv, CallsInv
  <2>2. ASSUME NEW p \in Call
        PROVE  CallInv(hist', call'[p])
    BY <1>1, <1>7, CallGrows
  <2> QED
    BY <2>1, <2>2 DEF CallsInv
<1>9. SeenInv'
  <2> SUFFICES ASSUME NEW a \in Call, call'[a].at # 0, NEW d \in Flushed(call'[a])
               PROVE  /\ d \in DOMAIN cache /\ cache[d].from < call'[a].at => cache[d].raced
                      /\ \A p \in Call : call'[p].pc \in Reading /\ call'[p].key = d
                                           /\ call'[p].from < call'[a].at => call'[p].raced
    BY DEF SeenInv
  <2>1. a # c /\ call'[a] = call[a]
    BY <1>7 DEF Careful
  <2>2. call[a].at \in Nat /\ call[a].at <= Len(hist)
    BY <1>1 DEF CallInv, CallType, CallRecord
  <2>3. d \in DOMAIN cache /\ cache[d].from < call[a].at => cache[d].raced
    BY <2>1 DEF IInv, SeenInv
  <2>4. ASSUME NEW p \in Call, call'[p].pc \in Reading, call'[p].key = d,
               call'[p].from < call[a].at
        PROVE  call'[p].raced
    <3>1. CASE p # c
      BY <1>7, <2>1, <2>4, <3>1 DEF IInv, SeenInv
    <3>2. CASE p = c
      <4>1. r.pc \in Reading /\ r.key = d /\ r.from < call[a].at /\ call'[p] = r
        BY <1>7, <2>4, <3>2
      <4>2. r.from # Len(hist)
        BY <1>1, <2>2, <4>1
      <4>3. call[c].pc \in Reading /\ call[c].key = d /\ call[c].from < call[a].at
            /\ call[c].raced = r.raced
        BY <4>1, <4>2 DEF Careful
      <4> QED
        BY <2>1, <4>1, <4>3 DEF IInv, SeenInv
    <3> QED
      BY <3>1, <3>2
  <2> QED
    BY <2>1, <2>3, <2>4
<1> QED
  BY <1>3, <1>4, <1>5, <1>8, <1>9 DEF IInv

\* A call in the middle of its work has changed nothing yet, and may return.
LEMMA MidCall ==
  ASSUME IInv, NEW c \in Call, call[c].pc \notin {"idle", "flush", "done"}
  PROVE  /\ Fresh(hist, call[c])
         /\ \A g, err : Extends(hist, g) /\ err \in {"nil", "err", "ErrNotFound", "panic"}
              => CallInv(g, Reply(call[c], err)) /\ Careful(call[c], Reply(call[c], err))
<1>1. PICK q : q = call[c]
  OBVIOUS
<1>2. CallInv(hist, q) /\ hist \in Seq(Tree)
  BY <1>1, InvParts
<1>3. Fresh(hist, q)
  BY <1>1, <1>2 DEF Fresh, CallInv, CallType
<1>4. ASSUME NEW g, Extends(hist, g), NEW err \in {"nil", "err", "ErrNotFound", "panic"}
      PROVE  CallInv(g, Reply(q, err)) /\ Careful(q, Reply(q, err))
  <2>1. g \in Seq(Tree) /\ Len(g) \in Nat
    BY <1>2, <1>4, Grown
  <2>2. q \in CallRecord /\ q.job \in Job /\ q.at = 0 /\ q.at <= Len(g)
    BY <1>3, <2>1 DEF Fresh
  <2>3. PICK r : r = Reply(q, err)
    OBVIOUS
  <2>4. CallInv(g, r) /\ r.pc = "done" /\ r.at = 0
    BY <2>1, <2>2, <2>3, ReplyInv
  <2> QED
    BY <2>3, <2>4 DEF Careful, Reading
<1> QED
  BY <1>1, <1>3, <1>4

\* A step that only returns from a call.
LEMMA ReplyStep ==
  ASSUME IInv, NEW c \in Call, call[c].pc \notin {"idle", "flush", "done"},
         NEW err \in {"nil", "err", "ErrNotFound", "panic"},
         Become(c, Reply(call[c], err)), UNCHANGED << hist, cache, urls >>
  PROVE  IInv'
<1>1. Extends(hist, hist') /\ Len(hist') <= MaxHist
  BY DEF Extends, IInv, HistInv
<1>2. CallInv(hist', Reply(call[c], err)) /\ Careful(call[c], Reply(call[c], err))
  BY <1>1, MidCall
<1> QED
  BY <1>1, <1>2, CallMoves

\* A step that brings a call to a place where it owes nothing of an earlier reading.
LEMMA SettledStep ==
  ASSUME IInv, NEW c \in Call, NEW r, Become(c, r), UNCHANGED << hist, cache, urls >>,
         Settled(hist, r)
  PROVE  IInv'
<1>1. Extends(hist, hist') /\ Len(hist') <= MaxHist
  BY DEF Extends, IInv, HistInv
<1>2. CallInv(hist', r) /\ Careful(call[c], r)
  BY DEF Settled, Careful
<1> QED
  BY <1>1, <1>2, CallMoves

\* A call goes on without an answer of the drive, or with an id.
LEMMA PcMoves ==
  ASSUME NEW h \in Seq(Tree), NEW q, CallInv(h, q), Fresh(h, q),
         NEW pc \in {"dirid", "parent", "add", "address", "seturl", "proxy"},
         NEW cid \in Int, NEW url \in Nat,
         pc = "dirid" => q.pc = "cache",
         pc = "parent" => q.pc = "exists",
         pc = "add" => /\ q.pc = "parent"
                       /\ \E j \in DOMAIN h : cid \in DirIDAnswers(h[j], DirOf(q.job.src))
                       /\ DirOf(q.job.src) # Root => cid # RootId,
         pc \in {"address", "seturl", "proxy"} => q.pc \in Serving,
         pc \in {"seturl", "proxy"} => url = q.src.id,
         NEW r, r = [q EXCEPT !.pc = pc, !.cid = cid, !.url = url]
  PROVE  Settled(h, r)
<1>1. /\ r \in CallRecord /\ r.pc = pc /\ r.cid = cid /\ r.url = url
      /\ r.files = q.files /\ r.offset = q.offset /\ r.job = q.job /\ r.goal = q.goal
      /\ r.key = q.key /\ r.src = q.src /\ r.flush = << >> /\ r.from = q.from /\ r.at = 0
  BY DEF Fresh, CallRecord
<1>2. CallType(h, r)
  BY <1>1 DEF CallType, Fresh
<1>3. AskInv(h, r)
  BY <1>1 DEF CallInv, AskInv, Asking, Found
<1>4. ReadInv(h, r) /\ PageInv(h, r)
  BY <1>1 DEF CallInv, ReadInv, PageInv, Reading
<1>5. FoundInv(h, r)
  BY <1>1 DEF CallInv, FoundInv, Serving, Found
<1>6. MkdirInv(h, r)
  BY <1>1 DEF CallInv, MkdirInv
<1> QED
  BY <1>1, <1>2, <1>3, <1>4, <1>5, <1>6 DEF CallInv, Settled, Reading

\* An idle goroutine starts a call.
LEMMA StartStep ==
  ASSUME IInv, NEW c \in Call, NEW job \in Job, Start(c, job)
  PROVE  IInv'
<1>1. PICK r : r = Begin(job)
  OBVIOUS
<1>2. Settled(hist, r)
  BY <1>1, InvParts, BeginInv
<1> QED
  BY <1>1, <1>2, SettledStep DEF Start

\* GetFiles looks in the cache: what it finds there was listed.
LEMMA LookupCacheStep ==
  ASSUME IInv, NEW c \in Call, LookupCache(c)
  PROVE  IInv'
<1>1. PICK q : q = call[c]
  OBVIOUS
<1>2. PICK r : r = IF q.key \in DOMAIN cache THEN GotFiles(q, cache[q.key].files)
                                             ELSE [q EXCEPT !.pc = "dirid"]
  OBVIOUS
<1>3. q.pc = "cache" /\ Become(c, r) /\ UNCHANGED << hist, cache, urls >>
  BY <1>1, <1>2 DEF LookupCache
<1>4. hist \in Seq(Tree) /\ CallInv(hist, q) /\ Fresh(hist, q)
  BY <1>1, <1>3, InvParts, MidCall
<1>5. CASE q.key \in DOMAIN cache
  <2>1. PICK files : files = cache[q.key].files
    OBVIOUS
  <2>2. files \in Seq(ListedEntry) /\ FilesListed(hist, files, q.key)
    BY <1>5, <2>1 DEF IInv, CacheInv
  <2>3. AskInv(hist, q) /\ q.pc \in Asking
    BY <1>3, <1>4 DEF CallInv, Asking
  <2>4. Settled(hist, r)
    BY <1>2, <1>4, <1>5, <2>1, <2>2, <2>3, GotFilesInv
  <2> QED
    BY <1>3, <2>4, SettledStep
<1>6. CASE q.key \notin DOMAIN cache
  <2>1. q.cid \in Int /\ q.url \in Nat
    BY <1>4 DEF Fresh, CallRecord
  <2>2. r = [q EXCEPT !.pc = "dirid", !.cid = q.cid, !.url = q.url]
    BY <1>2, <1>4, <1>6 DEF Fresh, CallRecord
  <2>3. Settled(hist, r)
    BY <1>3, <1>4, <2>1, <2>2, PcMoves
  <2> QED
    BY <1>3, <2>3, SettledStep
<1> QED
  BY <1>5, <1>6

\* GetFiles asks for the directory's id.
LEMMA LookupDirIDStep ==
  ASSUME IInv, NEW c \in Call, LookupDirID(c)
  PROVE  IInv'
<1>1. PICK q : q = call[c]
  OBVIOUS
<1>2. q.pc = "dirid" /\ UNCHANGED << hist, cache, urls >>
  BY <1>1 DEF LookupDirID
<1>3. CASE Become(c, Reply(q, "err"))
  BY <1>1, <1>2, <1>3, ReplyStep
<1>4. CASE \E cid \in DirIDAnswers(tree, q.key) :
             Become(c, [q EXCEPT !.pc = "page", !.cid = cid, !.from = Len(hist)])
  <2>1. PICK cid, r : /\ cid \in DirIDAnswers(tree, q.key)
                      /\ r = StartReading(q, cid, Len(hist)) /\ Become(c, r)
    BY <1>4 DEF StartReading
  <2>2. hist \in Seq(Tree) /\ Len(hist) >= 1 /\ CallInv(hist, q) /\ tree = hist[Len(hist)]
    BY <1>1, InvParts
  <2>3. CallInv(hist, r) /\ r.at = 0 /\ r.from = Len(hist)
    BY <1>2, <2>1, <2>2, StartReadingInv
  <2>4. Extends(hist, hist') /\ Len(hist') <= MaxHist
    BY <1>2 DEF Extends, IInv, HistInv
  <2>5. CallInv(hist', r) /\ Careful(q, r)
    BY <1>2, <2>3 DEF Careful
  <2> QED
    BY <1>1, <1>2, <2>1, <2>4, <2>5, CallMoves
<1> QED
  BY <1>1, <1>3, <1>4 DEF LookupDirID

\* GetFiles reads a page, or the call of the API fails.
LEMMA GetPageStep ==
  ASSUME IInv, NEW c \in Call, GetPage(c)
  PROVE  IInv'
<1>1. PICK q, next, ids : /\ q = call[c] /\ next = q.offset + PageSize
                          /\ ids = Children(tree, q.cid)
  OBVIOUS
<1>2. q.pc = "page" /\ UNCHANGED << hist, cache, urls >>
  BY <1>1 DEF GetPage
<1>3. hist \in Seq(Tree) /\ Len(hist) >= 1 /\ CallInv(hist, q) /\ tree = hist[Len(hist)]
  BY <1>1, InvParts
<1>4. Extends(hist, hist') /\ Len(hist') <= MaxHist
  BY <1>2 DEF Extends, IInv, HistInv
<1>5. CASE Become(c, Reply(q, "err"))
  BY <1>1, <1>2, <1>5, ReplyStep
<1>6. CASE Become(c, [q EXCEPT !.pc = "set", !.whole = FALSE])
  <2>1. PICK r : r = [q EXCEPT !.pc = "set", !.whole = FALSE] /\ Become(c, r)
    BY <1>6
  <2>2. /\ r \in CallRecord /\ r.pc = "set" /\ r.whole = FALSE /\ r.cid = q.cid
        /\ r.files = q.files /\ r.job = q.job /\ r.goal = q.goal
        /\ r.key = q.key /\ r.src = q.src /\ r.flush = q.flush /\ r.from = q.from
        /\ r.raced = q.raced /\ r.at = q.at
    BY <1>3, <2>1 DEF CallInv, CallType, CallRecord
  <2>3. CallType(hist, r) /\ r.at = 0
    BY <1>2, <1>3, <2>2 DEF CallInv, CallType
  <2>4. AskInv(hist, r)
    BY <1>2, <1>3, <2>2 DEF CallInv, AskInv, Asking, Found
  <2>5. ReadInv(hist, r) /\ PageInv(hist, r)
    BY <1>2, <1>3, <2>2 DEF CallInv, ReadInv, PageInv, Reading
  <2>6. FoundInv(hist, r) /\ MkdirInv(hist, r)
    BY <2>2 DEF FoundInv, MkdirInv, Serving
  <2>7. CallInv(hist', r) /\ Careful(q, r)
    BY <1>2, <2>2, <2>3, <2>4, <2>5, <2>6 DEF CallInv, Careful, Reading
  <2> QED
    BY <1>1, <1>2, <1>4, <2>1, <2>7, CallMoves
<1>7. CASE Become(c, [q EXCEPT !.files = @ \o Page(tree, q.cid, PageSize, q.offset),
                               !.offset = next,
                               !.pc = IF LastPage(next, Cardinality(ids))
                                        THEN "set" ELSE "page"])
  <2>1. PICK r, t :
             t = tree /\ r = ReadPage(q, t) /\ Become(c, r)
    BY <1>1, <1>7 DEF ReadPage
  <2>2. t = hist[Len(hist)]
    BY <1>3, <2>1
  <2>3. /\ CallInv(hist, r) /\ r.pc \in Reading /\ r.key = q.key /\ r.from = q.from
        /\ r.raced = q.raced /\ r.at = 0
    BY <1>1, <1>2, <1>3, <2>1, <2>2, ReadPageInv
  <2>4. CallInv(hist', r) /\ Careful(q, r)
    BY <1>2, <2>3 DEF Careful, Reading
  <2> QED
    BY <1>1, <1>2, <1>4, <2>1, <2>4, CallMoves
<1> QED
  BY <1>1, <1>5, <1>6, <1>7 DEF GetPage

\* GetFiles puts the listing it has read into the cache, with the tree it began in.
LEMMA SetCacheStep ==
  ASSUME IInv, NEW c \in Call, SetCache(c)
  PROVE  IInv'
<1>1. PICK q, r : q = call[c] /\ r = GotFiles(q, q.files)
  OBVIOUS
<1>2. /\ q.pc = "set" /\ Become(c, r) /\ UNCHANGED << hist, urls >>
      /\ cache' = [d \in DOMAIN cache \cup {q.key} |->
                     IF d = q.key THEN [files |-> q.files, from |-> q.from, raced |-> q.raced]
                                  ELSE cache[d]]
  BY <1>1 DEF SetCache
<1>3. hist \in Seq(Tree) /\ CallInv(hist, q) /\ Fresh(hist, q)
  BY <1>1, <1>2, InvParts, MidCall
<1>4. /\ q.files \in Seq(ListedEntry) /\ FilesListed(hist, q.files, q.key)
      /\ q.from \in 1 .. Len(hist) /\ q.key \in Name /\ q.pc \in Reading
  <2>1. q.files \in Seq(ListedEntry) /\ q.from \in Nat /\ q.key \in Name
    BY <1>3 DEF Fresh, CallRecord
  <2>2. q.from >= 1 /\ q.from <= Len(hist) /\ FilesListed(hist, q.files, q.key)
    BY <1>2, <1>3 DEF CallInv, CallType, ReadInv, Reading
  <2>3. Len(hist) \in Nat
    BY <1>3
  <2> QED
    BY <1>2, <2>1, <2>2, <2>3 DEF Reading
<1>5. Settled(hist, r)
  <2>1. AskInv(hist, q) /\ q.pc \in Asking
    BY <1>2, <1>3 DEF CallInv, Asking
  <2>2. PICK files \in Seq(ListedEntry) : files = q.files
    BY <1>4
  <2> QED
    BY <1>1, <1>3, <1>4, <2>1, <2>2, GotFilesInv
<1>6. /\ DOMAIN cache' = DOMAIN cache \cup {q.key}
      /\ \A d \in DOMAIN cache' : d # q.key => d \in DOMAIN cache /\ cache'[d] = cache[d]
      /\ cache'[q.key].files = q.files /\ cache'[q.key].from = q.from
      /\ cache'[q.key].raced = q.raced
  BY <1>2
<1>7. CacheInv(hist, cache')
  BY <1>4, <1>6 DEF IInv, CacheInv
<1>8. HistInv' /\ UrlInv'
  BY <1>2 DEF IInv, HistInv, UrlInv
<1>9. r \in CallRecord /\ CallInv(hist, r) /\ r.pc \notin Reading /\ r.at = 0
  BY <1>5 DEF Settled, CallInv, CallType
<1>10. \A p \in Call : call'[p] = IF p = c THEN r ELSE call[p]
  BY <1>2 DEF Become, IInv, CallsInv
<1>11. CallsInv'
  <2>1. call' \in [Call -> CallRecord]
    BY <1>2, <1>9 DEF Become, IInv, CallsInv
  <2>2. \A p \in Call : CallInv(hist', call'[p])
    BY <1>2, <1>9, <1>10, InvParts
  <2> QED
    BY <2>1, <2>2 DEF CallsInv
<1>12. SeenInv'
  <2> SUFFICES ASSUME NEW a \in Call, call'[a].at # 0, NEW d \in Flushed(call'[a])
               PROVE  /\ d \in DOMAIN cache' /\ cache'[d].from < call'[a].at
                           => cache'[d].raced
                      /\ \A p \in Call : call'[p].pc \in Reading /\ call'[p].key = d
                                           /\ call'[p].from < call'[a].at => call'[p].raced
    BY DEF SeenInv
  <2>1. a # c /\ call'[a] = call[a]
    BY <1>9, <1>10
  <2>2. /\ d \in DOMAIN cache /\ cache[d].from < call[a].at => cache[d].raced
        /\ \A p \in Call : call[p].pc \in Reading /\ call[p].key = d
                             /\ call[p].from < call[a].at => call[p].raced
    BY <2>1 DEF IInv, SeenInv
  <2>3. d \in DOMAIN cache' /\ cache'[d].from < call'[a].at => cache'[d].raced
    BY <1>1, <1>4, <1>6, <2>1, <2>2
  <2> QED
    BY <1>9, <1>10, <2>1, <2>2, <2>3
<1> QED
  BY <1>2, <1>7, <1>8, <1>11, <1>12 DEF IInv

\* An API call that changes the drive, and names the directories to flush.
LEMMA ChangeStep ==
  ASSUME IInv, NEW c \in Call, call[c].pc \in {"delete", "rename", "move", "add"},
         NEW changed, \A t \in changed : t \in Tree,
         NEW flush \in Seq(Name), flush # << >>,
         \A d \in Targets(call[c].job) : \E k \in DOMAIN flush : flush[k] = d,
         Change(c, changed, flush)
  PROVE  IInv'
<1>1. PICK q : q = call[c]
  OBVIOUS
<1>2. /\ hist \in Seq(Tree) /\ Len(hist) >= 1 /\ Len(hist) \in Nat /\ tree \in Tree
      /\ Fresh(hist, q) /\ Len(hist) <= MaxHist /\ MaxHist \in Nat
  <2>1. MaxHist \in Nat
    BY DriveClientAssumption
  <2> QED
    BY <1>1, <2>1, InvParts, MidCall DEF IInv, HistInv
<1>3. PICK a, h :
        /\ a \in Answers(tree, IF Room THEN changed ELSE {})
        /\ h = IF a.tree = tree THEN hist ELSE Append(hist, a.tree)
        /\ hist' = h
        /\ Become(c, IF a.answer = "ok"
                       THEN [q EXCEPT !.pc = "flush", !.flush = flush, !.at = Len(h)]
                       ELSE Reply(q, "err"))
  BY <1>1 DEF Change
<1>4. UNCHANGED << cache, urls >>
  BY DEF Change
<1>5. a.tree = tree \/ (a.tree \in changed /\ Room)
  BY <1>3 DEF Answers
<1>6. Extends(hist, h) /\ Len(h) <= MaxHist
  <2>1. CASE a.tree = tree
    BY <1>2, <1>3, <2>1 DEF Extends
  <2>2. CASE a.tree # tree
    <3>1. h = Append(hist, a.tree) /\ a.tree \in Tree /\ Len(hist) < MaxHist
      BY <1>3, <1>5, <2>2 DEF Room
    <3> QED
      BY <1>2, <3>1 DEF Extends
  <2> QED
    BY <2>1, <2>2
<1>7. h \in Seq(Tree) /\ Len(h) \in Nat /\ Len(hist) <= Len(h)
  BY <1>2, <1>6, Grown
<1>8. CASE a.answer = "ok"
  <2>1. PICK r : r = [q EXCEPT !.pc = "flush", !.flush = flush, !.at = Len(h)] /\ Become(c, r)
    BY <1>3, <1>8
  <2>2. /\ r \in CallRecord /\ r.pc = "flush" /\ r.flush = flush /\ r.at = Len(h)
        /\ r.job = q.job /\ r.from = q.from
    BY <1>2, <1>7, <2>1 DEF Fresh, CallRecord
  <2>3. CallType(h, r)
    BY <1>2, <1>7, <2>2 DEF Fresh, CallType, CallRecord
  <2>4. AskInv(h, r) /\ ReadInv(h, r) /\ PageInv(h, r) /\ FoundInv(h, r) /\ MkdirInv(h, r)
    BY <2>2 DEF AskInv, ReadInv, PageInv, FoundInv, MkdirInv, Asking, Reading, Serving
  <2>5. Flushed(r) = {}
    BY <1>1, <2>2 DEF Flushed
  <2>6. CallInv(hist', r) /\ Careful(call[c], r)
    BY <1>3, <2>2, <2>3, <2>4, <2>5 DEF CallInv, Careful, Reading
  <2> QED
    BY <1>3, <1>4, <1>6, <2>1, <2>6, CallMoves
<1>9. CASE a.answer # "ok"
  <2>1. PICK r : r = Reply(q, "err") /\ Become(c, r)
    BY <1>3, <1>9
  <2>2. CallInv(hist', r) /\ Careful(call[c], r)
    BY <1>1, <1>3, <1>6, <2>1, MidCall
  <2> QED
    BY <1>3, <1>4, <1>6, <2>1, <2>2, CallMoves
<1> QED
  BY <1>8, <1>9

\* RemoveFile: the entry goes, and its directory is to be flushed.
LEMMA DeleteFileStep ==
  ASSUME IInv, NEW c \in Call, DeleteFile(c)
  PROVE  IInv'
<1>1. PICK q, changed, flush : /\ q = call[c] /\ changed = Deleted(tree, q.src.id)
                               /\ flush = << DirOf(q.job.src) >>
  OBVIOUS
<1>2. q.pc = "delete" /\ Change(c, changed, flush)
  BY <1>1 DEF DeleteFile
<1>3. Fresh(hist, q) /\ FoundInv(hist, q) /\ tree \in Tree
  BY <1>1, <1>2, InvParts, MidCall DEF CallInv
<1>4. \A t \in changed : t \in Tree
  BY <1>1, <1>3, TreeIsDrive, ChangesKeepDrive DEF EntryName
<1>5. q.job \in [op : Op, src : Name, dst : Name] /\ q.job.op = "remove"
  BY <1>2, <1>3, DriveClientAssumption DEF Fresh, FoundInv
<1>6. /\ flush \in Seq(Name) /\ flush # << >>
      /\ \A d \in Targets(q.job) : \E k \in DOMAIN flush : flush[k] = d
  BY <1>1, <1>5, DirOfName DEF Targets
<1> QED
  BY <1>1, <1>2, <1>4, <1>6, ChangeStep

\* MoveFile within a directory: the entry's name changes.
LEMMA RenameFileStep ==
  ASSUME IInv, NEW c \in Call, RenameFile(c)
  PROVE  IInv'
<1>1. PICK q, name, changed, flush :
        /\ q = call[c] /\ name = BaseOf(q.job.dst)
        /\ changed = Renamed(tree, q.src.id, name) /\ flush = << DirOf(q.job.src) >>
  OBVIOUS
<1>2. q.pc = "rename" /\ Change(c, changed, flush)
  BY <1>1 DEF RenameFile
<1>3. Fresh(hist, q) /\ FoundInv(hist, q) /\ tree \in Tree
  BY <1>1, <1>2, InvParts, MidCall DEF CallInv
<1>4. /\ q.job \in [op : Op, src : Name, dst : Name]
      /\ q.job.dst # Root /\ DirOf(q.job.src) = DirOf(q.job.dst)
  BY <1>2, <1>3, DriveClientAssumption DEF Fresh, FoundInv
<1>5. name \in EntryName
  BY <1>1, <1>4, DirOfName DEF EntryName
<1>6. \A t \in changed : t \in Tree
  BY <1>1, <1>3, <1>5, TreeIsDrive, ChangesKeepDrive
<1>7. /\ flush \in Seq(Name) /\ flush # << >>
      /\ \A d \in Targets(q.job) : \E k \in DOMAIN flush : flush[k] = d
  BY <1>1, <1>4, DirOfName DEF Targets
<1> QED
  BY <1>1, <1>2, <1>6, <1>7, ChangeStep

\* MoveFile to another directory: both directories are to be flushed.
LEMMA MoveFileStep ==
  ASSUME IInv, NEW c \in Call, MoveFile(c)
  PROVE  IInv'
<1>1. PICK q, changed, flush :
        /\ q = call[c] /\ changed = Moved(tree, q.src.id, q.cid)
        /\ flush = << DirOf(q.job.src), DirOf(q.job.dst) >>
  OBVIOUS
<1>2. q.pc = "move" /\ Change(c, changed, flush)
  BY <1>1 DEF MoveFile
<1>3. Fresh(hist, q) /\ FoundInv(hist, q) /\ tree \in Tree
  BY <1>1, <1>2, InvParts, MidCall DEF CallInv
<1>4. q.job \in [op : Op, src : Name, dst : Name]
  BY <1>3, DriveClientAssumption DEF Fresh
<1>5. \A t \in changed : t \in Tree
  BY <1>1, <1>3, TreeIsDrive, ChangesKeepDrive DEF EntryName
<1>6. DirOf(q.job.src) \in Name /\ DirOf(q.job.dst) \in Name
  BY <1>4, DirOfName
<1>7. flush \in Seq(Name) /\ flush # << >>
  BY <1>1, <1>6
<1>8. 1 \in DOMAIN flush /\ flush[1] = DirOf(q.job.src)
      /\ 2 \in DOMAIN flush /\ flush[2] = DirOf(q.job.dst)
  BY <1>1
<1>9. \A d \in Targets(q.job) : \E k \in DOMAIN flush : flush[k] = d
  BY <1>8 DEF Targets
<1> QED
  BY <1>1, <1>2, <1>5, <1>7, <1>9, ChangeStep

\* The id of a new entry is no other's.
LEMMA NewIdIsNew ==
  ASSUME IInv
  PROVE  NewId \in Nat \ {RootId} /\ NewId \notin DOMAIN tree
<1>1. hist \in Seq(Tree) /\ Len(hist) \in 1 .. MaxHist
  BY DEF IInv, HistInv
<1>2. PICK n \in Nat : n = Len(hist) /\ n >= 1
  <2>1. MaxHist \in Nat
    BY DriveClientAssumption
  <2> QED
    BY <1>1, <2>1
<1>3. DOMAIN hist = 1 .. n /\ \A k \in 1 .. n : IsDrive(hist[k], EntryName)
  BY <1>1, <1>2, TreeIsDrive
<1>4. PICK largest : largest = Max(IdsOf(hist))
  OBVIOUS
<1>5. largest \in Nat /\ \A k \in 1 .. n : \A i \in DOMAIN hist[k] : i <= largest
  BY <1>3, <1>4, LargestId
<1>6. NewId = 1 + largest
  BY <1>4 DEF NewId, IdsOf
<1>7. n \in 1 .. n /\ tree = hist[n]
  BY <1>2 DEF tree
<1>8. NewId \notin DOMAIN tree
  <2> SUFFICES ASSUME NewId \in DOMAIN tree
               PROVE  FALSE
    OBVIOUS
  <2>1. 1 + largest <= largest
    BY <1>5, <1>6, <1>7
  <2> QED
    BY <1>5, <2>1
<1> QED
  BY <1>5, <1>6, <1>8 DEF RootId

\* MakeDir adds the directory under an id no entry ever had.
LEMMA AddDirStep ==
  ASSUME IInv, NEW c \in Call, AddDir(c)
  PROVE  IInv'
<1>1. PICK q, name, id, changed, flush :
        /\ q = call[c] /\ id = NewId
        /\ name = IF q.job.src = Root THEN "" ELSE BaseOf(q.job.src)
        /\ changed = Added(tree, id, q.cid, name) /\ flush = << DirOf(q.job.src) >>
  OBVIOUS
<1>2. q.pc = "add" /\ Change(c, changed, flush)
  BY <1>1 DEF AddDir
<1>3. Fresh(hist, q) /\ MkdirInv(hist, q) /\ tree \in Tree
  BY <1>1, <1>2, InvParts, MidCall DEF CallInv
<1>4. q.job \in [op : Op, src : Name, dst : Name] /\ q.job.op = "mkdir"
  BY <1>2, <1>3, DriveClientAssumption DEF Fresh, MkdirInv
<1>5. name \in EntryName
  BY <1>1, <1>4, DirOfName DEF EntryName
<1>6. id \in Nat \ {RootId}
  BY <1>1, NewIdIsNew
<1>7. \A t \in changed : t \in Tree
  BY <1>1, <1>3, <1>5, <1>6, TreeIsDrive, ChangesKeepDrive
<1>8. flush \in Seq(Name) /\ flush # << >> /\ 1 \in DOMAIN flush /\ flush[1] = DirOf(q.job.src)
  <2>1. PICK dir \in Name : dir = DirOf(q.job.src)
    BY <1>4, DirOfName
  <2>2. flush = << dir >>
    BY <1>1, <2>1
  <2> QED
    BY <2>1, <2>2
<1>9. \A d \in Targets(q.job) : \E k \in DOMAIN flush : flush[k] = d
  BY <1>4, <1>8 DEF Targets
<1> QED
  BY <1>1, <1>2, <1>7, <1>8, <1>9, ChangeStep

\* MakeDir asks whether the directory is there.
LEMMA CheckExistsStep ==
  ASSUME IInv, NEW c \in Call, CheckExists(c)
  PROVE  IInv'
<1>1. PICK q : q = call[c]
  OBVIOUS
<1>2. q.pc = "exists" /\ UNCHANGED << hist, cache, urls >>
  BY <1>1 DEF CheckExists
<1>3. hist \in Seq(Tree) /\ CallInv(hist, q) /\ Fresh(hist, q)
  BY <1>1, <1>2, InvParts, MidCall
<1>4. ASSUME NEW err \in {"nil", "err"}, Become(c, Reply(q, err))
      PROVE  IInv'
  BY <1>1, <1>2, <1>4, ReplyStep
<1>5. CASE Become(c, [q EXCEPT !.pc = "parent"])
  <2>1. PICK r : r = [q EXCEPT !.pc = "parent"] /\ Become(c, r)
    BY <1>5
  <2>2. q.cid \in Int /\ q.url \in Nat
    BY <1>3 DEF Fresh, CallRecord
  <2>3. r = [q EXCEPT !.pc = "parent", !.cid = q.cid, !.url = q.url]
    BY <1>3, <2>1 DEF Fresh, CallRecord
  <2>4. Settled(hist, r)
    BY <1>2, <1>3, <2>2, <2>3, PcMoves
  <2> QED
    BY <1>2, <2>1, <2>4, SettledStep
<1> QED
  BY <1>1, <1>4, <1>5 DEF CheckExists

\* MakeDir asks for the parent's id, which the root only may have as 0.
LEMMA LookupParentStep ==
  ASSUME IInv, NEW c \in Call, LookupParent(c)
  PROVE  IInv'
<1>1. PICK q, dir : q = call[c] /\ dir = DirOf(q.job.src)
  OBVIOUS
<1>2. q.pc = "parent" /\ UNCHANGED << hist, cache, urls >>
  BY <1>1 DEF LookupParent
<1>3. hist \in Seq(Tree) /\ CallInv(hist, q) /\ Fresh(hist, q)
  BY <1>1, <1>2, InvParts, MidCall
<1>4. ASSUME NEW err \in {"nil", "err"}, Become(c, Reply(q, err))
      PROVE  IInv'
  BY <1>1, <1>2, <1>4, ReplyStep
<1>5. ASSUME NEW pid \in DirIDAnswers(tree, dir), ~(pid = RootId /\ dir # Root),
             Become(c, [q EXCEPT !.pc = "add", !.cid = pid])
      PROVE  IInv'
  <2>1. PICK r : r = [q EXCEPT !.pc = "add", !.cid = pid] /\ Become(c, r)
    BY <1>5
  <2>2. q.url \in Nat
    BY <1>3 DEF Fresh, CallRecord
  <2>3. tree \in Tree /\ tree = hist[Len(hist)] /\ Len(hist) \in DOMAIN hist
    BY InvParts
  <2>4. pid \in Int
    BY <1>5, <2>3, TreeIsDrive, DirIDsFacts DEF DirIDAnswers, NoId
  <2>5. r = [q EXCEPT !.pc = "add", !.cid = pid, !.url = q.url]
    BY <1>3, <2>1 DEF Fresh, CallRecord
  <2>6. \E j \in DOMAIN hist : pid \in DirIDAnswers(hist[j], DirOf(q.job.src))
    BY <1>1, <1>5, <2>3
  <2>7. DirOf(q.job.src) # Root => pid # RootId
    BY <1>1, <1>5
  <2>8. Settled(hist, r)
    BY <1>2, <1>3, <2>2, <2>4, <2>5, <2>6, <2>7, PcMoves
  <2> QED
    BY <1>2, <2>1, <2>8, SettledStep
<1> QED
  BY <1>1, <1>4, <1>5 DEF LookupParent

\* A call that is reading learns that the directory was flushed; nothing else
\* about it changes.
LEMMA RacedInv ==
  ASSUME NEW h \in Seq(Tree), NEW q, CallInv(h, q), NEW raced \in BOOLEAN,
         NEW r, r = [q EXCEPT !.raced = raced]
  PROVE  /\ CallInv(h, r) /\ r \in CallRecord /\ r.raced = raced /\ r.pc = q.pc
         /\ r.key = q.key /\ r.from = q.from /\ r.at = q.at /\ r.job = q.job
         /\ r.flush = q.flush
<1>1. q \in CallRecord
  BY DEF CallInv, CallType
<1>2. /\ r \in CallRecord /\ r.raced = raced /\ r.pc = q.pc /\ r.job = q.job
      /\ r.goal = q.goal /\ r.key = q.key /\ r.cid = q.cid /\ r.offset = q.offset
      /\ r.files = q.files /\ r.src = q.src /\ r.url = q.url /\ r.flush = q.flush
      /\ r.from = q.from /\ r.whole = q.whole /\ r.at = q.at
  BY <1>1 DEF CallRecord
<1>3. CallType(h, r)
  BY <1>2 DEF CallInv, CallType
<1>4. AskInv(h, r) /\ FoundInv(h, r)
  BY <1>2 DEF CallInv, AskInv, FoundInv, Found
<1>5. ReadInv(h, r) /\ PageInv(h, r)
  BY <1>2 DEF CallInv, ReadInv, PageInv, Steady
<1>6. MkdirInv(h, r)
  BY <1>2 DEF CallInv, MkdirInv
<1> QED
  BY <1>2, <1>3, <1>4, <1>5, <1>6 DEF CallInv

\* flushDir: the cache forgets the directory, and who still reads it has raced.
LEMMA FlushDirStep ==
  ASSUME IInv, NEW c \in Call, FlushDir(c)
  PROVE  IInv'
<1>1. PICK q, dir, rest, r :
        /\ q = call[c] /\ dir = Head(q.flush) /\ rest = [q EXCEPT !.flush = Tail(q.flush)]
        /\ r = IF rest.flush = << >> THEN Reply(rest, "nil") ELSE rest
  OBVIOUS
<1> DEFINE told(p) == p.raced \/ (p.pc \in {"page", "set"} /\ p.key = dir)
<1>2. /\ q.pc = "flush" /\ UNCHANGED << hist, urls >>
      /\ cache' = [d \in DOMAIN cache \ {dir} |-> cache[d]]
      /\ call' = [p \in Call |-> IF p # c THEN [call[p] EXCEPT !.raced = told(call[p])] ELSE r]
  BY <1>1 DEF FlushDir
<1>3. hist \in Seq(Tree) /\ CallInv(hist, q) /\ \A p \in Call : CallInv(hist, call[p])
  BY <1>1, InvParts
<1>4. /\ q \in CallRecord /\ q.job \in Job /\ q.at <= Len(hist) /\ q.from <= Len(hist)
      /\ q.flush \in Seq(Name) /\ q.flush # << >>
  <2>1. q \in CallRecord /\ q.job \in Job /\ q.at <= Len(hist) /\ q.from <= Len(hist)
        /\ q.flush # << >>
    BY <1>2, <1>3 DEF CallInv, CallType
  <2> QED
    BY <2>1 DEF CallRecord
<1>5. /\ Tail(q.flush) \in Seq(Name)
      /\ \A d : d # dir /\ (\A k \in DOMAIN Tail(q.flush) : Tail(q.flush)[k] # d)
            => \A k \in DOMAIN q.flush : q.flush[k] # d
  <2>1. PICK s \in Seq(Name) : s = q.flush /\ s # << >>
    BY <1>4
  <2>2. PICK n \in Nat : n = Len(s) /\ n # 0 /\ DOMAIN s = 1 .. n
    BY <2>1, EmptySeq
  <2>3. /\ Tail(s) \in Seq(Name) /\ Len(Tail(s)) = n - 1
        /\ \A k \in 1 .. Len(Tail(s)) : Tail(s)[k] = s[k + 1]
    BY <2>1, <2>2, HeadTailProperties
  <2>4. DOMAIN Tail(s) = 1 .. n - 1 /\ \A k \in 1 .. n - 1 : Tail(s)[k] = s[k + 1]
    BY <2>2, <2>3
  <2>5. Head(s) = s[1]
    BY <2>1
  <2>6. ASSUME NEW k \in 1 .. n, k # 1
        PROVE  k - 1 \in 1 .. n - 1 /\ Tail(s)[k - 1] = s[k]
    <3>1. k - 1 \in 1 .. n - 1 /\ (k - 1) + 1 = k
      BY <2>2, <2>6
    <3> QED
      BY <2>4, <3>1
  <2> QED
    BY <1>1, <2>1, <2>2, <2>3, <2>4, <2>5, <2>6
<1>6. /\ rest \in CallRecord /\ rest.flush = Tail(q.flush) /\ rest.pc = "flush"
      /\ rest.job = q.job /\ rest.at = q.at /\ rest.from = q.from
  BY <1>1, <1>2, <1>4, <1>5 DEF CallRecord
<1>7. /\ r \in CallRecord /\ CallInv(hist, r) /\ r.pc \notin Reading
      /\ r.job = q.job /\ r.at = q.at /\ r.flush = Tail(q.flush)
  <2>1. CASE rest.flush = << >>
    <3>1. r = Reply(rest, "nil")
      BY <1>1, <2>1
    <3>2. CallInv(hist, r) /\ r.pc = "done" /\ r.job = q.job /\ r.flush = << >> /\ r.at = q.at
      BY <1>3, <1>4, <1>6, <3>1, ReplyInv
    <3> QED
      BY <1>6, <2>1, <3>2 DEF CallInv, CallType, Reading
  <2>2. CASE rest.flush # << >>
    <3>1. r = rest
      BY <1>1, <2>2
    <3>2. CallType(hist, r)
      BY <1>4, <1>6, <2>2, <3>1 DEF CallType
    <3>3. /\ AskInv(hist, r) /\ ReadInv(hist, r) /\ PageInv(hist, r) /\ FoundInv(hist, r)
          /\ MkdirInv(hist, r)
      BY <1>6, <3>1 DEF AskInv, ReadInv, PageInv, FoundInv, MkdirInv, Asking, Reading, Serving
    <3> QED
      BY <1>6, <3>1, <3>2, <3>3 DEF CallInv, Reading
  <2> QED
    BY <2>1, <2>2
<1>8. ASSUME NEW p \in Call, p # c
      PROVE  /\ CallInv(hist, call'[p]) /\ call'[p] \in CallRecord
             /\ call'[p].raced = told(call[p]) /\ call'[p].pc = call[p].pc
             /\ call'[p].key = call[p].key /\ call'[p].from = call[p].from
             /\ call'[p].at = call[p].at /\ call'[p].job = call[p].job
             /\ call'[p].flush = call[p].flush
  <2>1. PICK raced : raced = told(call[p])
    OBVIOUS
  <2>2. raced \in BOOLEAN
    BY <1>8, <2>1 DEF IInv, CallsInv, CallRecord
  <2>3. call'[p] = [call[p] EXCEPT !.raced = raced]
    BY <1>2, <1>8, <2>1
  <2>4. PICK s : s = [call[p] EXCEPT !.raced = raced]
    OBVIOUS
  <2>5. /\ CallInv(hist, s) /\ s \in CallRecord /\ s.raced = raced /\ s.pc = call[p].pc
        /\ s.key = call[p].key /\ s.from = call[p].from /\ s.at = call[p].at
        /\ s.job = call[p].job /\ s.flush = call[p].flush
    BY <1>3, <2>2, <2>4, RacedInv
  <2> QED
    BY <2>1, <2>3, <2>4, <2>5
<1>9. call'[c] = r
  BY <1>2
<1>10. CallsInv'
  <2>1. call' = [p \in Call |-> call'[p]]
    BY <1>2
  <2>2. \A p \in Call : call'[p] \in CallRecord /\ CallInv(hist', call'[p])
    BY <1>2, <1>7, <1>8, <1>9
  <2> QED
    BY <2>1, <2>2 DEF CallsInv
<1>11. HistInv' /\ UrlInv' /\ CacheInv(hist, cache)'
  BY <1>2 DEF IInv, HistInv, UrlInv, CacheInv
<1>12. SeenInv'
  <2> SUFFICES ASSUME NEW a \in Call, call'[a].at # 0, NEW d \in Flushed(call'[a])
               PROVE  /\ d \in DOMAIN cache' /\ cache'[d].from < call'[a].at
                           => cache'[d].raced
                      /\ \A p \in Call : call'[p].pc \in Reading /\ call'[p].key = d
                                           /\ call'[p].from < call'[a].at => call'[p].raced
    BY DEF SeenInv
  <2>1. call'[a].at = call[a].at
    BY <1>1, <1>7, <1>8, <1>9
  <2>2. CASE d = dir
    <3>1. d \notin DOMAIN cache'
      BY <1>2, <2>2
    <3>2. ASSUME NEW p \in Call, call'[p].pc \in Reading, call'[p].key = d
          PROVE  call'[p].raced
      <4>1. p # c
        BY <1>7, <1>9, <3>2
      <4>2. call[p].pc \in Reading /\ call[p].key = dir
        BY <1>8, <2>2, <3>2, <4>1
      <4> QED
        BY <1>8, <4>1, <4>2 DEF Reading
    <3> QED
      BY <3>1, <3>2
  <2>3. CASE d # dir
    <3>1. d \in Flushed(call[a])
      <4>1. CASE a = c
        <5>1. d \in Targets(q.job) /\ \A k \in DOMAIN Tail(q.flush) : Tail(q.flush)[k] # d
          BY <1>7, <1>9, <4>1 DEF Flushed
        <5>2. \A k \in DOMAIN q.flush : q.flush[k] # d
          BY <1>5, <2>3, <5>1
        <5> QED
          BY <1>1, <4>1, <5>1, <5>2 DEF Flushed
      <4>2. CASE a # c
        BY <1>8, <4>2 DEF Flushed
      <4> QED
        BY <4>1, <4>2
    <3>2. /\ d \in DOMAIN cache /\ cache[d].from < call[a].at => cache[d].raced
          /\ \A p \in Call : call[p].pc \in Reading /\ call[p].key = d
                               /\ call[p].from < call[a].at => call[p].raced
      BY <2>1, <3>1 DEF IInv, SeenInv
    <3>3. d \in DOMAIN cache' /\ cache'[d].from < call'[a].at => cache'[d].raced
      BY <1>2, <2>1, <3>2
    <3>4. ASSUME NEW p \in Call, call'[p].pc \in Reading, call'[p].key = d,
                 call'[p].from < call'[a].at
          PROVE  call'[p].raced
      <4>1. p # c
        BY <1>7, <1>9, <3>4
      <4>2. call[p].raced
        BY <1>8, <2>1, <3>2, <3>4, <4>1
      <4> QED
        BY <1>8, <4>1, <4>2
    <3> QED
      BY <3>3, <3>4
  <2> QED
    BY <2>2, <2>3
<1> QED
  BY <1>10, <1>11, <1>12 DEF IInv

\* GetFileURL: the address is the file's own, kept or asked for.
LEMMA LookupURLStep ==
  ASSUME IInv, NEW c \in Call, LookupURL(c)
  PROVE  IInv'
<1>1. PICK q, key : q = call[c] /\ key = q.src.id
  OBVIOUS
<1>2. q.pc = "url" /\ UNCHANGED << hist, cache, urls >>
  BY <1>1 DEF LookupURL
<1>3. hist \in Seq(Tree) /\ CallInv(hist, q) /\ Fresh(hist, q)
  BY <1>1, <1>2, InvParts, MidCall
<1>4. q.cid \in Int /\ q.url \in Nat /\ key \in Nat
  BY <1>1, <1>3 DEF Fresh, CallRecord, ListedEntry
<1>5. CASE key \in DOMAIN urls
  <2>1. PICK r : r = [q EXCEPT !.pc = "proxy", !.url = key]
    OBVIOUS
  <2>2. Become(c, r)
    BY <1>1, <1>5, <2>1 DEF LookupURL, UrlKey, IInv, UrlInv
  <2>3. r = [q EXCEPT !.pc = "proxy", !.cid = q.cid, !.url = key]
    BY <1>3, <2>1 DEF Fresh, CallRecord
  <2>4. q.pc \in Serving
    BY <1>2 DEF Serving
  <2>5. PICK pc : pc = "proxy"
    OBVIOUS
  <2>6. r = [q EXCEPT !.pc = pc, !.cid = q.cid, !.url = key]
    BY <2>3, <2>5
  <2>7. Settled(hist, r)
    BY <1>1, <1>3, <1>4, <2>4, <2>5, <2>6, PcMoves
  <2> QED
    BY <1>2, <2>2, <2>7, SettledStep
<1>6. CASE key \notin DOMAIN urls
  <2>1. PICK r : r = [q EXCEPT !.pc = "address"]
    OBVIOUS
  <2>2. Become(c, r)
    BY <1>1, <1>6, <2>1 DEF LookupURL, UrlKey
  <2>3. r = [q EXCEPT !.pc = "address", !.cid = q.cid, !.url = q.url]
    BY <1>3, <2>1 DEF Fresh, CallRecord
  <2>4. Settled(hist, r)
    BY <1>2, <1>3, <1>4, <2>3, PcMoves DEF Serving
  <2> QED
    BY <1>2, <2>2, <2>4, SettledStep
<1> QED
  BY <1>5, <1>6

\* GetFileURL asks for the address of the entry that was found.
LEMMA GetAddressStep ==
  ASSUME IInv, NEW c \in Call, GetAddress(c)
  PROVE  IInv'
<1>1. PICK q, key : q = call[c] /\ key = q.src.id
  OBVIOUS
<1>2. q.pc = "address" /\ UNCHANGED << hist, cache, urls >>
  BY <1>1 DEF GetAddress
<1>3. hist \in Seq(Tree) /\ CallInv(hist, q) /\ Fresh(hist, q)
  BY <1>1, <1>2, InvParts, MidCall
<1>4. ASSUME NEW err \in {"err", "panic"}, Become(c, Reply(q, err))
      PROVE  IInv'
  BY <1>1, <1>2, <1>4, ReplyStep
<1>5. CASE Become(c, [q EXCEPT !.pc = "seturl", !.url = key])
  <2>1. PICK r : r = [q EXCEPT !.pc = "seturl", !.url = key] /\ Become(c, r)
    BY <1>5
  <2>2. q.cid \in Int /\ key \in Nat
    BY <1>1, <1>3 DEF Fresh, CallRecord, ListedEntry
  <2>3. r = [q EXCEPT !.pc = "seturl", !.cid = q.cid, !.url = key]
    BY <1>3, <2>1 DEF Fresh, CallRecord
  <2>4. q.pc \in Serving
    BY <1>2 DEF Serving
  <2>5. PICK pc : pc = "seturl"
    OBVIOUS
  <2>6. r = [q EXCEPT !.pc = pc, !.cid = q.cid, !.url = key]
    BY <2>3, <2>5
  <2>7. Settled(hist, r)
    BY <1>1, <1>3, <2>2, <2>4, <2>5, <2>6, PcMoves
  <2> QED
    BY <1>2, <2>1, <2>7, SettledStep
<1> QED
  BY <1>1, <1>4, <1>5 DEF GetAddress

\* The invariant but for the addresses, which only the downloads look at.
LEMMA SetURLStep ==
  ASSUME IInv, NEW c \in Call, SetURL(c)
  PROVE  IInv'
<1>1. PICK q, r : q = call[c] /\ r = [q EXCEPT !.pc = "proxy"]
  OBVIOUS
<1>2. /\ q.pc = "seturl" /\ UNCHANGED << hist, cache >> /\ Become(c, r)
      /\ urls' = [k \in DOMAIN urls \cup {q.src.id} |-> IF k = q.src.id THEN q.url ELSE urls[k]]
  BY <1>1 DEF SetURL, UrlKey
<1>3. hist \in Seq(Tree) /\ CallInv(hist, q) /\ Fresh(hist, q)
  BY <1>1, <1>2, InvParts, MidCall
<1>4. q.url = q.src.id
  BY <1>2, <1>3 DEF CallInv, FoundInv
<1>5. UrlInv'
  BY <1>2, <1>4 DEF IInv, UrlInv
<1>6. Settled(hist, r)
  <2>1. q.cid \in Int /\ q.url \in Nat
    BY <1>3 DEF Fresh, CallRecord
  <2>2. r = [q EXCEPT !.pc = "proxy", !.cid = q.cid, !.url = q.url]
    BY <1>1, <1>3 DEF Fresh, CallRecord
  <2> QED
    BY <1>2, <1>3, <1>4, <2>1, <2>2, PcMoves DEF Serving
<1>7. r \in CallRecord /\ CallInv(hist, r) /\ r.at = 0 /\ r.pc \notin Reading
  BY <1>6 DEF Settled, CallInv, CallType
<1>8. \A p \in Call : call'[p] = IF p = c THEN r ELSE call[p]
  BY <1>2 DEF Become, IInv, CallsInv
<1>9. CallsInv'
  <2>1. call' \in [Call -> CallRecord]
    BY <1>2, <1>7 DEF Become, IInv, CallsInv
  <2>2. ASSUME NEW p \in Call
        PROVE  CallInv(hist', call'[p])
    BY <1>2, <1>7, <1>8 DEF IInv, CallsInv
  <2> QED
    BY <2>1, <2>2 DEF CallsInv
<1>10. HistInv' /\ CacheInv(hist, cache)'
  BY <1>2 DEF IInv, HistInv, CacheInv
<1>11. SeenInv'
  <2> SUFFICES ASSUME NEW a \in Call, call'[a].at # 0, NEW d \in Flushed(call'[a])
               PROVE  /\ d \in DOMAIN cache /\ cache[d].from < call'[a].at => cache[d].raced
                      /\ \A p \in Call : call'[p].pc \in Reading /\ call'[p].key = d
                                           /\ call'[p].from < call'[a].at => call'[p].raced
    BY <1>2 DEF SeenInv
  <2>1. a # c /\ call'[a] = call[a]
    BY <1>7, <1>8
  <2>2. d \in DOMAIN cache /\ cache[d].from < call[a].at => cache[d].raced
    BY <2>1 DEF IInv, SeenInv
  <2>3. ASSUME NEW p \in Call, call'[p].pc \in Reading, call'[p].key = d,
               call'[p].from < call[a].at
        PROVE  call'[p].raced
    <3>1. p # c /\ call'[p] = call[p]
      BY <1>7, <1>8, <2>3
    <3> QED
      BY <2>1, <2>3, <3>1 DEF IInv, SeenInv
  <2> QED
    BY <2>1, <2>2, <2>3
<1> QED
  BY <1>5, <1>9, <1>10, <1>11 DEF IInv

\* Proxy serves the address.
LEMMA ProxyStep ==
  ASSUME IInv, NEW c \in Call, Proxy(c)
  PROVE  IInv'
BY ReplyStep DEF Proxy

\* The steps of no call: what the invariant says of the listings kept, it says
\* of fewer; and of the drive, whatever becomes of it.
LEMMA ExpireStep ==
  ASSUME IInv, NEW d, Expire(d)
  PROVE  IInv'
<1>1. /\ UNCHANGED << hist, call, urls >>
      /\ cache' = [e \in DOMAIN cache \ {d} |-> cache[e]]
  BY DEF Expire
<1>2. HistInv' /\ UrlInv' /\ CallsInv'
  BY <1>1 DEF IInv, HistInv, UrlInv, CallsInv
<1>3. CacheInv(hist, cache)'
  BY <1>1 DEF IInv, CacheInv
<1>4. SeenInv'
  BY <1>1 DEF IInv, SeenInv
<1> QED
  BY <1>2, <1>3, <1>4 DEF IInv

\* An address leaves the cache.
LEMMA ExpireURLStep ==
  ASSUME IInv, ExpireURL
  PROVE  IInv'
<1>1. PICK k \in DOMAIN urls : urls' = [j \in DOMAIN urls \ {k} |-> urls[j]]
  BY DEF ExpireURL
<1>2. UNCHANGED << hist, cache, call >>
  BY DEF ExpireURL
<1>3. UrlInv'
  BY <1>1 DEF IInv, UrlInv
<1>4. HistInv' /\ CacheInv(hist, cache)' /\ CallsInv' /\ SeenInv'
  BY <1>2 DEF IInv, HistInv, CacheInv, CallsInv, SeenInv
<1> QED
  BY <1>3, <1>4 DEF IInv

\* Another client of the account changes the drive.
LEMMA ElsewhereStep ==
  ASSUME IInv, Elsewhere
  PROVE  IInv'
<1>1. UNCHANGED << cache, call, urls >> /\ Len(hist) < MaxHist
  BY DEF Elsewhere, Room
<1>2. /\ hist \in Seq(Tree) /\ Len(hist) \in Nat /\ Len(hist) >= 1 /\ MaxHist \in Nat
      /\ tree \in Tree /\ IsDrive(tree, EntryName)
  <2>1. MaxHist \in Nat
    BY DriveClientAssumption
  <2>2. Len(hist) \in Nat /\ Len(hist) >= 1
    BY <2>1 DEF IInv, HistInv
  <2>3. hist \in Seq(Tree) /\ tree \in Tree
    BY <2>2 DEF IInv, HistInv, tree
  <2> QED
    BY <2>1, <2>2, <2>3, TreeIsDrive
<1>3. PICK t : t \in Tree /\ hist' = Append(hist, t)
  <2>1. CASE \E id \in DOMAIN tree : \E t \in Deleted(tree, id) : hist' = Append(hist, t)
    <3>1. PICK id \in DOMAIN tree : \E t \in Deleted(tree, id) : hist' = Append(hist, t)
      BY <2>1
    <3>2. PICK t \in Deleted(tree, id) : hist' = Append(hist, t)
      BY <3>1
    <3>3. IsDrive(t, EntryName)
      <4>1. "" \in EntryName
        BY DEF EntryName
      <4> QED
        BY <1>2, <3>2, <4>1, ChangesKeepDrive
    <3> QED
      BY <3>2, <3>3, TreeIsDrive
  <2>2. CASE \E dir \in DOMAIN tree \cup {RootId}, name \in Component :
               \E t \in Added(tree, NewId, dir, name) : hist' = Append(hist, t)
    <3>1. PICK id : id = NewId
      OBVIOUS
    <3>2. PICK dir \in DOMAIN tree \cup {RootId}, name \in Component :
                 \E t \in Added(tree, id, dir, name) : hist' = Append(hist, t)
      BY <2>2, <3>1
    <3>3. PICK t \in Added(tree, id, dir, name) : hist' = Append(hist, t)
      BY <3>2
    <3>4. id \in Nat \ {RootId} /\ name \in EntryName
      BY <3>1, NewIdIsNew DEF EntryName
    <3>5. IsDrive(t, EntryName)
      BY <1>2, <3>3, <3>4, ChangesKeepDrive
    <3> QED
      BY <3>3, <3>5, TreeIsDrive
  <2> QED
    BY <2>1, <2>2 DEF Elsewhere
<1>4. Extends(hist, hist')
  BY <1>3 DEF Extends
<1>5. HistInv'
  <2>1. hist' \in Seq(Tree) /\ Len(hist') = Len(hist) + 1
    BY <1>2, <1>3
  <2> QED
    BY <1>1, <1>2, <2>1 DEF HistInv
<1>6. CacheInv(hist, cache)'
  <2>1. Len(hist') \in Nat /\ Len(hist) <= Len(hist')
    BY <1>2, <1>4, Grown
  <2> QED
    BY <1>1, <1>2, <1>4, <2>1, StillListed DEF IInv, CacheInv
<1>7. CallsInv'
  BY <1>1, <1>2, <1>4, CallGrows DEF IInv, CallsInv
<1>8. UrlInv' /\ SeenInv'
  BY <1>1 DEF IInv, UrlInv, SeenInv
<1> QED
  BY <1>5, <1>6, <1>7, <1>8 DEF IInv

-----------------------------------------------------------------------------
(* The invariant holds.                                                    *)

\* At first the cache is empty and nobody has called.
LEMMA InitInv ==
  Init => IInv
<1> SUFFICES ASSUME Init
             PROVE  IInv
  OBVIOUS
<1>1. hist = << Tree0 >> /\ Tree0 \in Tree
  <2>1. IsDrive(Tree0, EntryName)
    BY DriveClientAssumption DEF EntryName
  <2> QED
    BY <2>1, TreeIsDrive DEF Init
<1>2. HistInv
  <2>1. MaxHist \in Nat \ {0}
    BY DriveClientAssumption
  <2> QED
    BY <1>1, <2>1 DEF HistInv
<1>3. cache = [d \in {} |-> Idle] /\ urls = << >> /\ call = [c \in Call |-> Idle]
  BY DEF Init
<1>4. CacheInv(hist, cache) /\ UrlInv
  BY <1>3 DEF CacheInv, UrlInv
<1>5. CallInv(hist, Idle)
  <2>1. Len(hist) \in Nat
    BY <1>1
  <2>2. CallType(hist, Idle)
    BY <2>1, IdleIsCall DEF CallType
  <2> QED
    BY <2>2, IdleIsCall DEF CallInv, AskInv, ReadInv, PageInv, FoundInv, MkdirInv,
                            Asking, Reading, Serving
<1>6. CallsInv
  BY <1>3, <1>5, IdleIsCall DEF CallsInv
<1>7. SeenInv
  BY <1>3, IdleIsCall DEF SeenInv
<1> QED
  BY <1>2, <1>4, <1>6, <1>7 DEF IInv

\* Every step keeps the invariant.
LEMMA NextInv ==
  IInv /\ [Next]_vars => IInv'
<1> SUFFICES ASSUME IInv, [Next]_vars
             PROVE  IInv'
  OBVIOUS
<1>1. ASSUME NEW c \in Call, Step(c)
      PROVE  IInv'
  BY <1>1, LookupCacheStep, LookupDirIDStep, GetPageStep, SetCacheStep, DeleteFileStep,
     RenameFileStep, MoveFileStep, CheckExistsStep, LookupParentStep, AddDirStep,
     FlushDirStep, LookupURLStep, GetAddressStep, SetURLStep, ProxyStep DEF Step
<1>2. ASSUME NEW c \in Call, NEW job \in Job, Start(c, job)
      PROVE  IInv'
  BY <1>2, StartStep
<1>3. CASE UNCHANGED vars
  BY <1>3 DEF vars, IInv, HistInv, CacheInv, UrlInv, CallsInv, SeenInv
<1> QED
  BY <1>1, <1>2, <1>3, ExpireStep, ExpireURLStep, ElsewhereStep DEF Next

\* In every state the invariant holds.
THEOREM Inductive ==
  Spec => []IInv
<1>1. Init => IInv
  BY InitInv
<1>2. IInv /\ [Next]_vars => IInv'
  BY NextInv
<1> QED
  BY <1>1, <1>2, PTL DEF Spec

-----------------------------------------------------------------------------
(* What follows of every state.                                            *)

\* The root is a directory, and an entry like no other.
LEMMA RootEntryFacts ==
  /\ RootEntry.id = RootId /\ RootEntry.dir = TRUE
  /\ NoEntry.id = RootId /\ NoEntry.dir = FALSE
BY DEF RootEntry, NoEntry

\* The invariant gives the types.
LEMMA InvTypeOK ==
  IInv => TypeOK
<1> SUFFICES ASSUME IInv
             PROVE  TypeOK
  OBVIOUS
<1>1. Len(hist) \in 1 .. MaxHist /\ hist \in Seq(Tree)
  BY DEF IInv, HistInv
<1>2. DOMAIN cache \subseteq Name
      /\ \A d \in DOMAIN cache : /\ cache[d].files \in Seq(ListedEntry)
                                 /\ cache[d].from \in 1 .. Len(hist)
  BY DEF IInv, CacheInv
<1>3. ASSUME NEW c \in Call
      PROVE  /\ call[c].pc \in {"idle", "cache", "dirid", "page", "set", "delete", "rename",
                         "move", "exists", "parent", "add", "flush", "url", "address",
                         "seturl", "proxy", "done"}
             /\ call[c].job \in Job \cup {NoJob}
             /\ call[c].key \in Name
             /\ call[c].files \in Seq(ListedEntry)
             /\ call[c].err \in {"nil", "err", "ErrNotFound", "panic"}
             /\ call[c].from \in 0 .. Len(hist) /\ call[c].at \in 0 .. Len(hist)
  <2>1. PICK q : q = call[c]
    OBVIOUS
  <2>2. q \in CallRecord /\ CallType(hist, q) /\ Len(hist) \in Nat
    BY <2>1, InvParts DEF CallInv
  <2>3. q.from \in 0 .. Len(hist) /\ q.at \in 0 .. Len(hist)
    BY <2>2 DEF CallRecord, CallType
  <2> QED
    BY <2>1, <2>2, <2>3 DEF CallRecord
<1>4. ASSUME NEW c \in Call,
             call[c].pc \in {"delete", "rename", "move", "url", "address", "seturl", "proxy"}
      PROVE  call[c].src # NoEntry
  <2>1. PICK q : q = call[c]
    OBVIOUS
  <2>2. Found(hist, q)
    BY <1>4, <2>1, InvParts DEF CallInv, FoundInv, Serving
  <2>3. CASE q.src = RootEntry
    BY <2>1, <2>3, RootEntryFacts
  <2>4. CASE ListedIn(hist, q.src.id, BaseOf(q.job.src), DirOf(q.job.src))
    BY <1>1, <2>1, <2>4, ListedHasId, RootEntryFacts
  <2> QED
    BY <2>2, <2>3, <2>4 DEF Found
<1> QED
  BY <1>1, <1>2, <1>3, <1>4 DEF TypeOK

\* The types hold, and a call that is about to change, or to download, an
\* entry has found one.
THEOREM TypeCorrect ==
  Spec => []TypeOK
BY Inductive, InvTypeOK, PTL

\* The invariant of the flushes is the property once nothing is left to flush.
LEMMA InvAnsweredChangesAreSeen ==
  IInv => AnsweredChangesAreSeen
<1> SUFFICES ASSUME IInv, NEW c \in Call, call[c].pc = "done", call[c].at # 0,
                    NEW d \in DOMAIN cache,
                    \/ d = DirOf(call[c].job.src)
                    \/ call[c].job.op = "move" /\ d = DirOf(call[c].job.dst),
                    cache[d].from < call[c].at
             PROVE  cache[d].raced
  BY DEF AnsweredChangesAreSeen
<1>1. call[c].flush = << >>
  BY InvParts DEF CallInv, CallType
<1>2. d \in Targets(call[c].job)
  BY DEF Targets
<1>3. d \in Flushed(call[c])
  BY <1>1, <1>2 DEF Flushed
<1> QED
  BY <1>3 DEF IInv, SeenInv

\* Once a change has been answered, its directories are not served from a
\* listing of before, but for one that another call was reading meanwhile.
THEOREM AnsweredChangesAreAlwaysSeen ==
  Spec => []AnsweredChangesAreSeen
BY Inductive, InvAnsweredChangesAreSeen, PTL

\* The invariant gives what a download serves.
LEMMA InvServedAsListed ==
  IInv => ServedAsListed
<1> SUFFICES ASSUME IInv, NEW c \in Call, call[c].pc = "proxy"
             PROVE  /\ call[c].url = call[c].src.id /\ ~call[c].src.dir
                    /\ WasListed(call[c].src.id, BaseOf(call[c].job.src),
                                 DirOf(call[c].job.src))
  BY DEF ServedAsListed
<1>1. FoundInv(hist, call[c])
  BY InvParts DEF CallInv
<1>2. call[c].url = call[c].src.id /\ ~call[c].src.dir /\ Found(hist, call[c])
  BY <1>1 DEF FoundInv, Serving
<1>3. call[c].src # RootEntry
  BY <1>2, RootEntryFacts
<1> QED
  BY <1>2, <1>3 DEF Found, WasListed, ListedIn

\* Every download is of a file that was listed under the path asked for.
THEOREM DownloadsAreServedAsListed ==
  Spec => []ServedAsListed
BY Inductive, InvServedAsListed, PTL

\* At the end of the page loop nothing is left to come.
LEMMA InvListingComplete ==
  IInv => ListingComplete
<1> SUFFICES ASSUME IInv, NEW c \in Call
             PROVE  LET q    == call[c]
                        kids == [k \in q.from .. Len(hist) |-> Children(hist[k], q.cid)]
                    IN  /\ q.pc = "set" /\ q.whole
                        /\ \A k \in q.from .. Len(hist) - 1 : kids[k] \subseteq kids[k + 1]
                        => \A i \in kids[q.from] : \E j \in DOMAIN q.files : q.files[j].id = i
  BY DEF ListingComplete
<1> DEFINE q    == call[c]
           kids == [k \in q.from .. Len(hist) |-> Children(hist[k], q.cid)]
<1> SUFFICES ASSUME q.pc = "set", q.whole,
                    \A k \in q.from .. Len(hist) - 1 : kids[k] \subseteq kids[k + 1],
                    NEW i \in kids[q.from]
             PROVE  \E j \in DOMAIN q.files : q.files[j].id = i
  OBVIOUS
<1>1. q.from \in 1 .. Len(hist) /\ Len(hist) \in Nat /\ PageInv(hist, q)
  BY InvParts DEF CallInv, CallType, CallRecord, ReadInv, Reading
<1>2. Steady(hist, q)
  <2> SUFFICES ASSUME NEW k \in q.from .. Len(hist) - 1
               PROVE  Children(hist[k], q.cid) \subseteq Children(hist[k + 1], q.cid)
    BY DEF Steady
  <2>1. k \in q.from .. Len(hist) /\ k + 1 \in q.from .. Len(hist)
    BY <1>1
  <2> QED
    BY <2>1
<1>3. i \in Children(hist[q.from], q.cid)
  BY <1>1
<1> QED
  BY <1>2, <1>3, <1>1 DEF PageInv, Reading

\* The page loop misses nothing of a directory that nothing leaves, for every
\* page size and however many entries are added meanwhile.
THEOREM ListingsAreComplete ==
  Spec => []ListingComplete
BY Inductive, InvListingComplete, PTL

-----------------------------------------------------------------------------
(* What follows of every step.                                             *)

\* Only the four calls of the service that change something move a call on
\* and the drive with it.
LEMMA OwnChange ==
  ASSUME IInv, [Next]_vars, NEW c \in Call, call'[c] # call[c], hist' # hist
  PROVE  DeleteFile(c) \/ RenameFile(c) \/ MoveFile(c) \/ AddDir(c)
<1>1. ASSUME NEW p \in Call, NEW r, Become(p, r)
      PROVE  p = c
  BY <1>1 DEF Become, IInv, CallsInv
<1>2. ASSUME NEW p \in Call, Step(p)
      PROVE  DeleteFile(p) \/ RenameFile(p) \/ MoveFile(p) \/ AddDir(p)
  BY <1>2 DEF Step, LookupCache, LookupDirID, GetPage, SetCache, CheckExists, LookupParent,
              FlushDir, LookupURL, GetAddress, SetURL, Proxy
<1>3. ASSUME NEW p \in Call, NEW changed, NEW flush, Change(p, changed, flush)
      PROVE  p = c
  BY <1>1, <1>3 DEF Change
<1>4. ASSUME NEW p \in Call, DeleteFile(p) \/ RenameFile(p) \/ MoveFile(p) \/ AddDir(p)
      PROVE  p = c
  BY <1>3, <1>4 DEF DeleteFile, RenameFile, MoveFile, AddDir
<1>5. \E p \in Call : Step(p)
  BY DEF Next, Start, Expire, ExpireURL, Elsewhere, vars
<1> QED
  BY <1>2, <1>4, <1>5

\* A change that is made is one of those the service can make.
LEMMA ChangeMade ==
  ASSUME IInv, NEW c \in Call, NEW changed, NEW flush, Change(c, changed, flush),
         hist' # hist
  PROVE  \E t \in changed : hist' = Append(hist, t) /\ tree' = t
<1>1. PICK possible : possible = IF Room THEN changed ELSE {}
  OBVIOUS
<1>2. PICK a \in Answers(tree, possible) : hist' = IF a.tree = tree THEN hist
                                                  ELSE Append(hist, a.tree)
  BY <1>1 DEF Change
<1>3. a.tree # tree /\ hist' = Append(hist, a.tree)
  BY <1>2
<1>4. a.tree \in changed
  BY <1>1, <1>3 DEF Answers
<1>5. hist \in Seq(Tree) /\ Len(hist) \in Nat
  BY InvParts
<1>6. tree' = a.tree
  BY <1>3, <1>5 DEF tree
<1> QED
  BY <1>3, <1>4, <1>6

\* The entry a step changes is the one GetFile found for the call's path.
LEMMA StepTargetWasListed ==
  ASSUME IInv, [Next]_vars, NEW c \in Call, NEW q, q = call[c],
         q.pc \in {"delete", "rename", "move"}, hist' # hist, call'[c] # q
  PROVE  WasListed(q.src.id, BaseOf(q.job.src), DirOf(q.job.src))
<1>1. FoundInv(hist, q) /\ tree \in Tree
  BY InvParts DEF CallInv
<1>2. Found(hist, q)
  BY <1>1 DEF FoundInv
<1>3. CASE q.job.src # Root
  BY <1>2, <1>3 DEF Found, WasListed, ListedIn
<1>4. CASE q.job.src = Root
  <2>1. q.pc = "delete" /\ q.src.id = RootId
    BY <1>1, <1>2, <1>4, RootEntryFacts DEF FoundInv, Found
  <2>2. DeleteFile(c)
    BY <2>1, OwnChange DEF RenameFile, MoveFile, AddDir
  <2>3. PICK changed, flush : changed = Deleted(tree, q.src.id) /\ Change(c, changed, flush)
    BY <2>2 DEF DeleteFile
  <2>4. RootId \notin DOMAIN tree
    BY <1>1, TreeIsDrive DEF IsDrive
  <2>5. changed = {}
    BY <2>1, <2>3, <2>4 DEF Deleted
  <2> QED
    BY <2>3, <2>5, ChangeMade
<1> QED
  BY <1>3, <1>4

\* A call changes no entry but one that was listed under the name it was given.
THEOREM TargetsWereListed ==
  Spec => TargetWasListed
<1>1. IInv /\ [Next]_vars =>
        [\A c \in Call :
           LET q == call[c]
           IN  q.pc \in {"delete", "rename", "move"} /\ hist' # hist /\ call' # call
                 /\ call'[c] # q
               => WasListed(q.src.id, BaseOf(q.job.src), DirOf(q.job.src))]_vars
  BY StepTargetWasListed
<1> QED
  BY Inductive, <1>1, PTL DEF Spec, TargetWasListed

\* The directory a step adds is below what the parent's path named.
LEMMA StepNewDirWhereAsked ==
  ASSUME IInv, [Next]_vars, NEW c \in Call, NEW id \in DOMAIN tree' \ DOMAIN tree,
         call[c].pc = "add", call'[c] # call[c],
         NEW dir, dir = DirOf(call[c].job.src), NEW parent, parent = tree'[id].parent
  PROVE  IF dir = Root THEN parent = RootId
         ELSE \E k \in DOMAIN hist : parent \in DOMAIN hist[k]
                                      /\ PathOf(hist[k])[parent] = dir
<1>1. PICK q : q = call[c]
  OBVIOUS
<1>2. hist \in Seq(Tree) /\ tree \in Tree /\ MkdirInv(hist, q)
  BY <1>1, InvParts DEF CallInv
<1>3. hist' # hist
  BY DEF tree
<1>4. AddDir(c)
  BY <1>3, OwnChange DEF DeleteFile, RenameFile, MoveFile
<1>5. PICK new, name, changed, flush :
        changed = Added(tree, new, q.cid, name) /\ Change(c, changed, flush)
  BY <1>1, <1>4 DEF AddDir
<1>6. PICK t \in changed : tree' = t
  BY <1>3, <1>5, ChangeMade
<1>7. IsFolder(tree, q.cid) /\ t = [i \in DOMAIN tree \cup {new} |->
                                      IF i = new THEN Entry(name, q.cid, TRUE) ELSE tree[i]]
  BY <1>5, <1>6 DEF Added
<1>8. parent = q.cid
  BY <1>6, <1>7 DEF Entry
<1>9. q.cid # NoId
  BY <1>2, <1>7, TreeIsDrive DEF IsFolder, IsDrive, RootId, NoId
<1>10. PICK j \in DOMAIN hist : q.cid \in DirIDs(hist[j], dir)
  BY <1>1, <1>2, <1>9 DEF MkdirInv, DirIDAnswers
<1>11. IsDrive(hist[j], EntryName)
  BY <1>2, <1>10, TreeIsDrive
<1>12. CASE dir = Root
  BY <1>8, <1>10, <1>11, <1>12, DirIDsFacts
<1>13. CASE dir # Root
  <2>1. q.cid # RootId
    BY <1>1, <1>2, <1>13 DEF MkdirInv
  <2>2. q.cid \in DOMAIN hist[j] /\ PathOf(hist[j])[q.cid] = dir
    BY <1>10, <1>11, <2>1, DirIDsFacts
  <2> QED
    BY <1>8, <1>10, <1>13, <2>2
<1> QED
  BY <1>12, <1>13

\* MKCOL makes a directory only in one that its parent's path had named.
THEOREM NewDirsAreWhereAsked ==
  Spec => NewDirWhereAsked
<1>1. IInv /\ [Next]_vars =>
        [\A c \in Call : \A id \in DOMAIN tree' \ DOMAIN tree :
           call[c].pc = "add" /\ call'[c] # call[c]
           => LET dir == DirOf(call[c].job.src)  parent == tree'[id].parent
              IN  IF dir = Root THEN parent = RootId
                  ELSE \E k \in DOMAIN hist : parent \in DOMAIN hist[k]
                                               /\ PathOf(hist[k])[parent] = dir]_vars
  BY StepNewDirWhereAsked
<1> QED
  BY Inductive, <1>1, PTL DEF Spec, NewDirWhereAsked
==============================================================================
