---------------------------- MODULE WalkFSProofs ----------------------------
(***************************************************************************)
(* Proofs about WalkFS, for every drive, every request and however often   *)
(* the drive changes while it is walked; and, for a drive that is a tree   *)
(* and does not change, that the answer is the whole of what was asked.    *)
(***************************************************************************)
EXTENDS WalkFS, Drive115Proofs

-----------------------------------------------------------------------------
(* The inductive invariant.                                                *)

Tree     == Drives(Component)
Path     == Seq(Component)
Status   == {207, 400, 404, 405, 500}
Node     == [path : Path, dir : BOOLEAN, depth : Depth]
ListItem == [id : Nat \ {RootId}, name : Component, dir : BOOLEAN]
Frame    == [path : Path, depth : Depth, files : Seq(ListItem)]
Sent     == [kind : {"header", "response", "end", "text"}, path : Path]

HistInv == hist \in Seq(Tree) /\ Len(hist) \in 1 .. MaxHist

Types ==
  /\ pc \in {"lookup", "parse", "visit", "list", "next", "close", "done"}
  /\ job \in Job
  /\ node \in Node
  /\ stack \in Seq(Frame)
  /\ out \in Seq(Sent)
  /\ err \in BOOLEAN /\ whole \in BOOLEAN /\ gone \in BOOLEAN
  /\ status \in Seq(Status)

\* Path is below the request's, and what may be visited from depth levels
\* below it is within the request's depth.
Reaches(request, path, depth) ==
  /\ IsPrefix(request.path, path)
  /\ IF request.depth = infiniteDepth
       THEN depth = infiniteDepth
       ELSE depth \in {0, 1} /\ Len(path) + depth <= Len(request.path) + request.depth

\* The entries of a frame are one level below its directory.
FrameReaches(request, frame) ==
  /\ IsPrefix(request.path, frame.path)
  /\ IF request.depth = infiniteDepth
       THEN frame.depth = infiniteDepth
       ELSE /\ frame.depth \in {0, 1}
            /\ Len(frame.path) + 1 + frame.depth <= Len(request.path) + request.depth

\* The walk never holds a depth that is more than what is left of the
\* request's.
DepthInv ==
  /\ pc \in {"lookup", "parse", "visit", "list"} => Reaches(job, node.path, node.depth)
  /\ pc = "list" => node.depth # 0
  /\ \A k \in DOMAIN stack : FrameReaches(job, stack[k])
  /\ DepthRespected

\* The answer has been started and not closed.
Opened ==
  /\ Len(out) >= 1 /\ out[1] = Header
  /\ \A k \in 2 .. Len(out) : out[k].kind = "response"
  /\ status = << 207 >>

\* The answer is started by the first resource visited.
AnswerInv ==
  /\ pc \in {"lookup", "parse"} => out = << >> /\ status = << >> /\ ~gone
  /\ pc = "visit" => ~gone /\ (Opened \/ (out = << >> /\ status = << >>))
  /\ pc \in {"list", "next"} => ~gone /\ Opened
  /\ pc = "close" => gone \/ Opened
  /\ AnswerWellFormed

IInv == HistInv /\ Types /\ DepthInv /\ AnswerInv

-----------------------------------------------------------------------------
(* Facts about names, about what is sent and about listings.               *)

\* The kinds of what is sent.
LEMMA SentFacts ==
  /\ Header \in Sent /\ Header.kind = "header"
  /\ EndTag \in Sent /\ EndTag.kind = "end"
  /\ PlainText \in Sent /\ PlainText.kind = "text"
  /\ \A p \in Path : Resp(p) \in Sent /\ Resp(p).kind = "response" /\ Resp(p).path = p
<1>1. Root \in Path
  BY DEF Root, Path
<1> QED
  BY <1>1 DEF Header, EndTag, PlainText, Resp, Sent

\* Division by a page's size, and numbers of entries that are in order.
LEMMA PageOf ==
  ASSUME NEW a \in Nat, NEW size \in Nat \ {0}, NEW b, b = a \div size
  PROVE  b \in Nat /\ b * size <= a /\ a < (b + 1) * size
<1>1. a \div size \in Nat
  OBVIOUS
<1>2. a = size * (a \div size) + (a % size) /\ a % size \in 0 .. size - 1
  OBVIOUS
<1>3. size * b = b * size /\ (b + 1) * size = b * size + size
  BY <1>1
<1>4. b * size \in Nat
  BY <1>1
<1> QED
  BY <1>1, <1>2, <1>3, <1>4

LEMMA PagesLess ==
  ASSUME NEW a \in Int, NEW b \in Int, NEW size \in Nat \ {0}, a * size < b * size
  PROVE  a < b
<1> SUFFICES ASSUME b <= a
             PROVE  FALSE
  OBVIOUS
<1>1. PICK d \in Nat : a = b + d
  <2>1. a - b \in Nat /\ a = b + (a - b)
    OBVIOUS
  <2> QED
    BY <2>1
<1>2. a * size = b * size + d * size /\ d * size \in Nat /\ b * size \in Int
  BY <1>1
<1> QED
  BY <1>2

\* The greater of two numbers.
LEMMA MaxOfTwo ==
  ASSUME NEW a \in Int, NEW b \in Int
  PROVE  Max({a, b}) = IF a <= b THEN b ELSE a
<1>1. IsFiniteSet({a, b}) /\ {a, b} \in SUBSET Int /\ {a, b} # {}
  <2>1. IsFiniteSet({})
    BY FS_EmptySet
  <2>2. IsFiniteSet({} \cup {a})
    BY <2>1, FS_AddElement
  <2>3. IsFiniteSet(({} \cup {a}) \cup {b})
    BY <2>2, FS_AddElement
  <2>4. {a, b} = ({} \cup {a}) \cup {b}
    OBVIOUS
  <2> QED
    BY <2>3, <2>4
<1>2. PICK m : m = Max({a, b})
  OBVIOUS
<1>3. m \in {a, b} /\ a <= m /\ b <= m
  BY <1>1, <1>2, MaxMin
<1> QED
  BY <1>2, <1>3

\* What is read in a place is in the listing that its page is of.
LEMMA LoopFacts ==
  ASSUME hist \in Seq(Tree), NEW j \in DOMAIN hist, NEW id, NEW loop \in Loops(j, id),
         NEW n, n = Len(loop)
  PROVE  /\ n \in Nat \ {0} /\ DOMAIN loop = 1 .. n
         /\ \A i \in 1 .. n : /\ loop[i] \in {Refused} \cup (j .. Len(hist))
                              /\ Count(loop[i], id) \in Nat
                              /\ i * PageSize \in Nat
                              /\ i * PageSize >= Count(loop[i], id) <=> i = n
<1>1. PICK m \in Turns(id) : loop \in [1 .. m -> {Refused} \cup (j .. Len(hist))]
  BY DEF Loops
<1>2. m \in Nat \ {0}
  BY <1>1 DEF Turns
<1>3. n = m /\ DOMAIN loop = 1 .. n
  BY <1>1, <1>2
<1>4. ASSUME NEW i \in 1 .. n
      PROVE  /\ loop[i] \in {Refused} \cup (j .. Len(hist))
             /\ Count(loop[i], id) \in Nat
             /\ i * PageSize \in Nat
             /\ i * PageSize >= Count(loop[i], id) <=> i = n
  <2>1. loop[i] \in {Refused} \cup (j .. Len(hist))
    BY <1>1, <1>3, <1>4
  <2>2. loop[i] = Refused => Count(loop[i], id) \in Nat
    BY DEF Count
  <2>3. ASSUME loop[i] # Refused
        PROVE  Count(loop[i], id) \in Nat
    <3>1. loop[i] \in DOMAIN hist
      BY <2>1, <2>3
    <3>2. IsDrive(hist[loop[i]], Component)
      BY <3>1, AllDrives DEF Tree
    <3>3. PICK ids, all : ids = Children(hist[loop[i]], id) /\ all = Listing(hist[loop[i]], id)
      OBVIOUS
    <3>4. Len(all) \in Nat
      BY <3>2, <3>3, ListingFacts
    <3> QED
      BY <2>3, <3>3, <3>4 DEF Count
  <2>4. i * PageSize \in Nat
    BY <1>2, <1>3, WalkFSAssumption
  <2>5. i * PageSize >= Count(loop[i], id) <=> i + 1 \notin DOMAIN loop
    BY <1>3 DEF Loops
  <2>6. i + 1 \notin DOMAIN loop <=> i = n
    BY <1>2, <1>3
  <2> QED
    BY <2>1, <2>2, <2>3, <2>4, <2>5, <2>6
<1> QED
  BY <1>2, <1>3, <1>4

\* How many entries a loop has read.
Places(loop, n, id) == Max({(n - 1) * PageSize, Count(loop[n], id)})

\* The page that shows a place was not refused, and reaches that place.
LEMMA PlaceFacts ==
  ASSUME hist \in Seq(Tree), NEW j \in DOMAIN hist, NEW id, NEW loop \in Loops(j, id),
         NEW n, n = Len(loop), NEW total, total = Places(loop, n, id)
  PROVE  /\ total \in Nat /\ total >= (n - 1) * PageSize /\ total >= Count(loop[n], id)
         /\ total \in {(n - 1) * PageSize, Count(loop[n], id)}
         /\ \A p \in 1 .. total : LET i == (p - 1) \div PageSize + 1
                                 IN  /\ i \in 1 .. n /\ loop[i] # Refused
                                     /\ p <= Count(loop[i], id)
<1>1. /\ n \in Nat \ {0} /\ DOMAIN loop = 1 .. n
      /\ \A i \in 1 .. n : /\ Count(loop[i], id) \in Nat
                           /\ i * PageSize \in Nat
                           /\ i * PageSize >= Count(loop[i], id) <=> i = n
  BY LoopFacts
<1>2. PageSize \in Nat \ {0}
  BY WalkFSAssumption
<1>3. PICK full : full = (n - 1) * PageSize
  OBVIOUS
<1>4. full \in Nat
  BY <1>1, <1>2, <1>3
<1>5. PICK last : last = Count(loop[n], id)
  OBVIOUS
<1>6. last \in Nat /\ last <= n * PageSize /\ n * PageSize \in Nat
  BY <1>1, <1>5
<1>7. total = IF full <= last THEN last ELSE full
  <2>1. total = Max({full, last})
    BY <1>3, <1>5 DEF Places
  <2> QED
    BY <1>4, <1>6, <2>1, MaxOfTwo
<1>8. ASSUME NEW p \in 1 .. total, NEW i, i = (p - 1) \div PageSize + 1
      PROVE  i \in 1 .. n /\ loop[i] # Refused /\ p <= Count(loop[i], id)
  <2>1. PICK b : b = (p - 1) \div PageSize
    OBVIOUS
  <2>2. p - 1 \in Nat
    BY <1>4, <1>6, <1>7, <1>8
  <2>3. b \in Nat /\ b * PageSize <= p - 1 /\ p - 1 < (b + 1) * PageSize
    BY <1>2, <2>1, <2>2, PageOf
  <2>4. i = b + 1 /\ i \in Nat \ {0} /\ b * PageSize \in Nat /\ i * PageSize \in Nat
    BY <1>2, <1>8, <2>1, <2>3
  <2>5. p <= i * PageSize
    BY <2>2, <2>3, <2>4
  <2>6. CASE p <= full
    <3>1. PICK m : m = n - 1
      OBVIOUS
    <3>2. b < n - 1
      <4>1. m \in Int
        BY <1>1, <3>1
      <4>2. full = m * PageSize
        BY <1>3, <3>1
      <4>3. b * PageSize < full
        BY <1>4, <2>2, <2>3, <2>4, <2>6
      <4>4. b < m
        BY <1>2, <2>3, <4>1, <4>2, <4>3, PagesLess
      <4> QED
        BY <3>1, <4>4
    <3>3. i \in 1 .. n /\ i # n
      BY <1>1, <2>3, <2>4, <3>2
    <3>4. i * PageSize < Count(loop[i], id)
      BY <1>1, <3>3
    <3>5. p <= Count(loop[i], id) /\ Count(loop[i], id) # 0
      BY <1>1, <2>2, <2>4, <2>5, <3>3, <3>4
    <3> QED
      BY <3>3, <3>5 DEF Count
  <2>7. CASE p > full
    <3>1. p <= last /\ full < last
      BY <1>4, <1>6, <1>7, <1>8, <2>7
    <3>2. PICK x, y : x = b * PageSize /\ y = n * PageSize
      OBVIOUS
    <3>3. b < n
      <4>1. x \in Nat /\ x <= p - 1 /\ y \in Nat /\ last <= y /\ p \in Int /\ last \in Nat
        BY <1>6, <1>4, <1>7, <2>3, <2>4, <3>2
      <4>2. x < y
        BY <3>1, <4>1
      <4>3. b * PageSize < n * PageSize /\ b \in Int /\ n \in Int
        BY <1>1, <2>3, <3>2, <4>2
      <4> QED
        BY <1>2, <4>3, PagesLess
    <3>4. (n - 1) * PageSize < i * PageSize
      BY <1>3, <1>4, <2>2, <2>4, <2>5, <2>7
    <3>5. n - 1 < i
      BY <1>1, <1>2, <2>4, <3>4, PagesLess
    <3>6. i = n
      BY <1>1, <2>3, <2>4, <3>3, <3>5
    <3>7. loop[n] # Refused
      BY <1>4, <1>5, <3>1 DEF Count
    <3> QED
      BY <1>1, <1>5, <3>1, <3>6, <3>7
  <2> QED
    BY <1>4, <2>2, <2>6, <2>7
<1>9. total \in Nat /\ total >= full /\ total >= last /\ total \in {full, last}
  BY <1>4, <1>6, <1>7
<1>10. \A p \in 1 .. total : LET i == (p - 1) \div PageSize + 1
                              IN  /\ i \in 1 .. n /\ loop[i] # Refused
                                  /\ p <= Count(loop[i], id)
  BY <1>8
<1> QED
  BY <1>3, <1>5, <1>9, <1>10

\* The answers of GetFiles are page loops.
LEMMA FilesAre ==
  ASSUME NEW dir, NEW a \in Files(dir)
  PROVE  \E j, id, loop :
           /\ j \in DOMAIN hist /\ id \in DirIDAnswers(hist[j], dir) /\ loop \in Loops(j, id)
           /\ a = [files |-> Read(loop, Len(loop), id),
                   whole |-> id # NoId /\ Last(loop) # Refused]
BY DEF Files

\* Every answer of GetFiles is made of entries of the drive.
LEMMA FilesFacts ==
  ASSUME hist \in Seq(Tree), NEW dir, NEW a \in Files(dir)
  PROVE  a.files \in Seq(ListItem) /\ a.whole \in BOOLEAN
<1>1. PICK j, id, loop :
        /\ j \in DOMAIN hist /\ id \in DirIDAnswers(hist[j], dir) /\ loop \in Loops(j, id)
        /\ a = [files |-> Read(loop, Len(loop), id),
                whole |-> id # NoId /\ Last(loop) # Refused]
  BY FilesAre
<1>2. PICK n, total : n = Len(loop) /\ total = Places(loop, n, id)
  OBVIOUS
<1>3. /\ n \in Nat \ {0}
      /\ \A i \in 1 .. n : loop[i] \in {Refused} \cup (j .. Len(hist))
  BY <1>1, <1>2, LoopFacts
<1>4. /\ total \in Nat
      /\ \A p \in 1 .. total : LET i == (p - 1) \div PageSize + 1
                              IN  /\ i \in 1 .. n /\ loop[i] # Refused
                                  /\ p <= Count(loop[i], id)
  BY <1>1, <1>2, PlaceFacts
<1>5. ASSUME NEW p \in 1 .. total
      PROVE  Listing(hist[loop[(p - 1) \div PageSize + 1]], id)[p] \in ListItem
  <2>1. PICK i : i = (p - 1) \div PageSize + 1
    OBVIOUS
  <2>2. i \in 1 .. n /\ loop[i] # Refused /\ p <= Count(loop[i], id)
    BY <1>4, <2>1
  <2>3. loop[i] \in DOMAIN hist
    BY <1>1, <1>3, <2>2
  <2>4. IsDrive(hist[loop[i]], Component)
    BY <2>3, AllDrives DEF Tree
  <2>5. PICK ids, all : ids = Children(hist[loop[i]], id) /\ all = Listing(hist[loop[i]], id)
    OBVIOUS
  <2>6. all \in Seq(ListItem) /\ Len(all) \in Nat
    BY <2>4, <2>5, ListingFacts DEF ListItem
  <2>7. p \in 1 .. Len(all)
    BY <1>4, <2>2, <2>5, <2>6 DEF Count
  <2> QED
    BY <2>1, <2>5, <2>6, <2>7
<1>6. Read(loop, n, id) = [p \in 1 .. total |-> Listing(hist[loop[(p - 1) \div PageSize + 1]], id)[p]]
  BY <1>2 DEF Read, Places
<1>7. Read(loop, n, id) \in Seq(ListItem)
  BY <1>4, <1>5, <1>6
<1> QED
  BY <1>1, <1>2, <1>7

\* What may be visited is within the depth that was asked for.
LEMMA ReachesIsWithin ==
  ASSUME Types, NEW depth, Reaches(job, node.path, depth)
  PROVE  Within(node.path, job.depth)
<1>1. job.depth \in {0, 1, infiniteDepth} /\ Len(job.path) \in Nat /\ Len(node.path) \in Nat
  BY WalkFSAssumption, NameAssumption DEF Types, Node, Path
<1> QED
  BY <1>1 DEF Reaches, Within

\* The types, field by field.
LEMMA TypeFacts ==
  ASSUME Types
  PROVE  /\ node.path \in Path /\ node.dir \in BOOLEAN /\ node.depth \in Depth
         /\ job.path \in Path /\ job.depth \in Depth
         /\ Len(job.path) \in Nat /\ Len(node.path) \in Nat
<1>1. job \in [path : Name, depth : {0, 1, infiniteDepth}] /\ Name \subseteq Path
  BY WalkFSAssumption, NameAssumption DEF Types, Path
<1> QED
  BY <1>1 DEF Types, Node, Path, Depth

-----------------------------------------------------------------------------
(* The steps preserve the invariant.                                       *)

\* At first nothing was visited.
LEMMA InitInv ==
  Init => IInv
<1> SUFFICES ASSUME Init
             PROVE  IInv
  OBVIOUS
<1>1. hist = << Tree0 >> /\ Tree0 \in Tree /\ MaxHist \in Nat \ {0}
  BY WalkFSAssumption, AllDrives DEF Init, Tree
<1>2. HistInv
  BY <1>1 DEF HistInv
<1>3. job \in Job /\ job \in [path : Name, depth : {0, 1, infiniteDepth}] /\ job.path \in Path
  BY WalkFSAssumption, NameAssumption DEF Init, Path
<1>4. /\ node = [path |-> job.path, dir |-> TRUE, depth |-> job.depth]
      /\ pc = "lookup" /\ stack = << >> /\ out = << >> /\ status = << >>
      /\ err = FALSE /\ whole = TRUE /\ gone = FALSE
  BY DEF Init
<1>5. Types
  <2>1. node \in Node
    BY <1>3, <1>4 DEF Node, Depth
  <2>2. stack \in Seq(Frame) /\ out \in Seq(Sent) /\ status \in Seq(Status)
    BY <1>4
  <2> QED
    BY <1>3, <1>4, <2>1, <2>2 DEF Types
<1>6. Reaches(job, node.path, node.depth)
  <2>1. IsPrefix(job.path, job.path)
    BY <1>3 DEF IsPrefix, Path
  <2> QED
    BY <1>3, <1>4, <2>1 DEF Reaches, Path, infiniteDepth
<1>7. DepthInv
  BY <1>4, <1>6 DEF DepthInv, DepthRespected, Visited
<1>8. AnswerInv
  BY <1>4 DEF AnswerInv, AnswerWellFormed
<1> QED
  BY <1>2, <1>5, <1>7, <1>8 DEF IInv

\* A plain answer is all the client gets.
LEMMA AnswerStep ==
  ASSUME IInv, pc \in {"lookup", "parse"}, NEW code \in {400, 404, 405}, Answer(code),
         UNCHANGED << hist, job, node, stack, err, gone >>, whole' \in BOOLEAN
  PROVE  IInv'
<1>1. Types /\ DepthInv /\ HistInv /\ out = << >> /\ status = << >>
  BY DEF IInv, AnswerInv
<1>2. pc' = "done" /\ status' = << code >> /\ out' = << PlainText >>
  BY <1>1 DEF Answer
<1>3. DOMAIN out' = {1} /\ out'[1].kind = "text" /\ out' \in Seq(Sent)
  BY <1>2, SentFacts
<1>4. Types'
  <2>1. status' \in Seq(Status)
    BY <1>2 DEF Status
  <2> QED
    BY <1>1, <1>2, <1>3, <2>1 DEF Types
<1>5. DepthInv'
  BY <1>1, <1>2, <1>3 DEF DepthInv, DepthRespected, Visited
<1>6. AnswerInv'
  <2>1. ~Started'
    BY <1>3, SentFacts DEF Started
  <2> QED
    BY <1>2, <2>1 DEF AnswerInv, AnswerWellFormed
<1> QED
  BY <1>1, <1>4, <1>5, <1>6 DEF IInv, HistInv

\* The lookup finds the resource, or its failure is the whole answer.
LEMMA LookupStep ==
  ASSUME IInv, Lookup
  PROVE  IInv'
<1>1. /\ pc = "lookup" /\ UNCHANGED << hist, job, stack, err, gone >>
      /\ Types /\ DepthInv /\ HistInv /\ AnswerInv
  BY DEF IInv, Lookup
<1>2. ASSUME pc' = "parse", UNCHANGED << out, status >>, whole' \in BOOLEAN, node' \in Node,
             node'.path = node.path, node'.depth = node.depth
      PROVE  IInv'
  <2>1. HistInv' /\ Types'
    BY <1>1, <1>2 DEF HistInv, Types
  <2>2. DepthInv'
    BY <1>1, <1>2 DEF DepthInv, DepthRespected, Visited, Within
  <2>3. AnswerInv'
    BY <1>1, <1>2 DEF AnswerInv, AnswerWellFormed
  <2> QED
    BY <2>1, <2>2, <2>3 DEF IInv
<1>3. CASE /\ job.path = Root /\ pc' = "parse"
           /\ UNCHANGED << node, out, status, whole >>
  BY <1>1, <1>2, <1>3 DEF Types
<1>4. CASE Answer(405) /\ UNCHANGED << node, whole >>
  BY <1>1, <1>4, AnswerStep DEF Types
<1>5. ASSUME NEW a \in Files(DirOf(job.path)),
             NEW hits, hits = { i \in DOMAIN a.files : a.files[i].name = BaseOf(job.path) },
             whole' = (whole /\ a.whole),
             IF hits = {}
               THEN Answer(404) /\ UNCHANGED node
               ELSE /\ pc' = "parse"
                    /\ node' = [node EXCEPT !.dir = a.files[Min(hits)].dir]
                    /\ UNCHANGED << out, status >>
      PROVE  IInv'
  <2>1. PICK files : files = a.files
    OBVIOUS
  <2>2. files \in Seq(ListItem) /\ whole' \in BOOLEAN
    BY <1>1, <1>5, <2>1, FilesFacts DEF HistInv, Types
  <2>3. CASE hits = {}
    BY <1>1, <1>5, <2>2, <2>3, AnswerStep
  <2>4. CASE hits # {}
    <3>1. hits \in SUBSET Int /\ IsFiniteSet(hits)
      <4>0. Len(files) \in Nat /\ DOMAIN files = 1 .. Len(files)
        BY <2>2
      <4>1. PICK n \in Nat : n = Len(files) /\ DOMAIN files = 1 .. n
        BY <4>0
      <4>2. PICK all : all = 1 .. n
        OBVIOUS
      <4>3. hits \in SUBSET all /\ hits \in SUBSET Int
        BY <1>5, <2>1, <4>1, <4>2
      <4>4. IsFiniteSet(all)
        BY <4>1, <4>2, FS_Interval
      <4>5. IsFiniteSet(hits)
        BY <4>3, <4>4, FS_Subset
      <4> QED
        BY <4>3, <4>5
    <3>2. Min(hits) \in hits
      BY <2>4, <3>1, MaxMin
    <3>3. PICK dir \in BOOLEAN : dir = a.files[Min(hits)].dir
      <4>1. PICK i : i = Min(hits)
        OBVIOUS
      <4>2. i \in DOMAIN files
        BY <1>5, <2>1, <3>2, <4>1
      <4>3. files[i] \in ListItem
        BY <2>2, <4>2
      <4> QED
        BY <2>1, <4>1, <4>3 DEF ListItem
    <3>4. node' = [node EXCEPT !.dir = dir] /\ pc' = "parse" /\ UNCHANGED << out, status >>
      BY <1>5, <2>4, <3>3
    <3>5. node' \in Node /\ node'.path = node.path /\ node'.depth = node.depth
      BY <1>1, <3>4 DEF Types, Node
    <3> QED
      BY <1>2, <2>2, <3>4, <3>5
  <2> QED
    BY <2>3, <2>4
<1> QED
  BY <1>3, <1>4, <1>5 DEF Lookup

\* The body is read, or its failure is the whole answer.
LEMMA ParseStep ==
  ASSUME IInv, Parse
  PROVE  IInv'
<1>1. pc = "parse" /\ UNCHANGED << hist, job, node, stack, err, whole, gone >>
  BY DEF Parse
<1>2. CASE pc' = "visit" /\ UNCHANGED << out, status >>
  BY <1>1, <1>2 DEF IInv, HistInv, Types, DepthInv, DepthRespected, Visited, Within,
                    AnswerInv, AnswerWellFormed
<1>3. CASE Answer(400)
  BY <1>1, <1>3, AnswerStep DEF IInv, Types
<1> QED
  BY <1>2, <1>3 DEF Parse

\* A visit sends a response, the first one after the header.
LEMMA VisitStep ==
  ASSUME IInv, Visit
  PROVE  IInv'
<1>1. /\ pc = "visit" /\ UNCHANGED << hist, job, node, stack, whole >>
      /\ HistInv /\ Types /\ DepthInv /\ ~gone
      /\ Opened \/ (out = << >> /\ status = << >>)
  BY DEF IInv, AnswerInv, Visit
<1>2. HistInv'
  BY <1>1 DEF HistInv
<1>3. (IF Started THEN status ELSE Append(status, 207)) = << 207 >> /\ << 207 >> \in Seq(Status)
  <2>1. CASE Opened
    <3>1. Started
      <4>1. 1 \in DOMAIN out /\ out[1] = Header
        BY <1>1, <2>1 DEF Opened, Types
      <4> QED
        BY <4>1 DEF Started
    <3> QED
      BY <2>1, <3>1 DEF Opened, Status
  <2>2. CASE out = << >> /\ status = << >>
    <3>1. ~Started
      BY <2>2 DEF Started
    <3> QED
      BY <2>2, <3>1 DEF Status
  <2> QED
    BY <1>1, <2>1, <2>2
<1>4. CASE /\ out' = (IF Started THEN out ELSE Append(out, Header)) \o << Resp(node.path) >>
           /\ status' = IF Started THEN status ELSE Append(status, 207)
           /\ pc' = AfterVisit(node)
           /\ UNCHANGED << err, gone >>
  <2>1. PICK base, r : /\ base = IF Started THEN out ELSE Append(out, Header)
                       /\ r = Resp(node.path)
    OBVIOUS
  <2>2. r \in Sent /\ r.kind = "response" /\ r.path = node.path
    BY <1>1, <2>1, SentFacts, TypeFacts
  <2>3. /\ base \in Seq(Sent) /\ Len(base) \in Nat /\ Len(base) >= 1 /\ base[1] = Header
        /\ \A k \in 2 .. Len(base) : base[k].kind = "response" /\ Within(base[k].path, job.depth)
    <3>1. CASE Opened
      <4>1. Started /\ base = out
        <5>1. 1 \in DOMAIN out /\ out[1] = Header
          BY <1>1, <3>1 DEF Opened, Types
        <5>2. Started
          BY <5>1 DEF Started
        <5> QED
          BY <2>1, <5>2
      <4>2. out \in Seq(Sent) /\ Len(out) \in Nat
        BY <1>1 DEF Types
      <4>3. \A k \in 2 .. Len(out) : k \in Visited
        BY <3>1, <4>2 DEF Opened, Visited
      <4> QED
        BY <1>1, <3>1, <4>1, <4>2, <4>3 DEF Opened, DepthInv, DepthRespected
    <3>2. CASE out = << >>
      <4>1. ~Started
        BY <3>2 DEF Started
      <4>2. base = << Header >>
        BY <2>1, <3>2, <4>1
      <4> QED
        BY <4>2, SentFacts
    <3> QED
      BY <1>1, <3>1, <3>2
  <2>4. /\ out' \in Seq(Sent) /\ Len(out') = Len(base) + 1 /\ DOMAIN out' = 1 .. Len(base) + 1
        /\ \A k \in 1 .. Len(base) : out'[k] = base[k]
        /\ out'[Len(base) + 1] = r
    <3>1. out' = base \o << r >>
      BY <1>4, <2>1
    <3>2. << r >> \in Seq(Sent) /\ Len(<< r >>) = 1 /\ << r >>[1] = r
      BY <2>2
    <3> QED
      BY <2>3, <3>1, <3>2, ConcatProperties
  <2>5. Opened'
    <3>1. \A k \in 2 .. Len(out') : out'[k].kind = "response"
      BY <2>2, <2>3, <2>4
    <3>2. Len(out') >= 1 /\ out'[1] = Header
      BY <2>3, <2>4
    <3> QED
      BY <1>3, <1>4, <3>1, <3>2 DEF Opened
  <2>6. Within(node.path, job.depth)
    BY <1>1, ReachesIsWithin DEF DepthInv
  <2>7. DepthRespected'
    <3> SUFFICES ASSUME NEW k \in Visited'
                 PROVE  Within(out'[k].path, job.depth)
      BY <1>1 DEF DepthRespected, Within
    <3>1. k \in 1 .. Len(base) + 1 /\ out'[k].kind = "response"
      BY <2>4 DEF Visited
    <3>2. k # 1
      BY <2>3, <2>4, <3>1, SentFacts
    <3>3. CASE k = Len(base) + 1
      BY <2>2, <2>4, <2>6, <3>3
    <3>4. CASE k \in 2 .. Len(base)
      BY <2>3, <2>4, <3>4
    <3> QED
      BY <2>3, <3>1, <3>2, <3>3, <3>4
  <2>8. pc' \in {"next", "list"} /\ (pc' = "list" => node.depth # 0)
    BY <1>4 DEF AfterVisit
  <2>9. Types'
    <3>1. status' \in Seq(Status)
      BY <1>3, <1>4
    <3>2. err' \in BOOLEAN /\ gone' \in BOOLEAN
      BY <1>1, <1>4 DEF Types
    <3> QED
      BY <1>1, <2>4, <2>8, <3>1, <3>2 DEF Types
  <2>10. DepthInv'
    BY <1>1, <2>7, <2>8 DEF DepthInv
  <2>11. AnswerInv'
    BY <1>1, <1>4, <2>5, <2>8 DEF AnswerInv, AnswerWellFormed
  <2> QED
    BY <1>2, <2>9, <2>10, <2>11 DEF IInv
<1>5. CASE /\ gone' = TRUE
           /\ status' = IF Started THEN status ELSE Append(status, 207)
           /\ Fail
           /\ UNCHANGED out
  <2>1. pc' = "close" /\ err' = TRUE
    BY <1>5 DEF Fail
  <2>2. Types'
    BY <1>1, <1>3, <1>5, <2>1 DEF Types
  <2>3. DepthInv'
    BY <1>1, <1>5, <2>1 DEF DepthInv, DepthRespected, Visited, Within
  <2>4. AnswerInv'
    BY <1>5, <2>1 DEF AnswerInv, AnswerWellFormed
  <2> QED
    BY <1>2, <2>2, <2>3, <2>4 DEF IInv
<1> QED
  BY <1>4, <1>5 DEF Visit

\* A listing is pushed with what is left of the depth.
LEMMA ListStep ==
  ASSUME IInv, List
  PROVE  IInv'
<1>1. /\ pc = "list" /\ UNCHANGED << hist, job, node, out, status, gone >>
      /\ HistInv /\ Types /\ DepthInv /\ ~gone /\ Opened
  BY DEF IInv, AnswerInv, List
<1>2. HistInv' /\ Opened' /\ DepthRespected'
  BY <1>1 DEF HistInv, Opened, DepthInv, DepthRespected, Visited, Within
<1>3. CASE Fail /\ UNCHANGED << stack, whole >>
  <2>1. pc' = "close" /\ err' = TRUE
    BY <1>3 DEF Fail
  <2>2. Types'
    BY <1>1, <1>3, <2>1 DEF Types
  <2>3. DepthInv'
    BY <1>1, <1>2, <1>3, <2>1 DEF DepthInv
  <2>4. AnswerInv'
    BY <1>2, <2>1 DEF AnswerInv, AnswerWellFormed
  <2> QED
    BY <1>2, <2>2, <2>3, <2>4 DEF IInv
<1>4. ASSUME NEW a \in Files(node.path),
             stack' = Append(stack, [path  |-> node.path,
                                     depth |-> Below1(node.depth),
                                     files |-> a.files]),
             whole' = (whole /\ a.whole), pc' = "next", UNCHANGED err
      PROVE  IInv'
  <2>1. PICK f : f = [path  |-> node.path, depth |-> Below1(node.depth), files |-> a.files]
    OBVIOUS
  <2>2. a.files \in Seq(ListItem) /\ whole' \in BOOLEAN
    BY <1>1, <1>4, FilesFacts DEF HistInv, Types
  <2>3. /\ f \in Frame /\ f.path = node.path
        /\ f.depth = IF node.depth = 1 THEN 0 ELSE node.depth
    <3>1. node.path \in Path /\ node.depth \in Depth /\ Below1(node.depth) \in Depth
      BY <1>1, TypeFacts DEF Below1, Depth
    <3> QED
      BY <2>1, <2>2, <3>1 DEF Frame, Below1
  <2>4. FrameReaches(job, f)
    <3>1. Reaches(job, node.path, node.depth) /\ node.depth # 0
      BY <1>1 DEF DepthInv
    <3>2. Len(job.path) \in Nat /\ Len(node.path) \in Nat /\ job.depth \in Depth
      BY <1>1, TypeFacts
    <3> QED
      BY <2>3, <3>1, <3>2 DEF Reaches, FrameReaches, Depth, infiniteDepth
  <2>5. stack' = Append(stack, f) /\ stack \in Seq(Frame)
    BY <1>1, <1>4, <2>1 DEF Types
  <2>6. /\ stack' \in Seq(Frame)
        /\ \A k \in DOMAIN stack' : stack'[k] = f \/ (k \in DOMAIN stack /\ stack'[k] = stack[k])
    BY <2>3, <2>5
  <2>7. Types'
    BY <1>1, <1>4, <2>2, <2>6 DEF Types
  <2>8. DepthInv'
    <3>1. \A k \in DOMAIN stack' : FrameReaches(job, stack'[k])
      BY <1>1, <2>4, <2>6 DEF DepthInv
    <3> QED
      BY <1>1, <1>2, <1>4, <3>1 DEF DepthInv
  <2>9. AnswerInv'
    BY <1>1, <1>2, <1>4 DEF AnswerInv, AnswerWellFormed
  <2> QED
    BY <1>2, <2>7, <2>8, <2>9 DEF IInv
<1> QED
  BY <1>3, <1>4 DEF List

\* What is left of a stack without its last frame.
LEMMA FrontFacts ==
  ASSUME NEW S, NEW s \in Seq(S), s # << >>
  PROVE  /\ Last(s) \in S /\ Last(s) = s[Len(s)] /\ Len(s) \in DOMAIN s
         /\ Front(s) \in Seq(S) /\ Len(Front(s)) + 1 = Len(s)
         /\ \A k \in DOMAIN Front(s) : k \in DOMAIN s /\ Front(s)[k] = s[k]
<1>1. PICK n \in Nat : n = Len(s) /\ n # 0 /\ DOMAIN s = 1 .. n
  <2>1. Len(s) \in Nat /\ Len(s) # 0 /\ DOMAIN s = 1 .. Len(s)
    BY EmptySeq
  <2> QED
    BY <2>1
<1>2. n \in 1 .. n /\ \A k \in 1 .. n - 1 : k \in 1 .. n /\ s[k] \in S
  BY <1>1
<1>3. /\ Front(s) \in Seq(S)
      /\ \A k \in 1 .. n - 1 : Front(s)[k] = s[k]
      /\ Len(Front(s)) = n - 1
  <2>1. PICK m \in Int : m = n - 1 /\ m >= 0
    BY <1>1
  <2>2. Front(s) = SubSeq(s, 1, m)
    BY <1>1, <2>1 DEF Front
  <2>3. /\ SubSeq(s, 1, m) \in Seq(S)
        /\ Len(SubSeq(s, 1, m)) = IF 1 <= m THEN m - 1 + 1 ELSE 0
        /\ \A k \in 1 .. m - 1 + 1 : SubSeq(s, 1, m)[k] = s[1 + k - 1]
    BY <1>2, <2>1, SubSeqProperties
  <2> QED
    BY <2>1, <2>2, <2>3
<1>4. DOMAIN Front(s) = 1 .. n - 1
  BY <1>3
<1> QED
  BY <1>1, <1>2, <1>3, <1>4 DEF Last

\* The next entry is one level below its directory.
LEMMA NextFileStep ==
  ASSUME IInv, NextFile
  PROVE  IInv'
<1>1. /\ pc = "next" /\ UNCHANGED << hist, job, out, err, status, whole, gone >>
      /\ HistInv /\ Types /\ DepthInv /\ ~gone /\ Opened
  BY DEF IInv, AnswerInv, NextFile
<1>2. HistInv' /\ Opened' /\ DepthRespected'
  BY <1>1 DEF HistInv, Opened, DepthInv, DepthRespected, Visited, Within
<1>3. CASE stack = << >> /\ pc' = "close" /\ UNCHANGED << node, stack >>
  <2>1. Types' /\ DepthInv' /\ AnswerInv'
    BY <1>1, <1>2, <1>3 DEF Types, DepthInv, AnswerInv, AnswerWellFormed
  <2> QED
    BY <1>2, <2>1 DEF IInv
<1>4. ASSUME stack # << >>
      PROVE  /\ Last(stack) \in Frame /\ FrameReaches(job, Last(stack))
             /\ Front(stack) \in Seq(Frame)
             /\ \A k \in DOMAIN Front(stack) : FrameReaches(job, Front(stack)[k])
  BY <1>1, <1>4, FrontFacts DEF Types, DepthInv
<1>5. CASE stack # << >> /\ stack' = Front(stack) /\ UNCHANGED << pc, node >>
  <2>1. Types' /\ DepthInv'
    BY <1>1, <1>2, <1>4, <1>5 DEF Types, DepthInv
  <2>2. AnswerInv'
    BY <1>1, <1>2, <1>5 DEF AnswerInv, AnswerWellFormed
  <2> QED
    BY <1>2, <2>1, <2>2 DEF IInv
<1>6. ASSUME NEW top, top = Last(stack), stack # << >>, top.files # << >>,
             stack' = Append(Front(stack), [top EXCEPT !.files = Tail(top.files)]),
             node' = [path  |-> Append(top.path, Head(top.files).name),
                      dir   |-> Head(top.files).dir,
                      depth |-> top.depth],
             pc' = "visit"
      PROVE  IInv'
  <2>1. /\ top.path \in Path /\ top.depth \in Depth /\ top.files \in Seq(ListItem)
        /\ top \in Frame /\ FrameReaches(job, top)
    BY <1>4, <1>6 DEF Frame
  <2>2. PICK rest, file : rest = Tail(top.files) /\ file = Head(top.files)
    OBVIOUS
  <2>3. rest \in Seq(ListItem) /\ file \in ListItem
    BY <1>6, <2>1, <2>2, HeadTailProperties
  <2>4. file.name \in Component /\ file.dir \in BOOLEAN
    BY <2>3 DEF ListItem
  <2>5. PICK f : f = [top EXCEPT !.files = rest]
    OBVIOUS
  <2>6. f \in Frame /\ f.path = top.path /\ f.depth = top.depth
    BY <2>1, <2>3, <2>5 DEF Frame
  <2>7. FrameReaches(job, f)
    BY <2>1, <2>6 DEF FrameReaches
  <2>8. PICK path : path = Append(top.path, file.name)
    OBVIOUS
  <2>9. path \in Path /\ Len(path) = Len(top.path) + 1 /\ Len(top.path) \in Nat
    BY <2>1, <2>4, <2>8 DEF Path
  <2>10. node' = [path |-> path, dir |-> file.dir, depth |-> top.depth]
    BY <1>6, <2>2, <2>8
  <2>11. node' \in Node /\ node'.path = path /\ node'.depth = top.depth
    BY <2>1, <2>4, <2>9, <2>10 DEF Node
  <2>12. Reaches(job, path, top.depth)
    <3>1. IsPrefix(job.path, top.path) /\ job.path \in Path
      BY <1>1, <2>1, TypeFacts DEF FrameReaches
    <3>2. IsPrefix(job.path, path)
      BY <2>1, <2>4, <2>8, <3>1, PrefixLonger DEF Path
    <3> QED
      BY <2>1, <2>9, <3>2 DEF FrameReaches, Reaches
  <2>13. stack' = Append(Front(stack), f) /\ Front(stack) \in Seq(Frame)
    BY <1>4, <1>6, <2>2, <2>5
  <2>14. PICK s \in Seq(Frame) : s = Front(stack) /\ stack' = Append(s, f)
    BY <2>13
  <2>15. /\ stack' \in Seq(Frame)
         /\ \A k \in DOMAIN stack' : stack'[k] = f \/ (k \in DOMAIN s /\ stack'[k] = s[k])
    BY <2>6, <2>14
  <2>16. Types'
    BY <1>1, <1>6, <2>11, <2>15 DEF Types
  <2>17. DepthInv'
    <3>1. \A k \in DOMAIN stack' : FrameReaches(job, stack'[k])
      BY <1>4, <1>6, <2>7, <2>14, <2>15
    <3> QED
      BY <1>1, <1>2, <1>6, <2>11, <2>12, <3>1 DEF DepthInv
  <2>18. AnswerInv'
    BY <1>1, <1>2, <1>6 DEF AnswerInv, AnswerWellFormed
  <2> QED
    BY <1>2, <2>16, <2>17, <2>18 DEF IInv
<1> QED
  BY <1>3, <1>5, <1>6 DEF NextFile

\* The end tag is sent unless the client is gone.
LEMMA CloseStep ==
  ASSUME IInv, Close
  PROVE  IInv'
<1>1. /\ pc = "close" /\ pc' = "done" /\ UNCHANGED << hist, job, node, stack, whole >>
      /\ HistInv /\ Types /\ DepthInv /\ (gone \/ Opened)
  BY DEF IInv, AnswerInv, Close
<1>2. PICK lost \in {gone, TRUE} :
        /\ out' = out \o (IF Started /\ ~lost THEN << EndTag >> ELSE << >>)
                      \o (IF (err \/ (Started /\ lost)) /\ ~lost THEN << PlainText >> ELSE << >>)
        /\ status' = IF err \/ (Started /\ lost) THEN Append(status, 500) ELSE status
        /\ gone' = lost /\ err' = (err \/ (Started /\ lost))
  BY DEF Close
<1>3. PICK end, text :
        /\ end = IF Started /\ ~lost THEN << EndTag >> ELSE << >>
        /\ text = IF (err \/ (Started /\ lost)) /\ ~lost THEN << PlainText >> ELSE << >>
        /\ out' = out \o end \o text
  BY <1>2
<1>4. /\ end \in Seq(Sent) /\ text \in Seq(Sent) /\ Len(end) \in {0, 1} /\ Len(text) \in {0, 1}
      /\ \A k \in 1 .. Len(end) : end[k] = EndTag
      /\ \A k \in 1 .. Len(text) : text[k] = PlainText
  <2>1. end \in {<< >>, << EndTag >>} /\ text \in {<< >>, << PlainText >>}
    BY <1>3
  <2>2. ASSUME NEW e \in Sent, NEW s \in {<< >>, << e >>}
        PROVE  /\ s \in Seq(Sent) /\ Len(s) \in {0, 1}
               /\ \A k \in 1 .. Len(s) : s[k] = e
    <3>1. CASE s = << >>
      BY <3>1
    <3>2. CASE s = << e >>
      BY <2>2, <3>2
    <3> QED
      BY <2>2, <3>1, <3>2
  <2>3. PICK e \in Sent, t \in Sent : e = EndTag /\ t = PlainText
    BY SentFacts
  <2>4. end \in {<< >>, << e >>} /\ text \in {<< >>, << t >>}
    BY <2>1, <2>3
  <2>5. /\ end \in Seq(Sent) /\ Len(end) \in {0, 1}
        /\ \A k \in 1 .. Len(end) : end[k] = e
    BY <2>2, <2>3, <2>4
  <2>6. /\ text \in Seq(Sent) /\ Len(text) \in {0, 1}
        /\ \A k \in 1 .. Len(text) : text[k] = t
    BY <2>2, <2>3, <2>4
  <2> QED
    BY <2>3, <2>5, <2>6
<1>5. PICK n \in Nat, m \in Nat : n = Len(out) /\ m = n + Len(end) /\ DOMAIN out = 1 .. n
  <2>1. Len(out) \in Nat /\ DOMAIN out = 1 .. Len(out)
    BY <1>1 DEF Types
  <2>2. Len(out) + Len(end) \in Nat
    BY <1>4, <2>1
  <2> QED
    BY <2>1, <2>2
<1>6. /\ out' \in Seq(Sent) /\ Len(out') = m + Len(text) /\ DOMAIN out' = 1 .. m + Len(text)
      /\ \A k \in 1 .. n : out'[k] = out[k]
      /\ \A k \in n + 1 .. m : out'[k] = EndTag
      /\ \A k \in m + 1 .. m + Len(text) : out'[k] = PlainText
  <2>1. PICK mid : mid = out \o end
    OBVIOUS
  <2>2. /\ mid \in Seq(Sent) /\ Len(mid) = m
        /\ \A k \in 1 .. m : mid[k] = IF k <= n THEN out[k] ELSE end[k - n]
    BY <1>1, <1>4, <1>5, <2>1, ConcatProperties DEF Types
  <2>3. out' = mid \o text
    BY <1>3, <2>1
  <2>4. /\ out' \in Seq(Sent) /\ Len(out') = m + Len(text)
        /\ \A k \in 1 .. m + Len(text) : out'[k] = IF k <= m THEN mid[k] ELSE text[k - m]
    BY <1>4, <2>2, <2>3, ConcatProperties
  <2>5. DOMAIN out' = 1 .. m + Len(text)
    BY <2>4
  <2>6. \A k \in 1 .. n : out'[k] = out[k]
    BY <1>4, <1>5, <2>2, <2>4
  <2>7. ASSUME NEW k \in n + 1 .. m
        PROVE  out'[k] = EndTag
    <3>1. k \in 1 .. m /\ ~(k <= n) /\ k - n \in 1 .. Len(end) /\ k \in 1 .. m + Len(text)
      BY <1>4, <1>5, <2>7
    <3>2. PICK j : j = k - n /\ j \in 1 .. Len(end)
      BY <3>1
    <3>3. out'[k] = mid[k] /\ mid[k] = end[j]
      BY <2>2, <2>4, <3>1, <3>2
    <3> QED
      BY <1>4, <3>2, <3>3
  <2>8. ASSUME NEW k \in m + 1 .. m + Len(text)
        PROVE  out'[k] = PlainText
    <3>1. ~(k <= m) /\ k - m \in 1 .. Len(text) /\ k \in 1 .. m + Len(text)
      BY <1>4, <1>5, <2>8
    <3> QED
      BY <1>4, <2>4, <3>1
  <2> QED
    BY <2>4, <2>5, <2>6, <2>7, <2>8
<1>7. HistInv' /\ Types'
  <2>1. status \in Seq(Status) /\ 500 \in Status /\ err \in BOOLEAN /\ gone \in BOOLEAN
    BY <1>1 DEF Types, Status
  <2>2. status' \in Seq(Status)
    BY <1>2, <2>1
  <2>3. err' \in BOOLEAN /\ gone' \in BOOLEAN
    BY <1>2, <2>1
  <2> QED
    BY <1>1, <1>6, <2>2, <2>3 DEF HistInv, Types
<1>8. DepthInv'
  <2>1. ASSUME NEW k \in Visited'
        PROVE  Within(out'[k].path, job.depth)
    <3>1. k \in 1 .. m + Len(text) /\ out'[k].kind = "response"
      BY <1>6, <2>1 DEF Visited
    <3>2. k \in 1 .. n
      <4>1. k \notin n + 1 .. m
        BY <1>6, <3>1, SentFacts
      <4>2. k \notin m + 1 .. m + Len(text)
        BY <1>6, <3>1, SentFacts
      <4> QED
        BY <1>4, <1>5, <3>1, <4>1, <4>2
    <3>3. out'[k] = out[k] /\ k \in Visited
      BY <1>5, <1>6, <3>1, <3>2 DEF Visited
    <3> QED
      BY <1>1, <3>3 DEF DepthInv, DepthRespected
  <2>2. DepthRespected'
    BY <1>1, <2>1 DEF DepthRespected, Within
  <2> QED
    BY <1>1, <2>2 DEF DepthInv
<1>9. AnswerWellFormed'
  <2> SUFFICES ASSUME ~gone'
               PROVE  AnswerWellFormed'
    BY DEF AnswerWellFormed
  <2>1. ~lost /\ ~gone /\ Opened
    BY <1>1, <1>2 DEF Types
  <2>2. n >= 1 /\ out[1] = Header /\ status = << 207 >>
        /\ \A k \in 2 .. n : out[k].kind = "response"
    BY <1>5, <2>1 DEF Opened
  <2>3. Started
    BY <1>5, <2>2 DEF Started
  <2>4. Len(end) = 1 /\ m = n + 1
    <3>1. end = << EndTag >>
      BY <1>3, <2>1, <2>3
    <3> QED
      BY <1>5, <3>1
  <2>5. status'[1] = 207
    BY <1>2, <2>2
  <2>6. out'[1] = Header
    BY <1>6, <2>2
  <2>7. /\ m \in DOMAIN out' /\ out'[m] = EndTag
        /\ \A k \in 2 .. m - 1 : out'[k].kind = "response"
        /\ \A k \in m + 1 .. Len(out') : out'[k] = PlainText
    BY <1>4, <1>5, <1>6, <2>2, <2>4
  <2>8. Started'
    <3>1. 1 \in DOMAIN out'
      BY <1>4, <1>6, <2>2, <2>4
    <3> QED
      BY <2>6, <3>1 DEF Started
  <2> QED
    BY <2>5, <2>6, <2>7, <2>8 DEF AnswerWellFormed
<1>10. AnswerInv'
  BY <1>1, <1>9 DEF AnswerInv
<1> QED
  BY <1>7, <1>8, <1>10 DEF IInv

\* The drive changes, and the walk keeps its locals.
LEMMA ElsewhereStep ==
  ASSUME IInv, Elsewhere
  PROVE  IInv'
<1>1. /\ UNCHANGED << pc, job, node, stack, out, err, status, whole, gone >>
      /\ Len(hist) < MaxHist /\ HistInv
  BY DEF IInv, Elsewhere
<1>2. MaxHist \in Nat /\ hist \in Seq(Tree) /\ Len(hist) \in Nat /\ Len(hist) >= 1
  <2>1. MaxHist \in Nat
    BY WalkFSAssumption
  <2> QED
    BY <1>1, <2>1 DEF HistInv
<1>3. IsDrive(tree, Component)
  <2>1. tree \in Tree
    BY <1>2 DEF tree
  <2> QED
    BY <2>1, AllDrives DEF Tree
<1>4. PICK id \in DOMAIN tree : 
        \E t \in Deleted(tree, id)
                 \cup UNION { Moved(tree, id, d) : d \in DOMAIN tree \cup {RootId} } :
          hist' = Append(hist, t)
  BY DEF Elsewhere
<1>5. PICK t : /\ t \in Deleted(tree, id) \/ (\E d : t \in Moved(tree, id, d))
               /\ hist' = Append(hist, t)
  BY <1>4
<1>6. IsDrive(t, Component)
  <2>1. tree[id].name \in Component
    BY <1>3, <1>4 DEF IsDrive
  <2>2. PICK name \in Component : name = tree[id].name
    BY <2>1
  <2> QED
    BY <1>3, <1>5, <2>2, ChangesKeepDrive
<1>7. HistInv'
  <2>1. t \in Tree
    BY <1>6, AllDrives DEF Tree
  <2>2. hist' \in Seq(Tree) /\ Len(hist') = Len(hist) + 1
    BY <1>2, <1>5, <2>1
  <2> QED
    BY <1>1, <1>2, <2>2 DEF HistInv
<1>8. Types' /\ DepthInv' /\ AnswerInv'
  BY <1>1 DEF IInv, Types, DepthInv, DepthRespected, Visited, Within, AnswerInv,
              AnswerWellFormed, Opened, Started
<1> QED
  BY <1>7, <1>8 DEF IInv

\* Every step keeps the invariant.
LEMMA NextInv ==
  IInv /\ [Next]_vars => IInv'
<1> SUFFICES ASSUME IInv, [Next]_vars
             PROVE  IInv'
  OBVIOUS
<1>1. CASE UNCHANGED vars
  BY <1>1 DEF vars, IInv, HistInv, Types, DepthInv, DepthRespected, Visited, Within, AnswerInv,
              AnswerWellFormed, Opened, Started
<1> QED
  BY <1>1, LookupStep, ParseStep, VisitStep, ListStep, NextFileStep, CloseStep, ElsewhereStep
     DEF Next, Step

\* In every state of a walk the invariant holds.
THEOREM Inductive ==
  Spec => []IInv
BY InitInv, NextInv, PTL DEF Spec

-----------------------------------------------------------------------------
(* What follows of every state.                                            *)

\* The walk's locals, and what was sent, have their types.
THEOREM TypeCorrect ==
  Spec => []TypeOK
<1>1. IInv => TypeOK
  <2> SUFFICES ASSUME IInv
               PROVE  TypeOK
    OBVIOUS
  <2>1. Types /\ HistInv
    BY DEF IInv
  <2>2. \A k \in DOMAIN stack : stack[k].path \in Path /\ stack[k].depth \in Depth
    <3>1. \A k \in DOMAIN stack : stack[k] \in Frame
      BY <2>1 DEF Types
    <3> QED
      BY <3>1 DEF Frame
  <2>3. \A k \in DOMAIN out : out[k].kind \in {"header", "response", "end", "text"}
    <3>1. \A k \in DOMAIN out : out[k] \in Sent
      BY <2>1 DEF Types
    <3> QED
      BY <3>1 DEF Sent
  <2> QED
    BY <2>1, <2>2, <2>3 DEF TypeOK, Types, HistInv, Node, Path, Status
<1> QED
  BY Inductive, <1>1, PTL

\* No resource outside the depth that was asked for is sent, whatever the
\* drive becomes while it is walked.
THEOREM DepthIsRespected ==
  Spec => []DepthRespected
<1>1. IInv => DepthRespected
  BY DEF IInv, DepthInv
<1> QED
  BY Inductive, <1>1, PTL

\* Every answer that a client gets to the end is closed, on every path of the
\* walk's failure.
THEOREM AnswersAreWellFormed ==
  Spec => []AnswerWellFormed
<1>1. IInv => AnswerWellFormed
  BY DEF IInv, AnswerInv
<1> QED
  BY Inductive, <1>1, PTL

-----------------------------------------------------------------------------
(* What an answer is to tell of: the invariant of a walk of the whole      *)
(* drive.                                                                  *)

\* The resources of the drive at the start, by their paths; is there one, a
\* directory or not?
AllPaths == { PathOf(Tree0)[i] : i \in Ids(Tree0) }
Real(path, dir) ==
  \E i \in Ids(Tree0) : PathOf(Tree0)[i] = path /\ dir = IsFolder(Tree0, i)

\* The resources at path and within depth levels below it.
Sub(path, depth) ==
  { q \in AllPaths : /\ IsPrefix(path, q)
                     /\ depth = infiniteDepth \/ Len(q) <= Len(path) + depth }

\* What is left to visit of a frame f of the stack, and that it is there.
Item(f, n) == Append(f.path, f.files[n].name)
Owed(f) == UNION { Sub(Item(f, n), f.depth) : n \in DOMAIN f.files }
FrameReal(f) ==
  /\ \A n \in DOMAIN f.files : Real(Item(f, n), f.files[n].dir)
  /\ \A m, n \in DOMAIN f.files : f.files[m].name = f.files[n].name => m = n

\* W is made of A, B and F[1], ..., F[n], without overlap.
Shares(W, A, B, n, F) ==
  /\ \A q : q \in W <=> q \in A \/ q \in B \/ \E k \in 1 .. n : q \in F[k]
  /\ \A q \in A : q \notin B
  /\ \A k \in 1 .. n : \A q \in F[k] : q \notin A /\ q \notin B
  /\ \A k, l \in 1 .. n : \A q \in F[k] : q \in F[l] => k = l

\* The responses of an answer o, and the paths they tell of.
Responses(o) == { k \in DOMAIN o : o[k].kind = "response" }
Told(o) == { o[k].path : k \in Responses(o) }

\* Of the resources W, an answer tells once each, and after their directories.
Orderly(o, W) ==
  /\ \A k, l \in Responses(o) : o[k].path = o[l].path => k = l
  /\ \A k, l \in Responses(o) : o[l].path = DirOf(o[k].path) => l <= k
  /\ \A k \in Responses(o) : DirOf(o[k].path) \in W => DirOf(o[k].path) \in Told(o)

\* What is asked for, and what of it the resource in hand stands for.
Wanted == Sub(job.path, job.depth)
AtHand ==
  { q \in Sub(node.path, node.depth) : pc = "visit" \/ (pc = "list" /\ q # node.path) }

\* The directory of path, if it is asked for, has been told of.
Preceded(path, o, W) == DirOf(path) \in W \ {path} => DirOf(path) \in Told(o)

\* What each frame of a stack s owes.
Owing(s) == [k \in DOMAIN s |-> Owed(s[k])]

\* The answer o has told of W, except for B, which is at hand, and for what the
\* stack s owes; and of the directories of s.
Accounts(W, o, B, s) ==
  /\ Shares(W, Told(o), B, Len(s), Owing(s))
  /\ Orderly(o, W)
  /\ \A k \in DOMAIN s : FrameReal(s[k]) /\ s[k].path \in Told(o)

\* Nothing has kept the walk from the whole drive.
Plain == Len(hist) = 1 /\ whole /\ ~err

\* Such a walk knows what is left of what was asked for.
PlainInv ==
  /\ pc = "lookup" => node.dir
  /\ pc \in {"lookup", "parse"} =>
       node.path = job.path /\ node.depth = job.depth /\ stack = << >>
  /\ pc \in {"parse", "visit", "list"} => Real(node.path, node.dir)
  /\ pc = "visit" => Preceded(node.path, out, Wanted)
  /\ pc = "list" => node.dir /\ node.path \in Told(out)
  /\ pc \in {"visit", "list", "next", "close"} => Accounts(Wanted, out, AtHand, stack)
  /\ pc = "close" => stack = << >>
  /\ pc = "done" /\ Started => Orderly(out, Wanted) /\ Told(out) = Wanted

ExactInv ==
  /\ Len(hist) = 1 => hist = << Tree0 >>
  /\ Plain => PlainInv

-----------------------------------------------------------------------------
(* What is at a path and below it.                                         *)

\* The drive at the start is a tree, of these names.
LEMMA TheTree ==
  ASSUME Regular
  PROVE  IsDrive(Tree0, Component) /\ IsTree(Tree0)
BY WalkFSAssumption DEF Regular

\* The resources are at paths.
LEMMA RealPath ==
  ASSUME Regular
  PROVE  /\ AllPaths \subseteq Path
         /\ \A q, dir : Real(q, dir) => q \in AllPaths
         /\ \A q, depth : Sub(q, depth) \subseteq AllPaths
<1>1. \A i \in Ids(Tree0) : PathOf(Tree0)[i] \in Path
  BY TheTree, PathFacts DEF Path
<1> QED
  BY <1>1 DEF AllPaths, Real, Sub

\* A resource is at its own path.
LEMMA SubSelf ==
  ASSUME Regular, NEW q \in AllPaths, NEW depth \in Depth
  PROVE  q \in Sub(q, depth)
<1>1. q \in Path /\ Len(q) \in Nat
  BY RealPath DEF Path
<1>2. IsPrefix(q, q)
  BY <1>1, PrefixSelf DEF Path
<1>3. depth = infiniteDepth \/ Len(q) <= Len(q) + depth
  BY <1>1 DEF Depth, infiniteDepth
<1> QED
  BY <1>2, <1>3 DEF Sub

\* Nothing is below what is no directory, nor within no depth.
LEMMA SubLeaf ==
  ASSUME Regular, NEW path, NEW dir, Real(path, dir), NEW depth \in Depth, depth = 0 \/ ~dir
  PROVE  \A q \in Sub(path, depth) : q = path
<1>1. PICK p : p = PathOf(Tree0)
  OBVIOUS
<1>2. PICK i \in Ids(Tree0) : p[i] = path /\ dir = IsFolder(Tree0, i)
  BY <1>1 DEF Real
<1> SUFFICES ASSUME NEW q \in Sub(path, depth)
             PROVE  q = path
  OBVIOUS
<1>3. IsPrefix(path, q) /\ (depth = infiniteDepth \/ Len(q) <= Len(path) + depth)
  BY DEF Sub
<1>4. PICK j \in Ids(Tree0) : p[j] = q
  BY <1>1 DEF Sub, AllPaths
<1>5. path \in Seq(Component) /\ q \in Seq(Component)
  BY <1>1, <1>2, <1>4, TheTree, PathFacts
<1>6. CASE depth = 0
  <2>1. Len(path) \in Nat /\ Len(q) <= Len(path)
    BY <1>3, <1>5, <1>6 DEF infiniteDepth
  <2> QED
    BY <1>3, <1>5, <2>1, PrefixWhole
<1>7. CASE ~dir
  <2> SUFFICES ASSUME i # j
               PROVE  FALSE
    BY <1>2, <1>4
  <2>1. IsPrefix(p[i], p[j])
    BY <1>2, <1>3, <1>4
  <2>2. PICK c \in Children(Tree0, i) : IsPrefix(p[c], p[j])
    BY <1>1, <1>2, <1>4, <2>1, TheTree, BelowChild
  <2>3. c \in DOMAIN Tree0 /\ Tree0[c].parent = i
    BY DEF Children
  <2>4. IsFolder(Tree0, i)
    BY <1>1, <2>3, TheTree, PathFacts
  <2> QED
    BY <1>2, <1>7, <2>4
<1> QED
  BY <1>6, <1>7

\* The children of a directory are what its listing shows.
LEMMA ListingReal ==
  ASSUME Regular, NEW i \in Ids(Tree0), NEW path, path = PathOf(Tree0)[i], NEW depth,
         NEW f, f = [path |-> path, depth |-> depth, files |-> Listing(Tree0, i)]
  PROVE  /\ FrameReal(f)
         /\ \A n \in DOMAIN f.files : f.files[n].name \in Component
         /\ \A c \in Children(Tree0, i) :
              \E n \in DOMAIN f.files : Item(f, n) = PathOf(Tree0)[c]
<1>1. PICK p : p = PathOf(Tree0)
  OBVIOUS
<1>2. PICK all : all = Listing(Tree0, i)
  OBVIOUS
<1>3. /\ \A k \in DOMAIN all : \E c \in Children(Tree0, i) : all[k] = Listed(Tree0, c)
      /\ \A k, l \in DOMAIN all : all[k].id = all[l].id => k = l
      /\ \A c \in Children(Tree0, i) : \E k \in DOMAIN all : all[k].id = c
  BY <1>2, TheTree, ListingPlaces
<1>4. f.path = path /\ f.files = all
  BY <1>2
<1>5. ASSUME NEW k \in DOMAIN all
      PROVE  \E c \in DOMAIN Tree0 :
               /\ Tree0[c].parent = i /\ all[k].id = c /\ all[k].name = Tree0[c].name
               /\ all[k].name \in Component /\ Item(f, k) = p[c]
               /\ Real(Item(f, k), all[k].dir)
  <2>1. PICK c \in Children(Tree0, i) : all[k] = Listed(Tree0, c)
    BY <1>3, <1>5
  <2>2. /\ c \in DOMAIN Tree0 /\ Tree0[c].parent = i /\ all[k].id = c
        /\ all[k].name = Tree0[c].name /\ all[k].dir = Tree0[c].dir
    BY <2>1 DEF Children, Listed
  <2>3. Tree0[c].name \in Component /\ p[c] = Append(p[i], Tree0[c].name)
    BY <1>1, <2>2, TheTree, PathFacts
  <2>4. Item(f, k) = p[c]
    BY <1>1, <1>4, <2>2, <2>3 DEF Item
  <2>5. c # RootId /\ c \in Ids(Tree0)
    BY <2>2, TheTree DEF IsDrive, Ids
  <2>6. Tree0[c].dir = IsFolder(Tree0, c)
    <3>1. Tree0[c].dir \in BOOLEAN
      BY <2>2, TheTree DEF IsDrive
    <3> QED
      BY <2>2, <2>5, <3>1 DEF IsFolder
  <2>7. Real(Item(f, k), all[k].dir)
    BY <1>1, <2>2, <2>4, <2>5, <2>6 DEF Real
  <2> QED
    BY <2>2, <2>3, <2>4, <2>7
<1>6. ASSUME NEW k \in DOMAIN all, NEW l \in DOMAIN all, all[k].name = all[l].name
      PROVE  k = l
  <2>1. PICK c \in DOMAIN Tree0 :
          Tree0[c].parent = i /\ all[k].id = c /\ all[k].name = Tree0[c].name
    BY <1>5
  <2>2. PICK e \in DOMAIN Tree0 :
          Tree0[e].parent = i /\ all[l].id = e /\ all[l].name = Tree0[e].name
    BY <1>5
  <2>3. c = e
    BY <1>6, <2>1, <2>2, TheTree DEF IsTree
  <2> QED
    BY <1>3, <2>1, <2>2, <2>3
<1>7. FrameReal(f)
  BY <1>4, <1>5, <1>6 DEF FrameReal
<1>8. ASSUME NEW c \in Children(Tree0, i)
      PROVE  \E n \in DOMAIN f.files : Item(f, n) = p[c]
  <2>1. PICK n \in DOMAIN all : all[n].id = c
    BY <1>3, <1>8
  <2> QED
    BY <1>4, <1>5, <2>1
<1> QED
  BY <1>1, <1>4, <1>5, <1>7, <1>8

\* What is at a directory and below it is the directory and what its listing
\* owes.
LEMMA SubSplit ==
  ASSUME Regular, NEW i \in Ids(Tree0), NEW path, path = PathOf(Tree0)[i],
         NEW depth \in Depth, depth # 0,
         NEW f, f = [path |-> path, depth |-> Below1(depth), files |-> Listing(Tree0, i)]
  PROVE  /\ \A q : q \in Sub(path, depth) <=> q = path \/ q \in Owed(f)
         /\ path \notin Owed(f)
<1>1. PICK p : p = PathOf(Tree0)
  OBVIOUS
<1>2. /\ \A n \in DOMAIN f.files : f.files[n].name \in Component
      /\ \A c \in Children(Tree0, i) : \E n \in DOMAIN f.files : Item(f, n) = p[c]
  BY <1>1, ListingReal
<1>3. path \in Seq(Component) /\ Len(path) \in Nat
  BY TheTree, PathFacts
<1>4. f.path = path /\ f.depth = Below1(depth)
  OBVIOUS
<1>5. ASSUME NEW n \in DOMAIN f.files
      PROVE  /\ Item(f, n) \in Seq(Component) /\ IsPrefix(path, Item(f, n))
             /\ Len(Item(f, n)) = Len(path) + 1
  <2>1. PICK x \in Component : x = f.files[n].name
    BY <1>2, <1>5
  <2>2. Item(f, n) = Append(path, x)
    BY <1>4, <2>1 DEF Item
  <2>3. Append(path, x) \in Seq(Component) /\ Len(Append(path, x)) = Len(path) + 1
    BY <1>3, Longer
  <2>4. IsPrefix(path, Append(path, x))
    BY <1>3, PrefixLonger
  <2> QED
    BY <2>2, <2>3, <2>4
<1>6. path \in AllPaths
  BY DEF AllPaths
<1>7. ASSUME NEW q \in Sub(path, depth), q # path
      PROVE  q \in Owed(f)
  <2>1. PICK j \in Ids(Tree0) : q = p[j]
    BY <1>1, <1>7 DEF Sub, AllPaths
  <2>2. IsPrefix(path, q) /\ (depth = infiniteDepth \/ Len(q) <= Len(path) + depth)
    BY <1>7 DEF Sub
  <2>3. i # j /\ IsPrefix(p[i], p[j])
    BY <1>1, <1>7, <2>1, <2>2
  <2>4. PICK c \in Children(Tree0, i) : IsPrefix(p[c], p[j])
    BY <1>1, <2>3, TheTree, BelowChild
  <2>5. PICK n \in DOMAIN f.files : Item(f, n) = p[c]
    BY <1>2, <2>4
  <2>6. q \in AllPaths /\ q \in Seq(Component) /\ Len(q) \in Nat
    BY <1>1, <2>1, TheTree, PathFacts DEF AllPaths
  <2>7. Below1(depth) = infiniteDepth \/ Len(q) <= Len(Item(f, n)) + Below1(depth)
    BY <1>3, <1>5, <2>2, <2>6 DEF Below1, infiniteDepth, Depth
  <2>8. q \in Sub(Item(f, n), f.depth)
    BY <1>4, <2>1, <2>4, <2>5, <2>6, <2>7 DEF Sub
  <2> QED
    BY <2>8 DEF Owed
<1>8. ASSUME NEW q \in Owed(f)
      PROVE  q \in Sub(path, depth) /\ q # path
  <2>1. PICK n \in DOMAIN f.files : q \in Sub(Item(f, n), Below1(depth))
    BY <1>4, <1>8 DEF Owed
  <2>2. PICK r \in Seq(Component) : r = Item(f, n) /\ IsPrefix(path, r) /\ Len(r) = Len(path) + 1
    BY <1>5
  <2>3. /\ q \in AllPaths /\ IsPrefix(r, q)
        /\ Below1(depth) = infiniteDepth \/ Len(q) <= Len(r) + Below1(depth)
    BY <2>1, <2>2 DEF Sub
  <2>4. q \in Seq(Component)
    BY <2>3, RealPath DEF Path
  <2>5. IsPrefix(path, q) /\ Len(r) <= Len(q) /\ Len(q) \in Nat
    BY <1>3, <2>2, <2>3, <2>4, PrefixThrough, PrefixWhole
  <2>6. depth = infiniteDepth \/ Len(q) <= Len(path) + depth
    BY <1>3, <2>2, <2>3, <2>5 DEF Below1, infiniteDepth, Depth
  <2>7. q # path
    BY <1>3, <2>2, <2>5
  <2> QED
    BY <2>3, <2>5, <2>6, <2>7 DEF Sub
<1>9. path \in Sub(path, depth)
  BY <1>6, SubSelf
<1> QED
  BY <1>7, <1>8, <1>9

\* The frame g is f without its first entry, which is item.
Without(f, g, item) ==
  /\ f.files # << >> /\ item = Append(f.path, Head(f.files).name)
  /\ g.path = f.path /\ g.depth = f.depth /\ g.files = Tail(f.files)

\* What f owes is owed by g or at item, and nothing by both.
Parts(f, g, item) ==
  /\ \A q : q \in Owed(f) <=> q \in Sub(item, f.depth) \/ q \in Owed(g)
  /\ \A q \in Owed(g) : q \notin Sub(item, f.depth)

\* The listing of a frame owes its first entry and what the rest owes, and
\* nothing of both.
LEMMA OwedNext ==
  ASSUME Regular, NEW f \in Frame, FrameReal(f), NEW g, NEW item, Without(f, g, item)
  PROVE  FrameReal(g) /\ Real(item, Head(f.files).dir) /\ Parts(f, g, item)
<1>0. /\ f.files # << >> /\ item = Append(f.path, Head(f.files).name)
      /\ g.path = f.path /\ g.depth = f.depth /\ g.files = Tail(f.files)
  BY DEF Without
<1>1. PICK s \in Seq(ListItem) : s = f.files /\ s # << >>
  BY <1>0 DEF Frame
<1>2. PICK path \in Seq(Component) : path = f.path
  BY DEF Frame, Path
<1>3. PICK m \in Nat : Len(s) = m + 1 /\ DOMAIN s = 1 .. m + 1
  <2>1. Len(s) \in Nat /\ Len(s) # 0 /\ DOMAIN s = 1 .. Len(s)
    BY <1>1, EmptySeq
  <2>2. Len(s) - 1 \in Nat /\ Len(s) = (Len(s) - 1) + 1
    BY <2>1
  <2> QED
    BY <2>1, <2>2
<1>4. PICK u : u = Tail(s)
  OBVIOUS
<1>5. /\ Head(s) = s[1] /\ u \in Seq(ListItem) /\ Len(u) = m
      /\ \A k \in 1 .. m : u[k] = s[k + 1]
  BY <1>1, <1>3, <1>4, HeadTailProperties
<1>6. DOMAIN u = 1 .. m
  BY <1>5
<1>7. g.path = path /\ g.depth = f.depth /\ g.files = u /\ f.files = s
  BY <1>0, <1>1, <1>2, <1>4
<1>8. item = Item(f, 1) /\ \A k \in 1 .. m : Item(g, k) = Item(f, k + 1)
  BY <1>0, <1>1, <1>2, <1>5, <1>7 DEF Item
<1>9. 1 \in DOMAIN s /\ \A k \in 1 .. m : k + 1 \in DOMAIN s /\ k + 1 # 1
  BY <1>3
<1>10. \A k \in DOMAIN s : k = 1 \/ \E l \in 1 .. m : k = l + 1
  <2> SUFFICES ASSUME NEW k \in 1 .. m + 1, k # 1
               PROVE  \E l \in 1 .. m : k = l + 1
    BY <1>3
  <2>1. k - 1 \in 1 .. m /\ k = (k - 1) + 1
    OBVIOUS
  <2> QED
    BY <2>1
<1>11. /\ \A k \in DOMAIN s : Real(Item(f, k), s[k].dir)
       /\ \A k, l \in DOMAIN s : s[k].name = s[l].name => k = l
  BY <1>7 DEF FrameReal
<1>12. FrameReal(g) /\ Real(item, Head(f.files).dir)
  <2>1. ASSUME NEW k \in DOMAIN u
        PROVE  Real(Item(g, k), u[k].dir)
    <3>1. k \in 1 .. m /\ k + 1 \in DOMAIN s
      BY <1>6, <1>9, <2>1
    <3>2. Real(Item(f, k + 1), s[k + 1].dir)
      BY <1>11, <3>1
    <3>3. u[k] = s[k + 1] /\ Item(g, k) = Item(f, k + 1)
      BY <1>5, <1>8, <3>1
    <3> QED
      BY <3>2, <3>3
  <2>2. \A k, l \in DOMAIN u : u[k].name = u[l].name => k = l
    <3> SUFFICES ASSUME NEW k \in 1 .. m, NEW l \in 1 .. m, u[k].name = u[l].name
                 PROVE  k = l
      BY <1>6
    <3>1. k + 1 = l + 1
      BY <1>5, <1>9, <1>11
    <3> QED
      BY <3>1
  <2>3. FrameReal(g)
    <3>1. g.files = u
      BY <1>7
    <3>2. \A k \in DOMAIN g.files : Real(Item(g, k), g.files[k].dir)
      BY <2>1, <3>1
    <3>3. \A k, l \in DOMAIN g.files : g.files[k].name = g.files[l].name => k = l
      BY <2>2, <3>1
    <3> QED
      BY <3>2, <3>3, Zenon DEF FrameReal
  <2>4. Real(Item(f, 1), s[1].dir)
    BY <1>9, <1>11
  <2>5. Head(f.files) = s[1] /\ item = Item(f, 1)
    BY <1>1, <1>5, <1>8
  <2> QED
    BY <2>3, <2>4, <2>5
<1>13. ASSUME NEW q
       PROVE  q \in Owed(f) <=> q \in Sub(item, f.depth) \/ q \in Owed(g)
  <2>1. q \in Owed(f) <=> \E k \in DOMAIN s : q \in Sub(Item(f, k), f.depth)
    BY <1>7 DEF Owed
  <2>2. q \in Owed(g) <=> \E k \in 1 .. m : q \in Sub(Item(f, k + 1), f.depth)
    BY <1>6, <1>7, <1>8 DEF Owed
  <2> QED
    BY <1>8, <1>9, <1>10, <2>1, <2>2
<1>14. ASSUME NEW q \in Owed(g), q \in Sub(item, f.depth)
       PROVE  FALSE
  <2>1. PICK k \in 1 .. m : q \in Sub(Item(f, k + 1), f.depth)
    BY <1>6, <1>7, <1>8, <1>14 DEF Owed
  <2>2. PICK x \in Component, y \in Component : x = s[1].name /\ y = s[k + 1].name
    <3>1. s[1] \in ListItem /\ s[k + 1] \in ListItem
      BY <1>9
    <3> QED
      BY <3>1 DEF ListItem
  <2>3. Item(f, 1) = Append(path, x) /\ Item(f, k + 1) = Append(path, y)
    BY <1>2, <1>7, <2>2 DEF Item
  <2>4. q \in Seq(Component) /\ IsPrefix(Append(path, x), q) /\ IsPrefix(Append(path, y), q)
    BY <1>8, <1>14, <2>1, <2>3, RealPath DEF Sub, Path
  <2>5. x = y
    BY <2>4, PrefixApart
  <2> QED
    BY <1>9, <1>11, <2>2, <2>5
<1> QED
  BY <1>12, <1>13, <1>14 DEF Parts

-----------------------------------------------------------------------------
(* The directory of a path.                                                *)

\* The directory of a path with a name at its end is the path.
LEMMA DirOfLonger ==
  ASSUME NEW q \in Path, NEW x \in Component
  PROVE  DirOf(Append(q, x)) = q
<1>1. PICK u : u = Append(q, x)
  OBVIOUS
<1>2. PICK n \in Nat : n = Len(q)
  BY DEF Path
<1>3. u \in Seq(Component) /\ Len(u) = n + 1 /\ \A k \in 1 .. n : u[k] = q[k] /\ k \in 1 .. Len(u)
  BY <1>1, <1>2, Longer DEF Path
<1>4. Len(u) - 1 = n
  BY <1>2, <1>3
<1>5. /\ SubSeq(u, 1, n) \in Seq(Component)
      /\ Len(SubSeq(u, 1, n)) = n
      /\ \A k \in 1 .. n : SubSeq(u, 1, n)[k] = u[k]
  <2>1. \A k \in 1 .. n : u[k] \in Component
    BY <1>3
  <2>2. /\ SubSeq(u, 1, n) \in Seq(Component)
        /\ Len(SubSeq(u, 1, n)) = IF 1 <= n THEN n - 1 + 1 ELSE 0
        /\ \A k \in 1 .. n - 1 + 1 : SubSeq(u, 1, n)[k] = u[1 + k - 1]
    BY <1>2, <2>1, SubSeqProperties
  <2> QED
    BY <1>2, <2>2
<1>6. SubSeq(u, 1, n) = q
  <2>1. PICK v : v = SubSeq(u, 1, n)
    OBVIOUS
  <2>2. v \in Seq(Component) /\ Len(v) = Len(q) /\ \A k \in 1 .. Len(v) : v[k] = q[k]
    BY <1>2, <1>3, <1>5, <2>1
  <2>3. v = q
    BY <2>2, SeqEqual DEF Path
  <2> QED
    BY <2>1, <2>3
<1> QED
  BY <1>1, <1>4, <1>6 DEF DirOf

\* The parts of a path that is not the root.
LEMMA DirAndBase ==
  ASSUME NEW p \in Path, p # Root
  PROVE  DirOf(p) \in Path /\ BaseOf(p) \in Component /\ Append(DirOf(p), BaseOf(p)) = p
<1>1. PICK n \in Nat : n + 1 = Len(p) /\ DOMAIN p = 1 .. n + 1
  <2>1. Len(p) \in Nat /\ Len(p) # 0 /\ DOMAIN p = 1 .. Len(p)
    BY EmptySeq DEF Root, Path
  <2>2. Len(p) - 1 \in Nat /\ (Len(p) - 1) + 1 = Len(p)
    BY <2>1
  <2> QED
    BY <2>1, <2>2
<1>2. \A k \in 1 .. n + 1 : p[k] \in Component
  BY <1>1 DEF Path
<1>3. n + 1 \in 1 .. n + 1 /\ \A k \in 1 .. n : k \in 1 .. n + 1
  BY <1>1
<1>4. PICK q, x : q = SubSeq(p, 1, n) /\ x = p[n + 1]
  OBVIOUS
<1>5. x \in Component
  BY <1>2, <1>3, <1>4
<1>6. q \in Seq(Component) /\ Len(q) = n /\ \A k \in 1 .. n : q[k] = p[k]
  <2>1. /\ SubSeq(p, 1, n) \in Seq(Component)
        /\ Len(SubSeq(p, 1, n)) = IF 1 <= n THEN n - 1 + 1 ELSE 0
        /\ \A k \in 1 .. n - 1 + 1 : SubSeq(p, 1, n)[k] = p[1 + k - 1]
    BY <1>1, <1>2, <1>3, SubSeqProperties
  <2> QED
    BY <1>1, <1>4, <2>1
<1>7. DirOf(p) = q /\ BaseOf(p) = x
  BY <1>1, <1>4 DEF DirOf, BaseOf
<1>8. PICK u : u = Append(q, x)
  OBVIOUS
<1>9. u \in Seq(Component) /\ Len(u) = n + 1 /\ u[n + 1] = x /\ \A k \in 1 .. n : u[k] = q[k]
  BY <1>5, <1>6, <1>8, Longer
<1>10. \A k \in 1 .. n + 1 : u[k] = p[k]
  <2>1. \A k \in 1 .. n + 1 : k \in 1 .. n \/ k = n + 1
    BY <1>1
  <2> QED
    BY <1>4, <1>6, <1>9, <2>1
<1>11. u = p
  BY <1>1, <1>9, <1>10, SeqEqual DEF Path
<1> QED
  BY <1>5, <1>6, <1>7, <1>8, <1>11 DEF Path

\* Nothing asked for is a directory above what is asked for.
LEMMA AboveNothing ==
  ASSUME NEW p \in Path, IsPrefix(p, DirOf(p))
  PROVE  DirOf(p) = p
<1>1. CASE p = Root
  <2>1. SubSeq(Root, 1, -1) = Root
    BY DEF Root
  <2>2. Len(Root) - 1 = -1
    BY DEF Root
  <2> QED
    BY <1>1, <2>1, <2>2 DEF DirOf
<1>2. CASE p # Root
  <2>1. PICK q \in Seq(Component), x \in Component : q = DirOf(p) /\ Append(q, x) = p
    BY <1>2, DirAndBase DEF Path
  <2>2. Len(p) = Len(q) + 1 /\ Len(q) \in Nat
    BY <2>1, Longer
  <2>3. Len(p) <= Len(q)
    BY <2>1, PrefixWhole DEF Path
  <2> QED
    BY <2>2, <2>3
<1> QED
  BY <1>1, <1>2

-----------------------------------------------------------------------------
(* What is asked for, and what is left of it.                              *)

\* A visit tells of what was at hand.
LEMMA ShareVisit ==
  ASSUME NEW W, NEW A, NEW B, NEW n, NEW F, Shares(W, A, B, n, F), NEW x \in B,
         NEW A2, \A q : q \in A2 <=> q \in A \/ q = x,
         NEW B2, \A q : q \in B2 <=> q \in B /\ q # x
  PROVE  Shares(W, A2, B2, n, F)
BY DEF Shares

\* A new frame takes over what was at hand.
LEMMA SharePush ==
  ASSUME NEW W, NEW A, NEW B, NEW n \in Nat, NEW F, Shares(W, A, B, n, F),
         NEW B2, \A q : q \notin B2,
         NEW G, \A k \in 1 .. n : G[k] = F[k], \A q : q \in G[n + 1] <=> q \in B
  PROVE  Shares(W, A, B2, n + 1, G)
<1>1. \A k \in 1 .. n + 1 : k \in 1 .. n \/ k = n + 1
  OBVIOUS
<1>2. n + 1 \in 1 .. n + 1 /\ \A k \in 1 .. n : k \in 1 .. n + 1 /\ k # n + 1
  OBVIOUS
<1>3. /\ \A q : q \in W <=> q \in A \/ q \in B \/ \E k \in 1 .. n : q \in F[k]
      /\ \A q \in A : q \notin B
      /\ \A k \in 1 .. n : \A q \in F[k] : q \notin A /\ q \notin B
      /\ \A k, l \in 1 .. n : \A q \in F[k] : q \in F[l] => k = l
  BY DEF Shares
<1>4. ASSUME NEW q
      PROVE  (\E k \in 1 .. n + 1 : q \in G[k]) <=> q \in B \/ \E k \in 1 .. n : q \in F[k]
  BY <1>1, <1>2
<1>5. \A k \in 1 .. n + 1 : \A q \in G[k] : q \notin A
  BY <1>1, <1>3
<1>6. ASSUME NEW k \in 1 .. n + 1, NEW l \in 1 .. n + 1, NEW q, q \in G[k], q \in G[l]
      PROVE  k = l
  BY <1>1, <1>3, <1>6
<1> QED
  BY <1>3, <1>4, <1>5, <1>6 DEF Shares

\* The last frame gives what it owed to what is at hand and to what it owes now.
LEMMA ShareNext ==
  ASSUME NEW W, NEW A, NEW B, NEW n \in Nat, NEW F, Shares(W, A, B, n + 1, F), \A q : q \notin B,
         NEW B2, NEW G, \A k \in 1 .. n : G[k] = F[k],
         \A q : q \in F[n + 1] <=> q \in B2 \/ q \in G[n + 1],
         \A q \in G[n + 1] : q \notin B2
  PROVE  Shares(W, A, B2, n + 1, G)
<1>1. \A k \in 1 .. n + 1 : k \in 1 .. n \/ k = n + 1
  OBVIOUS
<1>2. n + 1 \in 1 .. n + 1 /\ \A k \in 1 .. n : k \in 1 .. n + 1 /\ k # n + 1
  OBVIOUS
<1>3. /\ \A q : q \in W <=> q \in A \/ \E k \in 1 .. n + 1 : q \in F[k]
      /\ \A k \in 1 .. n + 1 : \A q \in F[k] : q \notin A
      /\ \A k, l \in 1 .. n + 1 : \A q \in F[k] : q \in F[l] => k = l
  BY DEF Shares
<1>4. \A k \in 1 .. n + 1 : \A q \in G[k] : q \in F[k]
  BY <1>1
<1>5. \A q \in B2 : q \in F[n + 1]
  OBVIOUS
<1>6. ASSUME NEW q
      PROVE  q \in W <=> q \in A \/ q \in B2 \/ \E k \in 1 .. n + 1 : q \in G[k]
  <2>1. (\E k \in 1 .. n + 1 : q \in F[k]) <=> q \in B2 \/ \E k \in 1 .. n + 1 : q \in G[k]
    BY <1>1, <1>2, <1>4, <1>5
  <2> QED
    BY <1>3, <2>1
<1>7. \A q \in A : q \notin B2
  BY <1>2, <1>3, <1>5
<1>8. ASSUME NEW k \in 1 .. n + 1, NEW q \in G[k]
      PROVE  q \notin A /\ q \notin B2
  <2>1. q \in F[k] /\ q \notin A
    BY <1>3, <1>4, <1>8
  <2>2. q \notin B2
    <3>1. CASE k = n + 1
      BY <1>8, <3>1
    <3>2. CASE k \in 1 .. n
      BY <1>2, <1>3, <1>5, <2>1, <3>2
    <3> QED
      BY <1>1, <3>1, <3>2
  <2> QED
    BY <2>1, <2>2
<1>9. \A k, l \in 1 .. n + 1 : \A q \in G[k] : q \in G[l] => k = l
  BY <1>3, <1>4
<1> QED
  BY <1>6, <1>7, <1>8, <1>9 DEF Shares

\* A frame that owes nothing is left.
LEMMA SharePop ==
  ASSUME NEW W, NEW A, NEW B, NEW n \in Nat, NEW F, Shares(W, A, B, n + 1, F),
         \A q : q \notin F[n + 1], NEW G, \A k \in 1 .. n : G[k] = F[k]
  PROVE  Shares(W, A, B, n, G)
<1>1. \A k \in 1 .. n + 1 : k \in 1 .. n \/ k = n + 1
  OBVIOUS
<1>2. \A k \in 1 .. n : k \in 1 .. n + 1
  OBVIOUS
<1>3. \A q : (\E k \in 1 .. n + 1 : q \in F[k]) <=> \E k \in 1 .. n : q \in G[k]
  BY <1>1, <1>2
<1> QED
  BY <1>2, <1>3 DEF Shares

-----------------------------------------------------------------------------
(* What an answer tells.                                                   *)

\* What is not a response tells of nothing.
LEMMA Silent ==
  ASSUME NEW o \in Seq(Sent), NEW e \in Sent, e.kind # "response", NEW W,
         NEW o2, o2 = Append(o, e)
  PROVE  Told(o2) = Told(o) /\ (Orderly(o, W) => Orderly(o2, W))
<1>1. /\ \A k \in DOMAIN o : k \in DOMAIN o2 /\ o2[k] = o[k]
      /\ \A k \in DOMAIN o2 : k \in DOMAIN o \/ o2[k] = e
  OBVIOUS
<1>2. Responses(o2) = Responses(o) /\ \A k \in Responses(o) : o2[k] = o[k]
  BY <1>1 DEF Responses
<1>3. Told(o2) = Told(o)
  BY <1>2 DEF Told
<1>4. ASSUME Orderly(o, W)
      PROVE  Orderly(o2, W)
  <2>1. PICK R : R = Responses(o) /\ R = Responses(o2) /\ \A k \in R : o2[k] = o[k]
    BY <1>2
  <2>2. /\ \A k, l \in R : o[k].path = o[l].path => k = l
        /\ \A k, l \in R : o[l].path = DirOf(o[k].path) => l <= k
        /\ \A k \in R : DirOf(o[k].path) \in W => DirOf(o[k].path) \in Told(o)
    BY <1>4, <2>1 DEF Orderly
  <2>3. \A k, l \in R : o2[k].path = o2[l].path => k = l
    BY <2>1, <2>2
  <2>4. \A k, l \in R : o2[l].path = DirOf(o2[k].path) => l <= k
    BY <2>1, <2>2
  <2>5. \A k \in R : DirOf(o2[k].path) \in W => DirOf(o2[k].path) \in Told(o2)
    BY <1>3, <2>1, <2>2
  <2>6. Responses(o2) = R
    BY <2>1
  <2> QED
    BY <2>3, <2>4, <2>5, <2>6 DEF Orderly
<1> QED
  BY <1>3, <1>4

\* A response to a resource that was not told of, whose directory was.
LEMMA Tells ==
  ASSUME NEW o \in Seq(Sent), NEW p \in Path, NEW W, Orderly(o, W), p \in W, p \notin Told(o),
         DirOf(p) \in W \ {p} => DirOf(p) \in Told(o),
         NEW o2, o2 = Append(o, Resp(p))
  PROVE  /\ \A q : q \in Told(o2) <=> q \in Told(o) \/ q = p
         /\ Orderly(o2, W)
<1>1. PICK r \in Sent : r = Resp(p) /\ r.kind = "response" /\ r.path = p
  BY SentFacts
<1>2. PICK n \in Nat : n = Len(o) /\ DOMAIN o = 1 .. n
  OBVIOUS
<1>3. PICK m : m = n + 1 /\ m \notin DOMAIN o /\ \A k \in DOMAIN o : k <= m
  BY <1>2
<1>4. /\ \A k \in DOMAIN o : k \in DOMAIN o2 /\ o2[k] = o[k]
      /\ \A k \in DOMAIN o2 : k \in DOMAIN o \/ k = m
      /\ m \in DOMAIN o2 /\ o2[m] = r /\ m <= m
  BY <1>1, <1>2, <1>3
<1>5. /\ \A k : k \in Responses(o2) <=> k \in Responses(o) \/ k = m
      /\ \A k \in Responses(o) : o2[k] = o[k] /\ k # m /\ k <= m
      /\ o2[m].path = p
  BY <1>1, <1>3, <1>4 DEF Responses
<1>6. ASSUME NEW q
      PROVE  q \in Told(o2) <=> q \in Told(o) \/ q = p
  <2>1. q \in Told(o2) <=> \E k \in Responses(o2) : q = o2[k].path
    BY DEF Told
  <2>2. q \in Told(o) <=> \E k \in Responses(o) : q = o[k].path
    BY DEF Told
  <2>3. (\E k \in Responses(o2) : q = o2[k].path)
          <=> q = o2[m].path \/ \E k \in Responses(o) : q = o2[k].path
    BY <1>5
  <2>4. (\E k \in Responses(o) : q = o2[k].path) <=> \E k \in Responses(o) : q = o[k].path
    BY <1>5
  <2> QED
    BY <1>5, <2>1, <2>2, <2>3, <2>4
<1>7. /\ \A k, l \in Responses(o) : o[k].path = o[l].path => k = l
      /\ \A k, l \in Responses(o) : o[l].path = DirOf(o[k].path) => l <= k
      /\ \A k \in Responses(o) : DirOf(o[k].path) \in W => DirOf(o[k].path) \in Told(o)
      /\ \A k \in Responses(o) : o[k].path \in Told(o) /\ o[k].path # p
  BY DEF Orderly, Told
<1>8. ASSUME NEW k \in Responses(o2), NEW l \in Responses(o2), o2[k].path = o2[l].path
      PROVE  k = l
  <2>1. CASE k \in Responses(o) /\ l \in Responses(o)
    <3>1. o[k].path = o[l].path
      BY <1>5, <1>8, <2>1
    <3> QED
      BY <1>7, <2>1, <3>1
  <2>2. CASE k = m /\ l \in Responses(o)
    <3>1. o[l].path = p
      BY <1>5, <1>8, <2>2
    <3> QED
      BY <1>7, <2>2, <3>1
  <2>3. CASE k \in Responses(o) /\ l = m
    <3>1. o[k].path = p
      BY <1>5, <1>8, <2>3
    <3> QED
      BY <1>7, <2>3, <3>1
  <2> QED
    BY <1>5, <2>1, <2>2, <2>3
<1>9. ASSUME NEW k \in Responses(o2), NEW l \in Responses(o2), o2[l].path = DirOf(o2[k].path)
      PROVE  l <= k
  <2>1. CASE k \in Responses(o) /\ l \in Responses(o)
    BY <1>5, <1>7, <1>9, <2>1
  <2>2. CASE k = m
    BY <1>4, <1>5, <2>2
  <2>3. CASE k \in Responses(o) /\ l = m
    <3>1. DirOf(o[k].path) = p
      BY <1>5, <1>9, <2>3
    <3>2. p \in Told(o)
      BY <1>7, <2>3, <3>1
    <3> QED
      BY <3>2
  <2> QED
    BY <1>5, <2>1, <2>2, <2>3
<1>10. ASSUME NEW k \in Responses(o2), DirOf(o2[k].path) \in W
       PROVE  DirOf(o2[k].path) \in Told(o2)
  <2>1. CASE k \in Responses(o)
    BY <1>5, <1>6, <1>7, <1>10, <2>1
  <2>2. CASE k = m
    BY <1>5, <1>6, <1>10, <2>2
  <2> QED
    BY <1>5, <2>1, <2>2
<1> QED
  BY <1>6, <1>8, <1>9, <1>10 DEF Orderly

-----------------------------------------------------------------------------
(* What is answered for a directory of the drive as it was at the start.   *)

\* A lookup that gives an id gives the directory's, and its pages, if none is
\* refused, its listing.
LEMMA FilesOf ==
  ASSUME Regular, hist = << Tree0 >>, NEW i \in Ids(Tree0), IsFolder(Tree0, i),
         NEW path, path = PathOf(Tree0)[i], NEW a \in Files(path), a.whole
  PROVE  a.files = Listing(Tree0, i)
<1>1. DOMAIN hist = {1} /\ hist[1] = Tree0
  OBVIOUS
<1>2. PICK k, id, loop :
        /\ k \in DOMAIN hist /\ id \in DirIDAnswers(hist[k], path) /\ loop \in Loops(k, id)
        /\ a = [files |-> Read(loop, Len(loop), id),
                whole |-> id # NoId /\ Last(loop) # Refused]
  BY FilesAre
<1>3. id \in DirIDs(Tree0, path)
  <2>1. id # NoId
    BY <1>2
  <2>3. id \in DirIDAnswers(Tree0, path)
    BY <1>1, <1>2
  <2> QED
    BY <2>1, <2>3 DEF DirIDAnswers
<1>4. PICK p : p = PathOf(Tree0)
  OBVIOUS
<1>5. p[RootId] = Root /\ RootId \in Ids(Tree0) /\ RootId \notin DOMAIN Tree0
  BY <1>4, TheTree, PathFacts DEF Ids, IsDrive
<1>6. \A j \in Ids(Tree0) : p[j] = path => j = i
  BY <1>4, TheTree, PathsDiffer
<1>7. id = i
  <2>1. PICK found : found = { j \in DOMAIN Tree0 : /\ Tree0[j].dir
                                                    /\ path # Root /\ p[j] = path }
    OBVIOUS
  <2>2. id \in IF found = {} THEN {RootId} ELSE found
    BY <1>3, <1>4, <2>1 DEF DirIDs
  <2>3. CASE path = Root
    BY <1>5, <1>6, <2>1, <2>2, <2>3
  <2>4. CASE path # Root
    <3>1. i \in DOMAIN Tree0 /\ Tree0[i].dir
      BY <1>4, <1>5, <2>4 DEF IsFolder, Ids
    <3>2. i \in found
      BY <1>4, <2>1, <2>4, <3>1
    <3>3. id \in found
      BY <2>2, <3>2
    <3> QED
      BY <1>6, <2>1, <3>3 DEF Ids
  <2> QED
    BY <2>3, <2>4
<1>8. hist \in Seq(Tree)
  <2>1. Tree0 \in Tree
    BY TheTree, AllDrives DEF Tree
  <2> QED
    BY <2>1
<1>9. PICK n, total : n = Len(loop) /\ total = Places(loop, n, id)
  OBVIOUS
<1>10. PICK ids, all : ids = Children(Tree0, i) /\ all = Listing(Tree0, i)
  OBVIOUS
<1>11. Len(all) \in Nat /\ DOMAIN all = 1 .. Len(all) /\ all \in Seq(ListItem)
  BY <1>10, TheTree, ListingFacts DEF ListItem
<1>12. /\ n \in Nat \ {0}
       /\ \A l \in 1 .. n : /\ loop[l] \in {Refused} \cup (k .. Len(hist))
                            /\ l * PageSize \in Nat
                            /\ l * PageSize >= Count(loop[l], id) <=> l = n
  BY <1>2, <1>8, <1>9, LoopFacts
<1>13. /\ total \in {(n - 1) * PageSize, Count(loop[n], id)} /\ total >= Count(loop[n], id)
       /\ total \in Nat
       /\ \A p1 \in 1 .. total : LET l == (p1 - 1) \div PageSize + 1
                                IN  /\ l \in 1 .. n /\ loop[l] # Refused
                                    /\ p1 <= Count(loop[l], id)
  BY <1>2, <1>8, <1>9, PlaceFacts
<1>14. \A l \in 1 .. n : loop[l] # Refused => loop[l] = 1 /\ Count(loop[l], id) = Len(all)
  <2>1. ASSUME NEW l \in 1 .. n, loop[l] # Refused
        PROVE  loop[l] = 1 /\ Count(loop[l], id) = Len(all)
    <3>1. k = 1 /\ Len(hist) = 1
      BY <1>1, <1>2
    <3>2. loop[l] \in 1 .. 1
      BY <1>12, <2>1, <3>1
    <3>3. loop[l] = 1
      BY <3>2
    <3> QED
      BY <1>1, <1>7, <1>10, <2>1, <3>3 DEF Count
  <2> QED
    BY <2>1
<1>15. loop[n] # Refused
  <2>1. a.whole = (id # NoId /\ Last(loop) # Refused)
    BY <1>2
  <2>2. Last(loop) # Refused
    BY <2>1
  <2>3. Last(loop) = loop[n]
    BY <1>9 DEF Last
  <2> QED
    BY <2>2, <2>3
<1>16. total = Len(all)
  <2>1. Count(loop[n], id) = Len(all)
    BY <1>12, <1>14, <1>15
  <2>2. CASE n = 1
    <3>1. (n - 1) * PageSize = 0
      BY <2>2, WalkFSAssumption
    <3>2. total = (n - 1) * PageSize \/ total = Count(loop[n], id)
      BY <1>13
    <3>3. total = 0 \/ total = Len(all)
      BY <2>1, <3>1, <3>2
    <3>4. total >= Len(all)
      BY <1>13, <2>1
    <3> QED
      BY <1>11, <3>3, <3>4
  <2>3. CASE n # 1
    <3>1. n - 1 \in 1 .. n /\ n - 1 # n
      BY <1>12, <2>3
    <3>2. (n - 1) * PageSize \in Nat /\ ~((n - 1) * PageSize >= Count(loop[n - 1], id))
      BY <1>12, <3>1
    <3>3. loop[n - 1] # Refused
      BY <3>2 DEF Count
    <3>4. Count(loop[n - 1], id) = Len(all)
      BY <1>14, <3>1, <3>3
    <3> QED
      BY <1>11, <1>13, <2>1, <3>2, <3>4
  <2> QED
    BY <2>2, <2>3
<1>17. ASSUME NEW p1 \in 1 .. total
       PROVE  Listing(hist[loop[(p1 - 1) \div PageSize + 1]], id)[p1] = all[p1]
  <2>1. PICK l : l = (p1 - 1) \div PageSize + 1
    OBVIOUS
  <2>2. loop[l] = 1
    BY <1>13, <1>14, <2>1
  <2> QED
    BY <1>1, <1>7, <1>10, <2>1, <2>2
<1>18. a.files = [p1 \in 1 .. total |-> all[p1]]
  BY <1>2, <1>9, <1>17 DEF Read, Places
<1> QED
  BY <1>10, <1>11, <1>16, <1>18

-----------------------------------------------------------------------------
(* The account is kept.                                                    *)

\* A resource at hand is told of.
LEMMA AccountVisit ==
  ASSUME NEW W, NEW o \in Seq(Sent), NEW B, NEW s, Accounts(W, o, B, s), NEW p \in Path, p \in B,
         Preceded(p, o, W), NEW B2, B2 = B \ {p},
         NEW o2, o2 = Append(o, Resp(p))
  PROVE  Accounts(W, o2, B2, s) /\ p \in Told(o2)
<1>1. Shares(W, Told(o), B, Len(s), Owing(s)) /\ Orderly(o, W)
  BY DEF Accounts
<1>2. p \in W /\ p \notin Told(o)
  BY <1>1 DEF Shares
<1>3. (\A q : q \in Told(o2) <=> q \in Told(o) \/ q = p) /\ Orderly(o2, W)
  BY <1>1, <1>2, Tells DEF Preceded
<1>4. Shares(W, Told(o2), B2, Len(s), Owing(s))
  BY <1>1, <1>3, ShareVisit
<1>5. \A k \in DOMAIN s : FrameReal(s[k]) /\ s[k].path \in Told(o2)
  BY <1>3 DEF Accounts
<1> QED
  BY <1>3, <1>4, <1>5 DEF Accounts

\* The resources below a directory at hand are owed by its frame.
LEMMA AccountPush ==
  ASSUME NEW W, NEW o, NEW B, NEW s \in Seq(Frame), Accounts(W, o, B, s),
         NEW f \in Frame, FrameReal(f), f.path \in Told(o), \A q : q \in Owed(f) <=> q \in B,
         NEW s2, s2 = Append(s, f), NEW B2, \A q : q \notin B2
  PROVE  Accounts(W, o, B2, s2)
<1>1. Shares(W, Told(o), B, Len(s), Owing(s)) /\ Orderly(o, W)
  BY DEF Accounts
<1>2. PICK n \in Nat : n = Len(s) /\ DOMAIN s = 1 .. n
  OBVIOUS
<1>3. /\ Len(s2) = n + 1 /\ DOMAIN s2 = 1 .. n + 1 /\ s2[n + 1] = f
      /\ \A k \in 1 .. n : s2[k] = s[k]
  BY <1>2
<1>4. \A k \in 1 .. n : k \in 1 .. n + 1 /\ Owing(s2)[k] = Owing(s)[k]
  BY <1>2, <1>3 DEF Owing
<1>5. \A q : q \in Owing(s2)[n + 1] <=> q \in B
  <2>1. n + 1 \in 1 .. n + 1
    OBVIOUS
  <2>2. Owing(s2)[n + 1] = Owed(f)
    BY <1>3, <2>1 DEF Owing
  <2> QED
    BY <2>2
<1>6. Shares(W, Told(o), B2, n + 1, Owing(s2))
  BY <1>1, <1>2, <1>4, <1>5, SharePush
<1>7. \A k \in DOMAIN s2 : FrameReal(s2[k]) /\ s2[k].path \in Told(o)
  <2> SUFFICES ASSUME NEW k \in 1 .. n + 1
               PROVE  FrameReal(s2[k]) /\ s2[k].path \in Told(o)
    BY <1>3
  <2>1. CASE k = n + 1
    BY <1>3, <2>1
  <2>2. CASE k \in 1 .. n
    <3>1. FrameReal(s[k]) /\ s[k].path \in Told(o)
      BY <1>2, <2>2 DEF Accounts
    <3>2. s2[k] = s[k]
      BY <1>3, <2>2
    <3> QED
      BY <3>1, <3>2
  <2>3. k = n + 1 \/ k \in 1 .. n
    OBVIOUS
  <2> QED
    BY <2>1, <2>2, <2>3
<1> QED
  BY <1>1, <1>3, <1>6, <1>7 DEF Accounts

\* A stack is its front and its last frame.
LEMMA FrontAndLast ==
  ASSUME NEW s \in Seq(Frame), s # << >>
  PROVE  \E n \in Nat : /\ Len(s) = n + 1 /\ DOMAIN s = 1 .. n + 1 /\ Last(s) = s[n + 1]
                        /\ Front(s) \in Seq(Frame) /\ Len(Front(s)) = n /\ DOMAIN Front(s) = 1 .. n
                        /\ \A k \in 1 .. n : k \in 1 .. n + 1 /\ Front(s)[k] = s[k]
<1>1. PICK n : n = Len(Front(s))
  OBVIOUS
<1>2. n \in Nat /\ n + 1 = Len(s) /\ DOMAIN s = 1 .. n + 1 /\ DOMAIN Front(s) = 1 .. n
  BY <1>1, FrontFacts
<1>3. /\ Last(s) = s[n + 1] /\ Front(s) \in Seq(Frame)
      /\ \A k \in 1 .. n : k \in 1 .. n + 1 /\ Front(s)[k] = s[k]
  BY <1>1, <1>2, FrontFacts
<1> QED
  BY <1>1, <1>2, <1>3

\* A frame without entries owes nothing, and is left.
LEMMA AccountPop ==
  ASSUME NEW W, NEW o, NEW B, NEW s \in Seq(Frame), s # << >>, Accounts(W, o, B, s),
         Last(s).files = << >>
  PROVE  Accounts(W, o, B, Front(s))
<1>1. PICK n \in Nat : /\ Len(s) = n + 1 /\ DOMAIN s = 1 .. n + 1 /\ Last(s) = s[n + 1]
                       /\ Front(s) \in Seq(Frame) /\ Len(Front(s)) = n /\ DOMAIN Front(s) = 1 .. n
                       /\ \A k \in 1 .. n : k \in 1 .. n + 1 /\ Front(s)[k] = s[k]
  BY FrontAndLast
<1>2. PICK t : t = Front(s)
  OBVIOUS
<1>3. Shares(W, Told(o), B, n + 1, Owing(s)) /\ Orderly(o, W)
  BY <1>1 DEF Accounts
<1>4. \A k \in 1 .. n : Owing(t)[k] = Owing(s)[k]
  BY <1>1, <1>2 DEF Owing
<1>5. \A q : q \notin Owing(s)[n + 1]
  <2>1. n + 1 \in 1 .. n + 1
    OBVIOUS
  <2>2. Owing(s)[n + 1] = Owed(Last(s))
    BY <1>1, <2>1 DEF Owing
  <2>3. DOMAIN Last(s).files = {}
    OBVIOUS
  <2> QED
    BY <2>2, <2>3 DEF Owed
<1>6. Shares(W, Told(o), B, n, Owing(t))
  BY <1>3, <1>4, <1>5, SharePop
<1>7. \A k \in DOMAIN t : FrameReal(t[k]) /\ t[k].path \in Told(o)
  BY <1>1, <1>2 DEF Accounts
<1> QED
  BY <1>1, <1>2, <1>3, <1>6, <1>7 DEF Accounts

\* The next entry of the last frame is at hand.
LEMMA AccountNext ==
  ASSUME Regular, NEW W, NEW o, NEW B, \A q : q \notin B,
         NEW s \in Seq(Frame), s # << >>, Accounts(W, o, B, s),
         NEW f, f = Last(s), NEW g \in Frame, NEW item, Without(f, g, item),
         NEW B2, \A q : q \in B2 <=> q \in Sub(item, f.depth),
         NEW s2, s2 = Append(Front(s), g)
  PROVE  Accounts(W, o, B2, s2) /\ Real(item, Head(f.files).dir) /\ f.path \in Told(o)
<1>1. PICK n \in Nat : /\ Len(s) = n + 1 /\ DOMAIN s = 1 .. n + 1 /\ f = s[n + 1]
                       /\ Front(s) \in Seq(Frame) /\ Len(Front(s)) = n /\ DOMAIN Front(s) = 1 .. n
                       /\ \A k \in 1 .. n : k \in 1 .. n + 1 /\ Front(s)[k] = s[k]
  BY FrontAndLast
<1>2. n + 1 \in 1 .. n + 1
  OBVIOUS
<1>3. PICK t \in Seq(Frame) : /\ t = Front(s) /\ Len(t) = n /\ DOMAIN t = 1 .. n
                              /\ \A k \in 1 .. n : t[k] = s[k]
  BY <1>1
<1>4. /\ Len(s2) = n + 1 /\ DOMAIN s2 = 1 .. n + 1 /\ s2[n + 1] = g
      /\ \A k \in 1 .. n : s2[k] = s[k]
  <2>1. s2 = Append(t, g)
    BY <1>3
  <2> QED
    BY <1>3, <2>1
<1>5. f \in Frame /\ FrameReal(f) /\ f.path \in Told(o)
  BY <1>1, <1>2 DEF Accounts
<1>6. FrameReal(g) /\ Real(item, Head(f.files).dir) /\ Parts(f, g, item)
  BY <1>5, OwedNext
<1>7. g.path = f.path
  BY DEF Without
<1>8. Shares(W, Told(o), B, n + 1, Owing(s)) /\ Orderly(o, W)
  BY <1>1 DEF Accounts
<1>9. \A k \in 1 .. n : Owing(s2)[k] = Owing(s)[k]
  BY <1>1, <1>4 DEF Owing
<1>10. Owing(s)[n + 1] = Owed(f) /\ Owing(s2)[n + 1] = Owed(g)
  BY <1>1, <1>2, <1>4 DEF Owing
<1>11. /\ \A q : q \in Owing(s)[n + 1] <=> q \in B2 \/ q \in Owing(s2)[n + 1]
       /\ \A q \in Owing(s2)[n + 1] : q \notin B2
  BY <1>6, <1>10 DEF Parts
<1>12. Shares(W, Told(o), B2, n + 1, Owing(s2))
  <2>1. PICK A, F, G : A = Told(o) /\ F = Owing(s) /\ G = Owing(s2)
    OBVIOUS
  <2>2. /\ Shares(W, A, B, n + 1, F) /\ \A k \in 1 .. n : G[k] = F[k]
        /\ \A q : q \in F[n + 1] <=> q \in B2 \/ q \in G[n + 1]
        /\ \A q \in G[n + 1] : q \notin B2
    BY <1>8, <1>9, <1>11, <2>1
  <2>3. Shares(W, A, B2, n + 1, G)
    BY <2>2, ShareNext
  <2> QED
    BY <2>1, <2>3
<1>13. \A k \in DOMAIN s2 : FrameReal(s2[k]) /\ s2[k].path \in Told(o)
  <2> SUFFICES ASSUME NEW k \in 1 .. n + 1
               PROVE  FrameReal(s2[k]) /\ s2[k].path \in Told(o)
    BY <1>4
  <2>1. CASE k = n + 1
    BY <1>4, <1>5, <1>6, <1>7, <2>1
  <2>2. CASE k \in 1 .. n
    <3>1. FrameReal(s[k]) /\ s[k].path \in Told(o)
      BY <1>1, <2>2 DEF Accounts
    <3>2. s2[k] = s[k]
      BY <1>4, <2>2
    <3> QED
      BY <3>1, <3>2
  <2>3. k = n + 1 \/ k \in 1 .. n
    OBVIOUS
  <2> QED
    BY <2>1, <2>2, <2>3
<1> QED
  BY <1>4, <1>5, <1>6, <1>8, <1>12, <1>13 DEF Accounts

-----------------------------------------------------------------------------
(* The steps keep the account.                                             *)

\* At first the walk knows of its request only.
LEMMA InitExact ==
  Init => ExactInv
BY DEF Init, ExactInv, PlainInv

\* An answer of its own tells of nothing.
LEMMA AnswerExactly ==
  ASSUME IInv, pc \in {"lookup", "parse"}, NEW code, Answer(code)
  PROVE  PlainInv'
<1>1. out = << >>
  BY DEF IInv, AnswerInv
<1>2. pc' = "done" /\ out' = << PlainText >>
  BY <1>1 DEF Answer
<1>3. ~Started'
  <2>1. PlainText # Header
    BY DEF PlainText, Header
  <2>2. \A k \in DOMAIN out' : out'[k] = PlainText
    BY <1>2
  <2> QED
    BY <2>1, <2>2 DEF Started
<1> QED
  BY <1>2, <1>3 DEF PlainInv

\* The root is a directory of the drive.
LEMMA RootReal ==
  ASSUME Regular
  PROVE  Real(Root, TRUE)
<1>1. RootId \in Ids(Tree0) /\ PathOf(Tree0)[RootId] = Root
  BY TheTree, PathFacts DEF Ids
<1>2. TRUE = IsFolder(Tree0, RootId)
  BY DEF IsFolder
<1> QED
  BY <1>1, <1>2 DEF Real

\* A lookup that finds a resource finds what it is.
LEMMA LookupExact ==
  ASSUME Regular, IInv, ExactInv, Lookup
  PROVE  ExactInv'
<1>1. /\ pc = "lookup" /\ UNCHANGED << hist, job, stack, err, gone >>
      /\ Types /\ HistInv
  BY DEF IInv, Lookup
<1>2. whole' => whole
  <2>1. whole \in BOOLEAN
    BY <1>1 DEF Types
  <2> QED
    BY <2>1 DEF Lookup
<1> SUFFICES ASSUME Plain'
             PROVE  PlainInv'
  BY <1>1 DEF ExactInv
<1>3. Plain /\ PlainInv /\ hist = << Tree0 >>
  BY <1>1, <1>2 DEF Plain, ExactInv
<1>4. node.dir /\ node.path = job.path /\ node.depth = job.depth /\ stack = << >>
  BY <1>1, <1>3 DEF PlainInv
<1>5. ASSUME pc' = "parse", Real(node'.path, node'.dir),
             node'.path = node.path, node'.depth = node.depth
      PROVE  PlainInv'
  BY <1>1, <1>4, <1>5 DEF PlainInv
<1>6. CASE /\ job.path = Root /\ pc' = "parse"
           /\ UNCHANGED << node, out, status, whole >>
  <2>1. node.dir = TRUE
    BY <1>1, <1>4, TypeFacts
  <2>2. Real(node'.path, node'.dir)
    BY <1>4, <1>6, <2>1, RootReal
  <2> QED
    BY <1>5, <1>6, <2>2
<1>7. CASE Answer(405)
  BY <1>1, <1>7, AnswerExactly
<1>8. ASSUME job.path # Root, NEW a \in Files(DirOf(job.path)),
             NEW hits, hits = { i \in DOMAIN a.files : a.files[i].name = BaseOf(job.path) },
             whole' = (whole /\ a.whole),
             IF hits = {}
               THEN Answer(404) /\ UNCHANGED node
               ELSE /\ pc' = "parse"
                    /\ node' = [node EXCEPT !.dir = a.files[Min(hits)].dir]
                    /\ UNCHANGED << out, status >>
      PROVE  PlainInv'
  <2>1. CASE hits = {}
    BY <1>1, <1>8, <2>1, AnswerExactly
  <2>2. CASE hits # {}
    <3>1. PICK files : files = a.files
      OBVIOUS
    <3>2. files \in Seq(ListItem) /\ a.whole \in BOOLEAN
      BY <1>1, <1>8, <3>1, FilesFacts DEF HistInv
    <3>3. Min(hits) \in hits
      <4>0. Len(files) \in Nat /\ DOMAIN files = 1 .. Len(files)
        BY <3>2
      <4>1. PICK n \in Nat : n = Len(files) /\ DOMAIN files = 1 .. n
        BY <4>0
      <4>2. PICK all : all = 1 .. n
        OBVIOUS
      <4>3. hits \in SUBSET all /\ hits \in SUBSET Int
        BY <1>8, <3>1, <4>1, <4>2
      <4>4. IsFiniteSet(all)
        BY <4>1, <4>2, FS_Interval
      <4>5. IsFiniteSet(hits)
        BY <4>3, <4>4, FS_Subset
      <4> QED
        BY <2>2, <4>3, <4>5, MaxMin
    <3>4. PICK n : n = Min(hits) /\ n \in DOMAIN files /\ files[n].name = BaseOf(job.path)
      BY <1>8, <3>1, <3>3
    <3>5. PICK i \in Ids(Tree0) : IsFolder(Tree0, i) /\ PathOf(Tree0)[i] = DirOf(job.path)
      BY <1>1 DEF Regular, HasDir, Types, Ids
    <3>6. a.whole
      <4>1. whole'
        BY DEF Plain
      <4> QED
        BY <1>8, <4>1
    <3>7. files = Listing(Tree0, i)
      BY <1>3, <1>8, <3>1, <3>5, <3>6, FilesOf
    <3>8. PICK f : f = [path |-> DirOf(job.path), depth |-> 0, files |-> Listing(Tree0, i)]
      OBVIOUS
    <3>9. FrameReal(f)
      BY <3>5, <3>8, ListingReal
    <3>10. f.files = files /\ f.path = DirOf(job.path)
      BY <3>7, <3>8
    <3>11. Real(Item(f, n), files[n].dir)
      BY <3>4, <3>9, <3>10 DEF FrameReal
    <3>12. Item(f, n) = job.path
      <4>1. job.path \in Path
        BY <1>1, TypeFacts
      <4>2. Append(DirOf(job.path), BaseOf(job.path)) = job.path
        BY <1>8, <4>1, DirAndBase
      <4> QED
        BY <3>4, <3>10, <4>2 DEF Item
    <3>13. PICK dir : dir = files[n].dir
      OBVIOUS
    <3>14. node' = [node EXCEPT !.dir = dir] /\ pc' = "parse"
      BY <1>8, <2>2, <3>1, <3>4, <3>13
    <3>15. node'.path = node.path /\ node'.depth = node.depth /\ node'.dir = dir
      BY <1>1, <3>14 DEF Types, Node
    <3> QED
      BY <1>4, <1>5, <3>11, <3>12, <3>13, <3>14, <3>15
  <2> QED
    BY <2>1, <2>2
<1> QED
  BY <1>6, <1>7, <1>8 DEF Lookup

\* Nothing has been told of when the walk starts, and all is at hand.
LEMMA ParseExact ==
  ASSUME Regular, IInv, ExactInv, Parse
  PROVE  ExactInv'
<1>1. /\ pc = "parse" /\ UNCHANGED << hist, job, node, stack, err, whole, gone >>
      /\ Types /\ out = << >>
  BY DEF IInv, AnswerInv, Parse
<1> SUFFICES ASSUME Plain'
             PROVE  PlainInv'
  BY <1>1 DEF ExactInv
<1>2. Plain /\ PlainInv
  BY <1>1 DEF Plain, ExactInv
<1>3. /\ node.path = job.path /\ node.depth = job.depth /\ stack = << >>
      /\ Real(node.path, node.dir)
  BY <1>1, <1>2 DEF PlainInv
<1>4. CASE pc' = "visit" /\ UNCHANGED << out, status >>
  <2>1. Told(out) = {} /\ Responses(out) = {}
    BY <1>1 DEF Told, Responses
  <2>2. Orderly(out, Wanted)
    BY <2>1 DEF Orderly
  <2>3. \A q : q \in AtHand' <=> q \in Wanted
    BY <1>1, <1>3, <1>4 DEF AtHand, Wanted
  <2>4. Len(stack) = 0 /\ DOMAIN stack = {}
    BY <1>3
  <2>5. Shares(Wanted, Told(out), AtHand', 0, Owing(stack))
    BY <2>1, <2>3 DEF Shares
  <2>6. Accounts(Wanted, out, AtHand', stack)
    BY <2>2, <2>4, <2>5 DEF Accounts
  <2>7. Wanted' = Wanted
    BY <1>1 DEF Wanted
  <2>8. Preceded(node.path, out, Wanted)
    <3>1. job.path \in Path
      BY <1>1, TypeFacts
    <3>2. IsPrefix(job.path, DirOf(job.path)) => DirOf(job.path) = job.path
      BY <3>1, AboveNothing
    <3> QED
      BY <1>3, <3>2 DEF Wanted, Sub, Preceded
  <2> QED
    BY <1>1, <1>3, <1>4, <2>6, <2>7, <2>8 DEF PlainInv
<1>5. CASE Answer(400)
  BY <1>1, <1>5, AnswerExactly
<1> QED
  BY <1>4, <1>5 DEF Parse

\* A visit tells of the resource that is at hand.
LEMMA VisitExact ==
  ASSUME Regular, IInv, ExactInv, Visit
  PROVE  ExactInv'
<1>1. /\ pc = "visit" /\ UNCHANGED << hist, job, node, stack, whole >> /\ Types
  BY DEF IInv, Visit
<1> SUFFICES ASSUME Plain'
             PROVE  PlainInv'
  BY <1>1 DEF ExactInv
<1>2. /\ out' = (IF Started THEN out ELSE Append(out, Header)) \o << Resp(node.path) >>
      /\ pc' = AfterVisit(node)
      /\ UNCHANGED << err, gone >>
  BY DEF Visit, Fail, Plain
<1>3. Plain /\ PlainInv
  BY <1>1, <1>2 DEF Plain, ExactInv
<1>4. PICK p, d, W, B : p = node.path /\ d = node.depth /\ W = Wanted /\ B = AtHand
  OBVIOUS
<1>5. p \in Path /\ d \in Depth /\ out \in Seq(Sent) /\ node.dir \in BOOLEAN
  BY <1>1, <1>4, TypeFacts DEF Types
<1>6. /\ Real(p, node.dir) /\ Accounts(W, out, B, stack)
      /\ Preceded(p, out, W)
  BY <1>1, <1>3, <1>4 DEF PlainInv
<1>7. PICK base : base = IF Started THEN out ELSE Append(out, Header)
  OBVIOUS
<1>8. base \in Seq(Sent) /\ Told(base) = Told(out) /\ (Orderly(out, W) => Orderly(base, W))
  <2>1. CASE Started
    BY <1>5, <1>7, <2>1
  <2>2. CASE ~Started
    <3>1. PICK h \in Sent : h = Header /\ h.kind # "response"
      BY SentFacts
    <3>2. base = Append(out, h)
      BY <1>7, <2>2, <3>1
    <3>3. Told(base) = Told(out) /\ (Orderly(out, W) => Orderly(base, W))
      BY <1>5, <3>1, <3>2, Silent
    <3> QED
      BY <1>5, <3>2, <3>3
  <2> QED
    BY <2>1, <2>2
<1>9. Accounts(W, base, B, stack)
  BY <1>6, <1>8 DEF Accounts
<1>10. out' = Append(base, Resp(p))
  <2>1. PICK r \in Sent : r = Resp(p)
    BY <1>5, SentFacts
  <2>2. out' = base \o << r >>
    BY <1>2, <1>4, <1>7, <2>1
  <2>3. Append(base, r) = base \o << r >>
    BY <1>8, <2>1, AppendIsConcat
  <2> QED
    BY <2>1, <2>2, <2>3
<1>11. p \in B /\ B = Sub(p, d)
  <2>1. B = Sub(p, d)
    BY <1>1, <1>4 DEF AtHand
  <2>2. p \in AllPaths
    BY <1>6, RealPath
  <2> QED
    BY <1>5, <2>1, <2>2, SubSelf
<1>12. \A q : q \in AtHand' <=> q \in B /\ q # p
  <2>1. AtHand' = { q \in Sub(p, d) : pc' = "list" /\ q # p }
    BY <1>1, <1>2, <1>4 DEF AtHand, AfterVisit
  <2>2. CASE ~node.dir \/ d = 0
    <3>1. \A q \in Sub(p, d) : q = p
      BY <1>5, <1>6, <2>2, SubLeaf
    <3> QED
      BY <1>11, <2>1, <3>1
  <2>3. CASE node.dir /\ d # 0
    <3>1. pc' = "list"
      BY <1>2, <1>4, <2>3 DEF AfterVisit
    <3> QED
      BY <1>11, <2>1, <3>1
  <2> QED
    BY <1>5, <2>2, <2>3
<1>13. Accounts(W, out', AtHand', stack) /\ p \in Told(out')
  <2>1. PICK B2, o2, s : B2 = AtHand' /\ o2 = out' /\ s = stack
    OBVIOUS
  <2>2. B2 = B \ {p}
    BY <1>12, <2>1
  <2>3. o2 = Append(base, Resp(p))
    BY <1>10, <2>1
  <2>4. Preceded(p, base, W)
    BY <1>6, <1>8 DEF Preceded
  <2>5. Accounts(W, base, B, s) /\ p \in B /\ p \in Path /\ base \in Seq(Sent)
    BY <1>5, <1>8, <1>9, <1>11, <2>1
  <2>6. Accounts(W, o2, B2, s) /\ p \in Told(o2)
    BY <2>2, <2>3, <2>4, <2>5, AccountVisit
  <2> QED
    BY <2>1, <2>6
<1>14. Wanted' = W
  BY <1>1, <1>4 DEF Wanted
<1>15. pc' \in {"next", "list"} /\ (pc' = "list" => node.dir)
  BY <1>2 DEF AfterVisit
<1> QED
  BY <1>1, <1>4, <1>6, <1>13, <1>14, <1>15 DEF PlainInv

\* A listing owes what is below the directory.
LEMMA ListExact ==
  ASSUME Regular, IInv, ExactInv, List
  PROVE  ExactInv'
<1>1. /\ pc = "list" /\ UNCHANGED << hist, job, node, out, status, gone >> /\ Types
      /\ HistInv /\ node.depth # 0
  BY DEF IInv, DepthInv, List
<1> SUFFICES ASSUME Plain'
             PROVE  PlainInv'
  BY <1>1 DEF ExactInv
<1>2. PICK a \in Files(node.path) :
        /\ stack' = Append(stack, [path  |-> node.path,
                                   depth |-> Below1(node.depth),
                                   files |-> a.files])
        /\ whole' = (whole /\ a.whole)
        /\ pc' = "next"
        /\ UNCHANGED err
  BY DEF List, Fail, Plain
<1>3. a.files \in Seq(ListItem) /\ a.whole \in BOOLEAN /\ whole \in BOOLEAN
  BY <1>1, FilesFacts DEF HistInv, Types
<1>4. a.whole /\ whole
  BY <1>2, <1>3 DEF Plain
<1>5. Plain /\ PlainInv /\ hist = << Tree0 >>
  BY <1>1, <1>2, <1>4 DEF Plain, ExactInv
<1>6. PICK p, d, W, B : p = node.path /\ d = node.depth /\ W = Wanted /\ B = AtHand
  OBVIOUS
<1>7. p \in Path /\ d \in Depth /\ d # 0 /\ stack \in Seq(Frame)
  BY <1>1, <1>6, TypeFacts DEF Types
<1>8. /\ Real(p, node.dir) /\ node.dir /\ p \in Told(out)
      /\ Accounts(W, out, B, stack)
  BY <1>1, <1>5, <1>6 DEF PlainInv
<1>9. PICK i \in Ids(Tree0) : PathOf(Tree0)[i] = p /\ IsFolder(Tree0, i)
  BY <1>8 DEF Real
<1>10. a.files = Listing(Tree0, i)
  BY <1>4, <1>5, <1>6, <1>9, FilesOf
<1>11. PICK f : f = [path |-> p, depth |-> Below1(d), files |-> Listing(Tree0, i)]
  OBVIOUS
<1>12. f \in Frame /\ f.path = p
  <2>1. Below1(d) \in Depth
    BY <1>7 DEF Below1, Depth
  <2> QED
    BY <1>3, <1>7, <1>10, <1>11, <2>1 DEF Frame
<1>13. FrameReal(f)
  BY <1>9, <1>11, ListingReal
<1>14. (\A q : q \in Sub(p, d) <=> q = p \/ q \in Owed(f)) /\ p \notin Owed(f)
  BY <1>7, <1>9, <1>11, SubSplit
<1>15. \A q : q \in Owed(f) <=> q \in B
  <2>1. \A q : q \in B <=> q \in Sub(p, d) /\ q # p
    BY <1>1, <1>6 DEF AtHand
  <2> QED
    BY <1>14, <2>1
<1>16. \A q : q \notin AtHand'
  BY <1>2 DEF AtHand
<1>17. Accounts(W, out, AtHand', stack')
  <2>1. PICK B2, s2 : B2 = AtHand' /\ s2 = stack'
    OBVIOUS
  <2>2. s2 = Append(stack, f) /\ \A q : q \notin B2
    BY <1>2, <1>6, <1>10, <1>11, <1>16, <2>1
  <2>3. Accounts(W, out, B2, s2)
    BY <1>7, <1>8, <1>12, <1>13, <1>15, <2>2, AccountPush
  <2> QED
    BY <2>1, <2>3
<1>18. Wanted' = W
  BY <1>1, <1>6 DEF Wanted
<1> QED
  BY <1>1, <1>2, <1>17, <1>18 DEF PlainInv

\* The next entry of a listing is at hand, and its directory was told of.
LEMMA NextFileExact ==
  ASSUME Regular, IInv, ExactInv, NextFile
  PROVE  ExactInv'
<1>1. /\ pc = "next" /\ UNCHANGED << hist, job, out, err, status, whole, gone >> /\ Types
  BY DEF IInv, NextFile
<1> SUFFICES ASSUME Plain'
             PROVE  PlainInv'
  BY <1>1 DEF ExactInv
<1>2. Plain /\ PlainInv
  BY <1>1 DEF Plain, ExactInv
<1>3. PICK W, B : W = Wanted /\ B = AtHand
  OBVIOUS
<1>4. Accounts(W, out, B, stack) /\ stack \in Seq(Frame) /\ Wanted' = W
  BY <1>1, <1>2, <1>3 DEF PlainInv, Types, Wanted
<1>5. \A q : q \notin B
  BY <1>1, <1>3 DEF AtHand
<1>6. ASSUME pc' \in {"next", "close"}
      PROVE  AtHand' = B
  <2>1. AtHand' = {}
    BY <1>6 DEF AtHand
  <2> QED
    BY <1>5, <2>1
<1>7. CASE stack = << >> /\ pc' = "close" /\ UNCHANGED << node, stack >>
  BY <1>1, <1>4, <1>6, <1>7 DEF PlainInv
<1>8. ASSUME NEW top, top = Last(stack), stack # << >>, top.files = << >>,
             stack' = Front(stack), UNCHANGED << pc, node >>
      PROVE  PlainInv'
  <2>1. Accounts(W, out, B, Front(stack))
    BY <1>4, <1>8, AccountPop
  <2> QED
    BY <1>1, <1>4, <1>6, <1>8, <2>1 DEF PlainInv
<1>9. ASSUME NEW top, top = Last(stack), stack # << >>, top.files # << >>,
             stack' = Append(Front(stack), [top EXCEPT !.files = Tail(top.files)]),
             node' = [path  |-> Append(top.path, Head(top.files).name),
                      dir   |-> Head(top.files).dir,
                      depth |-> top.depth],
             pc' = "visit"
      PROVE  PlainInv'
  <2>1. top \in Frame
    BY <1>4, <1>9, FrontFacts
  <2>2. PICK rest, file : rest = Tail(top.files) /\ file = Head(top.files)
    OBVIOUS
  <2>3. /\ top.path \in Path /\ top.depth \in Depth
        /\ rest \in Seq(ListItem) /\ file \in ListItem
    BY <1>9, <2>1, <2>2, HeadTailProperties DEF Frame
  <2>4. PICK g : g = [top EXCEPT !.files = rest]
    OBVIOUS
  <2>5. g \in Frame /\ g.path = top.path /\ g.depth = top.depth /\ g.files = rest
    BY <2>1, <2>3, <2>4 DEF Frame
  <2>6. PICK item : item = Append(top.path, file.name)
    OBVIOUS
  <2>7. Without(top, g, item)
    BY <1>9, <2>2, <2>5, <2>6 DEF Without
  <2>8. node'.path = item /\ node'.dir = file.dir /\ node'.depth = top.depth
    BY <1>9, <2>2, <2>6
  <2>9. \A q : q \in AtHand' <=> q \in Sub(item, top.depth)
    BY <1>9, <2>8 DEF AtHand
  <2>10. Accounts(W, out, AtHand', stack') /\ Real(item, file.dir) /\ top.path \in Told(out)
    <3>1. PICK B2, s2 : B2 = AtHand' /\ s2 = stack'
      OBVIOUS
    <3>2. s2 = Append(Front(stack), g) /\ \A q : q \in B2 <=> q \in Sub(item, top.depth)
      BY <1>9, <2>2, <2>4, <2>9, <3>1
    <3>3. Accounts(W, out, B2, s2) /\ Real(item, Head(top.files).dir) /\ top.path \in Told(out)
      BY <1>4, <1>5, <1>9, <2>5, <2>7, <3>2, AccountNext
    <3> QED
      BY <2>2, <3>1, <3>3
  <2>11. DirOf(item) = top.path
    <3>1. file.name \in Component
      BY <2>3 DEF ListItem
    <3> QED
      BY <2>3, <2>6, <3>1, DirOfLonger
  <2> QED
    BY <1>1, <1>4, <1>9, <2>8, <2>10, <2>11 DEF PlainInv, Preceded
<1> QED
  BY <1>7, <1>8, <1>9 DEF NextFile

\* When the walk has come to its end everything has been told of.
LEMMA CloseExact ==
  ASSUME Regular, IInv, ExactInv, Close
  PROVE  ExactInv'
<1>1. /\ pc = "close" /\ pc' = "done" /\ UNCHANGED << hist, job, node, stack, whole >> /\ Types
      /\ (gone \/ Opened)
  BY DEF IInv, AnswerInv, Close
<1> SUFFICES ASSUME Plain', Started'
             PROVE  Orderly(out', Wanted') /\ Told(out') = Wanted'
  BY <1>1 DEF ExactInv, PlainInv
<1>2. PICK lost \in {gone, TRUE} :
        /\ out' = out \o (IF Started /\ ~lost THEN << EndTag >> ELSE << >>)
                      \o (IF (err \/ (Started /\ lost)) /\ ~lost THEN << PlainText >> ELSE << >>)
        /\ err' = (err \/ (Started /\ lost))
  BY DEF Close
<1>3. ~err /\ ~(Started /\ lost)
  BY <1>2 DEF Plain
<1>4. Plain /\ PlainInv
  BY <1>1, <1>3 DEF Plain, ExactInv
<1>5. PICK W : W = Wanted /\ W = Wanted'
  BY <1>1 DEF Wanted
<1>6. Accounts(W, out, AtHand, stack) /\ stack = << >>
  BY <1>1, <1>4, <1>5 DEF PlainInv
<1>7. Orderly(out, W) /\ Told(out) = W
  <2>1. Orderly(out, W) /\ Shares(W, Told(out), AtHand, Len(stack), Owing(stack))
    BY <1>6 DEF Accounts
  <2>2. \A k \in 1 .. Len(stack) : FALSE
    BY <1>6
  <2>3. \A q : q \notin AtHand
    BY <1>1 DEF AtHand
  <2>4. \A q : q \in W <=> q \in Told(out)
    BY <2>1, <2>2, <2>3 DEF Shares
  <2> QED
    BY <2>1, <2>4
<1>8. out \in Seq(Sent)
  BY <1>1 DEF Types
<1>9. CASE Started
  <2>1. ~lost /\ out' = out \o << EndTag >> \o << >>
    BY <1>2, <1>3, <1>9
  <2>2. PICK e \in Sent : e = EndTag /\ e.kind # "response"
    BY SentFacts
  <2>3. out \o << e >> = Append(out, e)
    BY <1>8, AppendIsConcat
  <2>4. out' = Append(out, e)
    <3>1. PICK o2 \in Seq(Sent) : o2 = Append(out, e)
      BY <1>8, AppendProperties
    <3>2. o2 \o << >> = o2
      BY ConcatEmptySeq
    <3> QED
      BY <2>1, <2>2, <2>3, <3>1, <3>2
  <2> QED
    BY <1>5, <1>7, <1>8, <2>2, <2>4, Silent
<1>10. CASE ~Started
  <2>1. out' = out \o << >> \o << >>
    BY <1>2, <1>3, <1>10
  <2>2. out' = out
    BY <1>8, <2>1, ConcatEmptySeq
  <2> QED
    BY <1>5, <1>7, <2>2
<1> QED
  BY <1>9, <1>10

\* A walk during which the drive changes promises nothing.
LEMMA ElsewhereExact ==
  ASSUME IInv, Elsewhere
  PROVE  ExactInv'
<1>1. Len(hist) >= 1 /\ hist \in Seq(Tree) /\ Len(hist) \in Nat
  <2>1. MaxHist \in Nat
    BY WalkFSAssumption
  <2> QED
    BY <2>1 DEF IInv, HistInv
<1>2. PICK t : hist' = Append(hist, t)
  BY DEF Elsewhere
<1>3. Len(hist') = Len(hist) + 1
  BY <1>1, <1>2
<1>4. Len(hist') # 1
  BY <1>1, <1>3
<1> QED
  BY <1>4 DEF ExactInv, Plain

\* Every step keeps the account.
LEMMA NextExact ==
  ASSUME Regular, IInv, ExactInv, [Next]_vars
  PROVE  ExactInv'
<1>1. CASE UNCHANGED vars
  BY <1>1 DEF vars, ExactInv, Plain, PlainInv, Wanted, AtHand, Started
<1> QED
  BY <1>1, LookupExact, ParseExact, VisitExact, ListExact, NextFileExact, CloseExact,
     ElsewhereExact DEF Next, Step

\* A walk that nothing has kept from the whole drive answers for exactly what
\* was asked for.
LEMMA ExactMeans ==
  ASSUME Regular, IInv, ExactInv
  PROVE  AnswerExact
<1> SUFFICES ASSUME pc = "done", ~err, Started, Len(hist) = 1, whole,
                    NEW paths, paths = { PathOf(tree)[i] : i \in DOMAIN tree \cup {RootId} }
             PROVE  /\ { out[k].path : k \in Visited } = { p \in paths : Within(p, job.depth) }
                    /\ \A k, l \in Visited : k # l => out[k].path # out[l].path
                    /\ \A k, l \in Visited : out[l].path = DirOf(out[k].path) => l <= k
  BY DEF AnswerExact
<1>1. Orderly(out, Wanted) /\ Told(out) = Wanted /\ hist = << Tree0 >>
  BY DEF ExactInv, Plain, PlainInv
<1>2. Visited = Responses(out) /\ { out[k].path : k \in Visited } = Told(out)
  BY DEF Visited, Responses, Told
<1>3. paths = AllPaths
  BY <1>1 DEF tree, AllPaths, Ids
<1>4. Wanted = { p \in paths : Within(p, job.depth) }
  BY <1>3 DEF Wanted, Sub, Within
<1> QED
  BY <1>1, <1>2, <1>4 DEF Orderly

\* A PROPFIND that ends without an error, on a drive that is a tree and did not
\* change, and none of whose lookups and pages was refused, has told of every
\* entry at or below the path within the depth, of each once, and of none before
\* the directory it is in, however many pages the listings have.
THEOREM AnswersAreExact ==
  Regular => (Spec => []AnswerExact)
<1> SUFFICES ASSUME Regular
             PROVE  Spec => []AnswerExact
  OBVIOUS
<1>1. Init => IInv /\ ExactInv
  BY InitInv, InitExact
<1>2. IInv /\ ExactInv /\ [Next]_vars => (IInv /\ ExactInv)'
  BY NextInv, NextExact
<1>3. IInv /\ ExactInv => AnswerExact
  BY ExactMeans
<1> QED
  BY <1>1, <1>2, <1>3, PTL DEF Spec
==============================================================================
