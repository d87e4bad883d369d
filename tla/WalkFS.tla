------------------------------- MODULE WalkFS -------------------------------
(***************************************************************************)
(* webdav/webdav.go, file.go and xml.go: one PROPFIND.  handlePropfind     *)
(* looks the resource up, walkFS visits it and what is below it, and a     *)
(* multistatusWriter sends each visited resource at once, before it is     *)
(* known how the walk goes on.  The drive changes while it is walked.      *)
(*                                                                         *)
(* hist is the sequence of the drive's trees.  A listing may come from the *)
(* drive client's cache, so GetFiles may have read it at any time, each    *)
(* page from a later tree than the one before, or only in part.  whole and *)
(* gone are history: was every lookup given an id and every page answered, *)
(* and has the client of the request gone away?                            *)
(***************************************************************************)
EXTENDS Drive115

CONSTANTS
  Job,        \* the requests: [path, depth]
  Tree0,      \* the drive at the start
  Shared,     \* does the drive change?
  PageSize,   \* the entries a page of a listing holds
  MaxHist,    \* bound: how many trees the drive goes through
  MaxVisits   \* bound: how many resources a walk visits

infiniteDepth == -1

ASSUME WalkFSAssumption ==
  /\ Job \subseteq [path : Name, depth : {0, 1, infiniteDepth}]
  /\ IsDrive(Tree0, Component)
  /\ Shared \in BOOLEAN
  /\ PageSize \in Nat \ {0}
  /\ MaxHist \in Nat \ {0}
  /\ MaxVisits \in Nat

VARIABLES
  hist,     \* the trees the drive has been, the current one last
  pc,       \* where handlePropfind and walkFS are
  job,      \* the request
  node,     \* walkFS's name, fi and depth: [path, dir, depth]
  stack,    \* the listings being walked, the innermost last: [path, depth, files]
  out,      \* what was sent: the header, a response, the end tag, a plain text
  err,      \* is walkErr or closeErr set?
  status,   \* what WriteHeader was called with, in order
  whole, gone

vars == << hist, pc, job, node, stack, out, err, status, whole, gone >>

tree == hist[Len(hist)]

Header    == [kind |-> "header",   path |-> Root]
Resp(p)   == [kind |-> "response", path |-> p]
EndTag    == [kind |-> "end",      path |-> Root]
PlainText == [kind |-> "text",     path |-> Root]

\* Is multistatusWriter.enc set?
Started == \E k \in DOMAIN out : out[k] = Header

Visited == { k \in DOMAIN out : out[k].kind = "response" }

Init ==
  /\ hist = << Tree0 >>
  /\ pc = "lookup"
  /\ job \in Job
  /\ node = [path |-> job.path, dir |-> TRUE, depth |-> job.depth]
  /\ stack = << >>
  /\ out = << >>
  /\ err = FALSE
  /\ status = << >>
  /\ whole = TRUE
  /\ gone = FALSE

-----------------------------------------------------------------------------
(* The request.                                                            *)

\* A page the service refuses has no entries, and its count is 0.
Refused == 0

\* The count of entries that comes with a page of directory id of tree k.
Count(k, id) == IF k = Refused THEN 0 ELSE Len(Listing(hist[k], id))

\* How often the page loop of GetFiles may go round.
Turns(id) == 1 .. 1 + Max({ Count(k, id) \div PageSize : k \in DOMAIN hist })

\* The page loop, from tree j on, each answer naming the offset it was asked for:
\* page i is one of the tree loop[i], which is no
\* older than those before, or refused.  It ends with the first that reaches its
\* count; the state of an answer is not looked at.
Loops(j, id) ==
  { loop \in UNION { [1 .. n -> {Refused} \cup (j .. Len(hist))] : n \in Turns(id) } :
      \A i \in DOMAIN loop :
         /\ i * PageSize >= Count(loop[i], id) <=> i + 1 \notin DOMAIN loop
         /\ loop[i] # Refused => \A l \in 1 .. i : loop[l] <= loop[i] }

\* What a loop of n pages has read: in each place the entry its page shows there.
\* Every page but the last is full; the last reaches its count, if it is not past it.
Read(loop, n, id) ==
  [p \in 1 .. Max({(n - 1) * PageSize, Count(loop[n], id)}) |->
     Listing(hist[loop[(p - 1) \div PageSize + 1]], id)[p]]

\* What GetFiles(dir) may answer without an error, now or out of the cache: the
\* directory is looked up in some tree, and its pages are read from there on.  It
\* is whole if the lookup gave an id, and if the service did not refuse a page.
Files(dir) ==
  UNION { UNION { { [files |-> Read(loop, Len(loop), id),
                     whole |-> id # NoId /\ Last(loop) # Refused] : loop \in Loops(j, id) } :
                  id \in DirIDAnswers(hist[j], dir) } : j \in DOMAIN hist }

\* ServeHTTP writes a status, and its text, unless it is 0.
Answer(code) ==
  /\ pc' = "done"
  /\ status' = Append(status, code)
  /\ out' = Append(out, PlainText)

\* GetFile(reqPath): the entry of that name in its directory's listing.
Lookup ==
  /\ pc = "lookup"
  /\ \/ /\ job.path = Root
        /\ pc' = "parse"
        /\ UNCHANGED << node, out, status, whole >>
     \/ /\ job.path # Root
        /\ Answer(405)
        /\ UNCHANGED << node, whole >>
     \/ /\ job.path # Root
        /\ \E a \in Files(DirOf(job.path)) :
             LET hits == { i \in DOMAIN a.files : a.files[i].name = BaseOf(job.path) }
             IN  /\ whole' = (whole /\ a.whole)
                 /\ IF hits = {}
                      THEN Answer(404) /\ UNCHANGED node
                      ELSE /\ pc' = "parse"
                           /\ node' = [node EXCEPT !.dir = a.files[Min(hits)].dir]
                           /\ UNCHANGED << out, status >>
  /\ UNCHANGED << hist, job, stack, err, gone >>

\* The Depth header and the body: one that is not valid is answered 400.
Parse ==
  /\ pc = "parse"
  /\ \/ pc' = "visit" /\ UNCHANGED << out, status >>
     \/ Answer(400)
  /\ UNCHANGED << hist, job, node, stack, err, whole, gone >>

\* The walk fails: walkErr is set.
Fail == err' = TRUE /\ pc' = "close"

\* Where walkFS goes on once walkFn has returned nil for n.
AfterVisit(n) == IF ~n.dir \/ n.depth = 0 THEN "next" ELSE "list"

\* walkFn: multistatusWriter.write, which starts the answer with its first
\* response.  A write fails when the client is gone.
Visit ==
  /\ pc = "visit"
  /\ Cardinality(Visited) < MaxVisits
  /\ \/ /\ out' = (IF Started THEN out ELSE Append(out, Header)) \o << Resp(node.path) >>
        /\ status' = IF Started THEN status ELSE Append(status, 207)
        /\ pc' = AfterVisit(node)
        /\ UNCHANGED << err, gone >>
     \/ /\ gone' = TRUE
        /\ status' = IF Started THEN status ELSE Append(status, 207)
        /\ Fail
        /\ UNCHANGED out
  /\ UNCHANGED << hist, job, node, stack, whole >>

\* Mutant: the depth is counted down, and infinity with it.
Below1_Decrements(depth) == depth - 1

\* Mutant: depth 1 goes on below the children.
Below1_Same(depth) == depth

\* The depth of a directory's entries.
Below1(depth) == IF depth = 1 THEN 0 ELSE depth

\* fs.GetFiles(name).  Its error is given to walkFn, which returns it.
List ==
  /\ pc = "list"
  /\ \/ Fail /\ UNCHANGED << stack, whole >>
     \/ \E a \in Files(node.path) :
          /\ stack' = Append(stack, [path  |-> node.path,
                                     depth |-> Below1(node.depth),
                                     files |-> a.files])
          /\ whole' = (whole /\ a.whole)
          /\ pc' = "next"
          /\ UNCHANGED err
  /\ UNCHANGED << hist, job, node, out, status, gone >>

\* Mutant: the loop does not move on.
NextFile_Repeats ==
  LET top == Last(stack)
  IN  /\ pc = "next"
      /\ \/ stack = << >> /\ pc' = "close" /\ UNCHANGED node
         \/ /\ stack # << >> /\ top.files = << >>
            /\ UNCHANGED << pc, node >>
         \/ /\ stack # << >> /\ top.files # << >>
            /\ node' = [path  |-> Append(top.path, Head(top.files).name),
                        dir   |-> Head(top.files).dir,
                        depth |-> top.depth]
            /\ pc' = "visit"
      /\ UNCHANGED << hist, job, stack, out, err, status, whole, gone >>

\* Mutant: the name is joined to the resource visited last.
NextFile_JoinsNode ==
  LET top == Last(stack)
  IN  /\ pc = "next"
      /\ \/ stack = << >> /\ pc' = "close" /\ UNCHANGED << node, stack >>
         \/ /\ stack # << >> /\ top.files = << >>
            /\ stack' = Front(stack)
            /\ UNCHANGED << pc, node >>
         \/ /\ stack # << >> /\ top.files # << >>
            /\ stack' = Append(Front(stack), [top EXCEPT !.files = Tail(@)])
            /\ node' = [path  |-> Append(node.path, Head(top.files).name),
                        dir   |-> Head(top.files).dir,
                        depth |-> top.depth]
            /\ pc' = "visit"
      /\ UNCHANGED << hist, job, out, err, status, whole, gone >>

\* The loop over a directory's entries: the next one, or back to the
\* directory above.
NextFile ==
  LET top == Last(stack)
  IN  /\ pc = "next"
      /\ \/ stack = << >> /\ pc' = "close" /\ UNCHANGED << node, stack >>
         \/ /\ stack # << >> /\ top.files = << >>
            /\ stack' = Front(stack)
            /\ UNCHANGED << pc, node >>
         \/ /\ stack # << >> /\ top.files # << >>
            /\ stack' = Append(Front(stack), [top EXCEPT !.files = Tail(@)])
            /\ node' = [path  |-> Append(top.path, Head(top.files).name),
                        dir   |-> Head(top.files).dir,
                        depth |-> top.depth]
            /\ pc' = "visit"
      /\ UNCHANGED << hist, job, out, err, status, whole, gone >>

\* Mutant: an error of the walk is returned before the answer is closed.
Close_Returns ==
  /\ pc = "close"
  /\ out' = out \o (IF Started /\ ~err THEN << EndTag >> ELSE << >>)
                \o (IF err THEN << PlainText >> ELSE << >>)
  /\ status' = IF err THEN Append(status, 500) ELSE status
  /\ pc' = "done"
  /\ UNCHANGED << hist, job, node, stack, err, whole, gone >>

\* multistatusWriter.close; then handlePropfind returns 500 if anything has
\* failed and ServeHTTP writes it, whatever has been sent before.
Close ==
  /\ pc = "close"
  /\ \E lost \in {gone, TRUE} :
       LET failed == err \/ (Started /\ lost)
       IN  /\ out' = out \o (IF Started /\ ~lost THEN << EndTag >> ELSE << >>)
                         \o (IF failed /\ ~lost THEN << PlainText >> ELSE << >>)
           /\ status' = IF failed THEN Append(status, 500) ELSE status
           /\ gone' = lost
           /\ err' = failed
  /\ pc' = "done"
  /\ UNCHANGED << hist, job, node, stack, whole >>

\* Meanwhile an entry of the drive is removed, or moved to another directory.
Elsewhere ==
  /\ Shared /\ Len(hist) < MaxHist
  /\ \E id \in DOMAIN tree :
       \E t \in Deleted(tree, id)
                \cup UNION { Moved(tree, id, d) : d \in DOMAIN tree \cup {RootId} } :
         hist' = Append(hist, t)
  /\ UNCHANGED << pc, job, node, stack, out, err, status, whole, gone >>

Step == Lookup \/ Parse \/ Visit \/ List \/ NextFile \/ Close

Next == Step \/ Elsewhere

Spec == Init /\ [][Next]_vars

\* The request's goroutine runs on, and GetFiles returns.
FairSpec == Spec /\ WF_vars(Step)

-----------------------------------------------------------------------------
(* Properties.                                                             *)

Depth == {0, 1, infiniteDepth}

\* The types of the walk's locals and of what was sent.
TypeOK ==
  /\ Len(hist) \in 1 .. MaxHist
  /\ pc \in {"lookup", "parse", "visit", "list", "next", "close", "done"}
  /\ job \in Job
  /\ node \in [path : Seq(Component), dir : BOOLEAN, depth : Depth]
  /\ \A k \in DOMAIN stack : stack[k].path \in Seq(Component) /\ stack[k].depth \in Depth
  /\ \A k \in DOMAIN out : out[k].kind \in {"header", "response", "end", "text"}
  /\ err \in BOOLEAN /\ whole \in BOOLEAN /\ gone \in BOOLEAN
  /\ status \in Seq({207, 400, 404, 405, 500})

\* Is path at most depth levels below the request's?
Within(path, depth) ==
  /\ IsPrefix(job.path, path)
  /\ depth = infiniteDepth \/ Len(path) <= Len(job.path) + depth

\* A PROPFIND that ends without an error, on a drive that did not change, and
\* none of whose lookups and pages was refused, has told of every entry at or
\* below the path within the depth, of each once, and of none before the
\* directory it is in (file.go:25-63, webdav.go:261-293).  A refused page is no
\* error of GetFiles (client.go:97-116): its listing is cut short, and so is the
\* answer.
AnswerExact ==
  pc = "done" /\ ~err /\ Started /\ Len(hist) = 1 /\ whole =>
    LET paths == { PathOf(tree)[i] : i \in DOMAIN tree \cup {RootId} }
        at(k) == out[k].path
    IN  /\ { at(k) : k \in Visited } = { p \in paths : Within(p, job.depth) }
        /\ \A k, l \in Visited : k # l => at(k) # at(l)
        /\ \A k, l \in Visited : at(l) = DirOf(at(k)) => l <= k

\* Is there a directory that an entry at path may be in?
HasDir(t, path) ==
  \E i \in DOMAIN t \cup {RootId} : IsFolder(t, i) /\ PathOf(t)[i] = DirOf(path)

\* At the start the drive is a tree, and the directory of every request's path
\* is in it.
Regular == IsTree(Tree0) /\ \A j \in Job : HasDir(Tree0, j.path)

\* Whatever the drive becomes while it is walked, no resource outside the
\* depth the client asked for is sent (file.go:39-44).
DepthRespected == \A k \in Visited : Within(out[k].path, job.depth)

\* Every answer a client gets to the end is one of: a status of its own, with
\* its text; or the status 207, then one header, the responses and one end
\* tag, closed on every path of the walk's failure as well (webdav.go:293-301,
\* xml.go:277-352).  The text of a status 500 may still follow the end tag.
AnswerWellFormed ==
  pc = "done" /\ ~gone =>
    IF Started
      THEN /\ status[1] = 207
           /\ out[1] = Header
           /\ \E e \in DOMAIN out :
                /\ out[e] = EndTag
                /\ \A k \in 2 .. e - 1 : out[k].kind = "response"
                /\ \A k \in e + 1 .. Len(out) : out[k] = PlainText
      ELSE out = << PlainText >> /\ Len(status) = 1 /\ status[1] # 207

\* A PROPFIND of a path that exists is answered, unless the drive changes
\* under it: the walk ends.
WalkEnds == (pc = "lookup") ~> (pc = "done" \/ Len(hist) > 1)

\* How deep the drive is, or has been.
Height == Max({0} \cup UNION { { Len(PathOf(hist[j])[i]) : i \in DOMAIN hist[j] } :
                               j \in DOMAIN hist })

\* "walkFS traverses filesystem fs starting at name" (file.go:25): it goes no
\* deeper below name than the file system is deep, and so comes to an end.
WalkNoDeeperThanDrive ==
  \A k \in Visited : Len(out[k].path) <= Len(job.path) + Height
=============================================================================
