------------------------------ MODULE Drive115 ------------------------------
(***************************************************************************)
(* The 115 drive behind the web API of 115/api.go: a tree of entries.  The *)
(* service is not in the repository; these operators are what              *)
(* 115/client.go takes its answers to mean.  A tree maps the id of every   *)
(* entry to its record; id 0 is the root directory, which is in no tree.   *)
(* Nothing stops two entries of a directory from having the same name.     *)
(***************************************************************************)
EXTENDS Paths, SequencesExt

RootId == 0

\* What the code reads as the id in an answer without one (state false, or no
\* 2xx status): the empty json.Number.  The service knows no entry of that id.
NoId == -1

\* An entry of the tree, and one as a listing shows it.
Entry(name, parent, dir) == [name |-> name, parent |-> parent, dir |-> dir]
Listed(t, i) == [id |-> i, name |-> t[i].name, dir |-> t[i].dir]
RootEntry == [id |-> RootId, name |-> "", dir |-> TRUE]

\* The path of every entry, and the ids on its way from the root.
PathOf(t) ==
  LET p[i \in DOMAIN t \cup {RootId}] ==
        IF i = RootId THEN Root ELSE Append(p[t[i].parent], t[i].name)
  IN  p
Lineage(t) ==
  LET up[i \in DOMAIN t \cup {RootId}] ==
        IF i = RootId THEN {RootId} ELSE up[t[i].parent] \cup {i}
  IN  up

Children(t, dir) == { i \in DOMAIN t : t[i].parent = dir }
IsFolder(t, id)  == id = RootId \/ (id \in DOMAIN t /\ t[id].dir)

\* A drive whose entries have these names: finite, and every entry, its
\* parent included, known by a number of its own; 0 is left to the root.
IsDrive(t, names) ==
  /\ IsFiniteSet(DOMAIN t)
  /\ DOMAIN t \subseteq Nat \ {RootId}
  /\ t \in [DOMAIN t -> [name : names, parent : Nat, dir : BOOLEAN]]

\* A drive whose entries hang below the root: each is in a directory, nearer to
\* it, and no directory has two entries of one name.
IsTree(t) ==
  /\ \E level \in [DOMAIN t \cup {RootId} -> 0 .. Cardinality(DOMAIN t)] :
       \A i \in DOMAIN t : IsFolder(t, t[i].parent) /\ level[t[i].parent] < level[i]
  /\ \A i, j \in DOMAIN t : t[i].parent = t[j].parent /\ t[i].name = t[j].name => i = j

\* files/getid: a directory with this path; 0 for the root, which is in no
\* tree, and when there is none (MakeDir tells a directory that exists by an id
\* that is not 0).
DirIDs(t, path) ==
  LET found == { i \in DOMAIN t : /\ t[i].dir
                                  /\ path # Root /\ PathOf(t)[i] = path }
  IN  IF found = {} THEN {RootId} ELSE found

\* What APIGetDirID may answer.
DirIDAnswers(t, path) == DirIDs(t, path) \cup {NoId}

\* files: everything in a directory, the newest first (order=user_ptime,
\* asc=0), and the page of it from offset.
Rank(ids, i) == Cardinality({ j \in ids : j >= i })
Listing(t, dir) ==
  LET ids == Children(t, dir)
  IN  [k \in 1 .. Cardinality(ids) |->
         Listed(t, CHOOSE i \in ids : Rank(ids, i) = k)]
Page(t, dir, size, offset) ==
  LET all == Listing(t, dir)
  IN  SubSeq(all, offset + 1, Min({offset + size, Len(all)}))

\* The trees a successful rb/delete, files/add, files/move or batch_rename
\* leaves: none when the service refuses the call.
Deleted(t, id) ==
  IF id \in DOMAIN t
    THEN {[i \in { j \in DOMAIN t : id \notin Lineage(t)[j] } |-> t[i]]}
    ELSE {}
Added(t, id, parent, name) ==
  IF IsFolder(t, parent)
    THEN {[i \in DOMAIN t \cup {id} |->
             IF i = id THEN Entry(name, parent, TRUE) ELSE t[i]]}
    ELSE {}
Moved(t, id, parent) ==
  IF id \in DOMAIN t /\ IsFolder(t, parent) /\ id \notin Lineage(t)[parent]
    THEN {[t EXCEPT ![id].parent = parent]}
    ELSE {}
Renamed(t, id, name) ==
  IF id \in DOMAIN t THEN {[t EXCEPT ![id].name = name]} ELSE {}

\* What a caller of an API function that changes the tree may get: the error
\* of a call that did not arrive or whose answer was lost, an answer with
\* state false, or the answer of a change that was made.
Answers(t, changed) ==
       {[answer |-> "err", tree |-> t], [answer |-> "refused", tree |-> t]}
  \cup [answer : {"ok", "err"}, tree : changed]
=============================================================================
