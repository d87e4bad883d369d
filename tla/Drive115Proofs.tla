--------------------------- MODULE Drive115Proofs ---------------------------
(***************************************************************************)
(* What the answers of the drive are worth to a caller: the operators of   *)
(* Drive115, for every drive.                                              *)
(***************************************************************************)
EXTENDS Drive115, FiniteSetTheorems, SequenceTheorems, WellFoundedInduction, TLAPS

\* The ranks of a finite set of ids are the numbers from 1 to its size, each
\* of one id: what makes a listing in that order show every entry once.
LEMMA RankBijection ==
  ASSUME NEW ids \in SUBSET Int, IsFiniteSet(ids)
  PROVE  /\ Cardinality(ids) \in Nat
         /\ \A i \in ids : Rank(ids, i) \in 1 .. Cardinality(ids)
         /\ \A i, j \in ids : i < j => Rank(ids, j) < Rank(ids, i)
         /\ \A k \in 1 .. Cardinality(ids) : \E i \in ids : Rank(ids, i) = k
<1> DEFINE n == Cardinality(ids)
           up(i) == { j \in ids : j >= i }
           f == [i \in ids |-> Rank(ids, i)]
<1>1. n \in Nat
  BY FS_CardinalityType
<1>2. ASSUME NEW i \in ids
      PROVE  Rank(ids, i) \in 1 .. n
  <2>1. up(i) \in SUBSET ids /\ i \in up(i)
    OBVIOUS
  <2>2. IsFiniteSet(up(i)) /\ Cardinality(up(i)) <= n
    BY <2>1, FS_Subset
  <2>3. Cardinality(up(i)) \in Nat /\ Cardinality(up(i)) # 0
    BY <2>1, <2>2, FS_CardinalityType, FS_EmptySet
  <2> QED
    BY <1>1, <2>2, <2>3 DEF Rank
<1>3. ASSUME NEW i \in ids, NEW j \in ids, i < j
      PROVE  Rank(ids, j) < Rank(ids, i)
  <2>1. up(i) \in SUBSET ids /\ i \in up(i)
    OBVIOUS
  <2>2. up(j) \in SUBSET up(i)
    <3> SUFFICES ASSUME NEW k \in ids, k >= j
                 PROVE  k >= i
      OBVIOUS
    <3> QED
      BY <1>3
  <2>3. i \notin up(j)
    BY <1>3
  <2>4. IsFiniteSet(up(i))
    BY <2>1, FS_Subset
  <2>5. Cardinality(up(j)) <= Cardinality(up(i)) /\ Cardinality(up(j)) # Cardinality(up(i))
    BY <2>1, <2>2, <2>3, <2>4, FS_Subset
  <2>6. Rank(ids, i) \in 1 .. n /\ Rank(ids, j) \in 1 .. n
    BY <1>2
  <2> QED
    BY <1>1, <2>5, <2>6 DEF Rank
<1>4. f \in [ids -> 1 .. n]
  BY <1>2
<1>5. \A i, j \in ids : f[i] = f[j] => i = j
  <2> SUFFICES ASSUME NEW i \in ids, NEW j \in ids, f[i] = f[j], i # j
               PROVE  FALSE
    OBVIOUS
  <2>1. i < j \/ j < i
    OBVIOUS
  <2>2. Rank(ids, i) \in 1 .. n /\ Rank(ids, j) \in 1 .. n
    BY <1>2
  <2> QED
    BY <1>1, <1>3, <2>1, <2>2
<1>6. f \in Injection(ids, 1 .. n)
  BY <1>4, <1>5 DEF Injection, IsInjective
<1>7. IsFiniteSet(1 .. n) /\ Cardinality(1 .. n) = n
  BY <1>1, FS_Interval
<1>8. f \in Surjection(ids, 1 .. n)
  BY <1>6, <1>7, FS_Injection
<1>9. \A k \in 1 .. n : \E i \in ids : Rank(ids, i) = k
  BY <1>8 DEF Surjection
<1> QED
  BY <1>1, <1>2, <1>3, <1>9

\* A finite set of numbers that is not empty has a largest and a smallest.
LEMMA MaxMin ==
  ASSUME NEW ids \in SUBSET Int, IsFiniteSet(ids), ids # {}
  PROVE  /\ Max(ids) \in ids /\ \A j \in ids : j <= Max(ids)
         /\ Min(ids) \in ids /\ \A j \in ids : Min(ids) <= j
<1> DEFINE n == Cardinality(ids)
<1>1. n \in Nat /\ n # 0
  BY FS_CardinalityType, FS_EmptySet
<1>2. PICK i \in ids : Rank(ids, i) = 1
  <2>1. 1 \in 1 .. n
    BY <1>1
  <2> QED
    BY <2>1, RankBijection
<1>3. PICK k \in ids : Rank(ids, k) = n
  <2>1. n \in 1 .. n
    BY <1>1
  <2> QED
    BY <2>1, RankBijection
<1>4. \A j \in ids : j <= i
  <2> SUFFICES ASSUME NEW j \in ids, i < j
               PROVE  FALSE
    OBVIOUS
  <2>1. Rank(ids, j) \in 1 .. n /\ Rank(ids, j) < 1
    BY <1>2, RankBijection
  <2> QED
    BY <2>1, <1>1
<1>5. \A j \in ids : k <= j
  <2> SUFFICES ASSUME NEW j \in ids, j < k
               PROVE  FALSE
    OBVIOUS
  <2>1. Rank(ids, j) \in 1 .. n /\ n < Rank(ids, j)
    BY <1>3, RankBijection
  <2> QED
    BY <2>1, <1>1
<1> QED
  BY <1>4, <1>5 DEF Max, Min

\* A cleaned name's directory is a cleaned name, and its last element one.
LEMMA DirOfName ==
  ASSUME NEW name \in Name
  PROVE  DirOf(name) \in Name /\ (name # Root => BaseOf(name) \in Component)
<1>1. name \in Seq(Component) /\ Len(name) \in Nat
  BY NameAssumption
<1>2. CASE name = Root
  <2>1. DirOf(name) = Root
    BY <1>2, <1>1 DEF DirOf, Root
  <2> QED
    BY <1>2, <2>1
<1>3. CASE name # Root
  <2>1. Len(name) # 0
    BY <1>1, <1>3, EmptySeq DEF Root
  <2>2. DirOf(name) \in WalkToRoot(name)
    BY <1>1, <2>1 DEF DirOf, WalkToRoot
  <2>3. BaseOf(name) \in Component
    BY <1>1, <2>1 DEF BaseOf
  <2> QED
    BY <2>2, <2>3, NameAssumption
<1> QED
  BY <1>2, <1>3

-----------------------------------------------------------------------------
(* Directories and their listings.                                         *)

\* Nothing is in the directory that an answer without an id names.
LEMMA ChildrenFacts ==
  ASSUME NEW t, NEW names, IsDrive(t, names), NEW dir
  PROVE  /\ Children(t, dir) \in SUBSET (Nat \ {RootId})
         /\ Children(t, dir) \in SUBSET DOMAIN t
         /\ IsFiniteSet(Children(t, dir))
         /\ Cardinality(Children(t, dir)) \in Nat
         /\ dir = NoId => Children(t, dir) = {}
<1>1. Children(t, dir) \in SUBSET DOMAIN t
  BY DEF Children
<1>2. IsFiniteSet(Children(t, dir)) /\ Cardinality(Children(t, dir)) \in Nat
  BY <1>1, FS_Subset, FS_CardinalityType DEF IsDrive
<1>3. \A i \in DOMAIN t : t[i].parent \in Nat
  BY DEF IsDrive
<1>4. dir = NoId => Children(t, dir) = {}
  BY <1>3 DEF Children, NoId
<1> QED
  BY <1>1, <1>2, <1>4 DEF IsDrive

\* A listing shows the entries of its directory, each at the place of its rank
\* and with its name and kind.
LEMMA ListingFacts ==
  ASSUME NEW t, NEW names, IsDrive(t, names), NEW dir,
         NEW ids, ids = Children(t, dir), NEW all, all = Listing(t, dir)
  PROVE  /\ all \in Seq([id : Nat \ {RootId}, name : names, dir : BOOLEAN])
         /\ Len(all) = Cardinality(ids) /\ Len(all) \in Nat
         /\ DOMAIN all = 1 .. Len(all)
         /\ \A k \in 1 .. Len(all) :
              /\ all[k].id \in ids
              /\ all[k].name = t[all[k].id].name /\ all[k].dir = t[all[k].id].dir
         /\ \A i \in ids : Rank(ids, i) \in 1 .. Len(all) /\ all[Rank(ids, i)].id = i
<1> DEFINE n == Cardinality(ids)
           at == [k \in 1 .. n |-> CHOOSE i \in ids : Rank(ids, i) = k]
           Row == [id : Nat \ {RootId}, name : names, dir : BOOLEAN]
<1>1. /\ ids \in SUBSET (Nat \ {RootId}) /\ ids \in SUBSET DOMAIN t
      /\ ids \in SUBSET Int /\ IsFiniteSet(ids) /\ n \in Nat
  BY ChildrenFacts
<1>2. \A k \in 1 .. n : at[k] \in ids /\ Rank(ids, at[k]) = k
  BY <1>1, RankBijection
<1>3. \A i \in ids : Rank(ids, i) \in 1 .. n /\ at[Rank(ids, i)] = i
  <2> TAKE i \in ids
  <2> DEFINE j == at[Rank(ids, i)]
  <2>1. Rank(ids, i) \in 1 .. n
    BY <1>1, RankBijection
  <2> HIDE DEF at
  <2>2. j \in ids /\ Rank(ids, j) = Rank(ids, i)
    BY <1>2, <2>1
  <2>3. ~(i < j) /\ ~(j < i)
    BY <1>1, <2>1, <2>2, RankBijection
  <2> HIDE DEF j
  <2>4. j = i
    BY <1>1, <2>2, <2>3
  <2> QED
    BY <2>1, <2>4 DEF j
<1>4. all = [k \in 1 .. n |-> Listed(t, at[k])]
  BY DEF Listing
<1> HIDE DEF at
<1>5. \A i \in ids : /\ Listed(t, i) \in Row
                     /\ Listed(t, i).id = i
                     /\ Listed(t, i).name = t[i].name /\ Listed(t, i).dir = t[i].dir
  <2> TAKE i \in ids
  <2>1. t[i] \in [name : names, parent : Nat, dir : BOOLEAN]
    BY <1>1 DEF IsDrive
  <2> QED
    BY <1>1, <2>1 DEF Listed
<1>6. \A k \in 1 .. n : all[k] = Listed(t, at[k])
  BY <1>4
<1> HIDE DEF n, Row
<1>7. all \in [1 .. n -> Row]
  BY <1>2, <1>4, <1>5
<1>8. all \in Seq(Row) /\ Len(all) = n /\ DOMAIN all = 1 .. n
  BY <1>1, <1>7
<1>9. \A k \in 1 .. n : /\ all[k].id = at[k]
                        /\ all[k].name = t[at[k]].name /\ all[k].dir = t[at[k]].dir
  BY <1>2, <1>5, <1>6
<1> QED
  BY <1>1, <1>2, <1>3, <1>8, <1>9 DEF n, Row

\* Every place of a listing shows an entry of the directory, no two the same,
\* and every entry has one.
LEMMA ListingPlaces ==
  ASSUME NEW t, NEW names, IsDrive(t, names), NEW dir, NEW all, all = Listing(t, dir)
  PROVE  /\ \A k \in DOMAIN all : \E i \in Children(t, dir) : all[k] = Listed(t, i)
         /\ \A k, l \in DOMAIN all : all[k].id = all[l].id => k = l
         /\ \A i \in Children(t, dir) : \E k \in DOMAIN all : all[k].id = i
<1> DEFINE ids == Children(t, dir)
           n == Cardinality(ids)
           at == [m \in 1 .. n |-> CHOOSE i \in ids : Rank(ids, i) = m]
<1>1. ids \in SUBSET Int /\ IsFiniteSet(ids) /\ n \in Nat
  BY ChildrenFacts
<1>2. \A m \in 1 .. n : at[m] \in ids /\ Rank(ids, at[m]) = m
  BY <1>1, RankBijection
<1>3. all = [m \in 1 .. n |-> Listed(t, at[m])]
  BY DEF Listing
<1> HIDE DEF at, n
<1>4. \A k \in DOMAIN all : k \in 1 .. n /\ all[k] = Listed(t, at[k]) /\ all[k].id = at[k]
  BY <1>3 DEF Listed
<1>5. ASSUME NEW k \in DOMAIN all, NEW l \in DOMAIN all, all[k].id = all[l].id
      PROVE  k = l
  <2>1. at[k] = at[l] /\ k \in 1 .. n /\ l \in 1 .. n
    BY <1>4, <1>5
  <2>2. Rank(ids, at[k]) = k /\ Rank(ids, at[l]) = l
    BY <1>2, <2>1
  <2> QED
    BY <2>1, <2>2
<1>6. ASSUME NEW i \in ids
      PROVE  \E k \in DOMAIN all : all[k].id = i
  <2>1. PICK k \in 1 .. n : k = Rank(ids, i)
    BY <1>1, RankBijection DEF n
  <2>2. at[k] \in ids /\ Rank(ids, at[k]) = k
    BY <1>2
  <2>3. ~(i < at[k]) /\ ~(at[k] < i)
    BY <1>1, <2>1, <2>2, RankBijection
  <2>4. at[k] = i
    BY <1>1, <2>2, <2>3
  <2>5. k \in DOMAIN all
    BY <1>3
  <2> QED
    BY <1>4, <2>4, <2>5
<1> QED
  BY <1>2, <1>4, <1>5, <1>6

\* A page shows entries of the directory, among them those whose rank it is
\* meant to show.
PageShows(page, t, names, ids, size, offset) ==
  /\ page \in Seq([id : Nat \ {RootId}, name : names, dir : BOOLEAN])
  /\ \A k \in DOMAIN page :
       /\ page[k].id \in ids
       /\ page[k].name = t[page[k].id].name /\ page[k].dir = t[page[k].id].dir
  /\ \A i \in ids : Rank(ids, i) \in offset + 1 .. offset + size
       => \E k \in DOMAIN page : page[k].id = i

\* A page of a drive's listing shows the entries whose ranks are its numbers.
LEMMA PageFacts ==
  ASSUME NEW t, NEW names, IsDrive(t, names), NEW dir,
         NEW size \in Nat \ {0}, NEW offset \in Nat
  PROVE  PageShows(Page(t, dir, size, offset), t, names, Children(t, dir), size, offset)
<1> SUFFICES ASSUME NEW ids, ids = Children(t, dir),
                    NEW page, page = Page(t, dir, size, offset)
             PROVE  PageShows(page, t, names, ids, size, offset)
  OBVIOUS
<1>0. PICK all : all = Listing(t, dir)
  OBVIOUS
<1> DEFINE Row == [id : Nat \ {RootId}, name : names, dir : BOOLEAN]
           last == Min({offset + size, Len(all)})
<1>1. /\ all \in Seq(Row) /\ Len(all) \in Nat
      /\ \A k \in 1 .. Len(all) :
           /\ all[k].id \in ids
           /\ all[k].name = t[all[k].id].name /\ all[k].dir = t[all[k].id].dir
      /\ \A i \in ids : Rank(ids, i) \in 1 .. Len(all) /\ all[Rank(ids, i)].id = i
  BY <1>0, ListingFacts
<1>2. last \in Nat /\ last <= Len(all) /\ last <= offset + size
      /\ (last = Len(all) \/ last = offset + size)
  BY <1>1 DEF Min
<1> HIDE DEF last
<1>3. page = SubSeq(all, offset + 1, last)
  BY <1>0 DEF Page, last
<1> HIDE DEF Row
<1>4. \A i \in offset + 1 .. last : i \in 1 .. Len(all)
  BY <1>2, <1>1
<1>5. \A i \in offset + 1 .. last : all[i] \in Row
  BY <1>1, <1>4, ElementOfSeq
<1>6. /\ page \in Seq(Row)
      /\ Len(page) = IF offset + 1 <= last THEN last - offset ELSE 0
      /\ \A i \in 1 .. last - offset : page[i] = all[offset + i]
  BY <1>2, <1>3, <1>5, SubSeqProperties
<1>7. DOMAIN page = 1 .. Len(page)
  BY <1>6
<1>8. ASSUME NEW k \in DOMAIN page
      PROVE  /\ page[k].id \in ids
             /\ page[k].name = t[page[k].id].name /\ page[k].dir = t[page[k].id].dir
  <2>1. k \in 1 .. last - offset /\ offset + k \in 1 .. Len(all)
    BY <1>2, <1>4, <1>6, <1>7
  <2>2. page[k] = all[offset + k]
    BY <1>6, <2>1
  <2> QED
    BY <1>1, <2>1, <2>2
<1>9. ASSUME NEW i \in ids, Rank(ids, i) \in offset + 1 .. offset + size
      PROVE  \E k \in DOMAIN page : page[k].id = i
  <2> DEFINE k == Rank(ids, i) - offset
  <2>1. Rank(ids, i) \in 1 .. Len(all) /\ all[Rank(ids, i)].id = i
    BY <1>1
  <2>2. k \in 1 .. last - offset /\ offset + k = Rank(ids, i)
    BY <1>2, <1>9, <2>1
  <2>3. k \in DOMAIN page /\ page[k] = all[offset + k]
    BY <1>2, <1>6, <1>7, <2>2
  <2> QED
    BY <2>1, <2>2, <2>3
<1> QED
  BY <1>6, <1>8, <1>9 DEF Row, PageShows

-----------------------------------------------------------------------------
(* Directories by their path, and what a change makes of a drive.          *)

\* The id that is looked up for a path is the root's, or of a directory of
\* that path; for the path of the root it is the root's.
LEMMA DirIDsFacts ==
  ASSUME NEW t, NEW names, IsDrive(t, names), NEW path, NEW id \in DirIDs(t, path)
  PROVE  /\ id \in Nat
         /\ path = Root => id = RootId
         /\ id # RootId => id \in DOMAIN t /\ PathOf(t)[id] = path
BY DEF DirIDs, IsDrive, RootId

\* Every change the service makes leaves a drive, with the names it had and
\* those it was given.
LEMMA ChangesKeepDrive ==
  ASSUME NEW t, NEW names, IsDrive(t, names), NEW id, NEW parent, NEW name \in names
  PROVE  /\ \A u \in Deleted(t, id) : IsDrive(u, names)
         /\ \A u \in Moved(t, id, parent) : IsDrive(u, names)
         /\ \A u \in Renamed(t, id, name) : IsDrive(u, names)
         /\ id \in Nat \ {RootId} => \A u \in Added(t, id, parent, name) : IsDrive(u, names)
<1> DEFINE Record == [name : names, parent : Nat, dir : BOOLEAN]
<1>1. IsFiniteSet(DOMAIN t) /\ DOMAIN t \subseteq Nat \ {RootId} /\ t \in [DOMAIN t -> Record]
  BY DEF IsDrive
<1>2. IsFolder(t, parent) => parent \in Nat
  BY <1>1 DEF IsFolder, RootId
<1>3. ASSUME NEW u \in Deleted(t, id)
      PROVE  IsDrive(u, names)
  <2>1. PICK left \in SUBSET DOMAIN t : u = [i \in left |-> t[i]]
    BY <1>3 DEF Deleted
  <2>2. DOMAIN u = left /\ u \in [left -> Record] /\ IsFiniteSet(left)
    BY <2>1, <1>1, FS_Subset
  <2> QED
    BY <2>2, <1>1 DEF IsDrive
<1>4. ASSUME NEW u \in Moved(t, id, parent)
      PROVE  IsDrive(u, names)
  <2>1. u = [t EXCEPT ![id].parent = parent] /\ id \in DOMAIN t /\ parent \in Nat
    BY <1>2, <1>4 DEF Moved
  <2>2. DOMAIN u = DOMAIN t /\ u \in [DOMAIN t -> Record]
    BY <2>1, <1>1
  <2> QED
    BY <2>2, <1>1 DEF IsDrive
<1>5. ASSUME NEW u \in Renamed(t, id, name)
      PROVE  IsDrive(u, names)
  <2>1. u = [t EXCEPT ![id].name = name] /\ id \in DOMAIN t
    BY <1>5 DEF Renamed
  <2>2. DOMAIN u = DOMAIN t /\ u \in [DOMAIN t -> Record]
    BY <2>1, <1>1
  <2> QED
    BY <2>2, <1>1 DEF IsDrive
<1>6. ASSUME id \in Nat \ {RootId}, NEW u \in Added(t, id, parent, name)
      PROVE  IsDrive(u, names)
  <2>1. parent \in Nat
    BY <1>2, <1>6 DEF Added
  <2>2. Entry(name, parent, TRUE) \in Record
    BY <2>1 DEF Entry
  <2>3. u = [i \in DOMAIN t \cup {id} |->
               IF i = id THEN Entry(name, parent, TRUE) ELSE t[i]]
    BY <1>6 DEF Added
  <2>4. DOMAIN u = DOMAIN t \cup {id} /\ u \in [DOMAIN t \cup {id} -> Record]
    BY <2>2, <2>3, <1>1
  <2>5. IsFiniteSet(DOMAIN t \cup {id})
    BY <1>1, FS_AddElement
  <2> QED
    BY <2>4, <2>5, <1>1, <1>6 DEF IsDrive
<1> QED
  BY <1>3, <1>4, <1>5, <1>6

\* An id that no drive of a history has had can be given out: there is a
\* largest one.
IdsOf(hist) == {RootId} \cup UNION { DOMAIN hist[k] : k \in DOMAIN hist }

\* The largest id is a number, and none of the history's trees has a larger one.
LEMMA LargestId ==
  ASSUME NEW names, NEW hist, NEW n \in Nat, DOMAIN hist = 1 .. n,
         \A k \in 1 .. n : IsDrive(hist[k], names)
  PROVE  /\ Max(IdsOf(hist)) \in Nat
         /\ \A k \in 1 .. n : \A i \in DOMAIN hist[k] : i <= Max(IdsOf(hist))
<1> DEFINE ids == [k \in 1 .. n |-> DOMAIN hist[k]]
           all == { DOMAIN hist[k] : k \in DOMAIN hist }
           used == {RootId} \cup UNION all
<1>1. ids \in Surjection(1 .. n, all)
  BY DEF Surjection
<1>2. IsFiniteSet(all)
  BY <1>1, FS_Interval, FS_Surjection
<1>3. \A d \in all : IsFiniteSet(d) /\ d \subseteq Nat
  BY DEF IsDrive
<1>4. IsFiniteSet(UNION all)
  BY <1>2, <1>3, FS_UNION
<1>5. IsFiniteSet((UNION all) \cup {RootId}) /\ (UNION all) \cup {RootId} = used
  BY <1>4, FS_AddElement
<1>6. used \in SUBSET Nat /\ used \in SUBSET Int /\ used # {}
  <2>1. UNION all \subseteq Nat
    BY <1>3
  <2>2. RootId \in Nat
    BY DEF RootId
  <2> HIDE DEF all
  <2>3. used \subseteq Nat /\ RootId \in used
    BY <2>1, <2>2
  <2> HIDE DEF used
  <2> QED
    BY <2>3
<1>7. \A k \in 1 .. n : \A i \in DOMAIN hist[k] : i \in used
  OBVIOUS
<1> HIDE DEF used
<1>8. Max(used) \in used /\ \A j \in used : j <= Max(used)
  BY <1>5, <1>6, MaxMin
<1>9. Max(used) \in Nat /\ \A k \in 1 .. n : \A i \in DOMAIN hist[k] : i <= Max(used)
  BY <1>6, <1>7, <1>8
<1> QED
  BY <1>9 DEF used, IdsOf

-----------------------------------------------------------------------------
(* The set of all drives, for the histories to be sequences of.            *)

Drives(names) ==
  { t \in UNION { [ids -> [name : names, parent : Nat, dir : BOOLEAN]] :
                  ids \in SUBSET (Nat \ {RootId}) } : IsFiniteSet(DOMAIN t) }

\* The drives with names from a set are the elements of Drives.
LEMMA AllDrives ==
  ASSUME NEW t, NEW names
  PROVE  t \in Drives(names) <=> IsDrive(t, names)
<1>1. ASSUME t \in Drives(names)
      PROVE  IsDrive(t, names)
  <2>1. PICK ids \in SUBSET (Nat \ {RootId}) :
              t \in [ids -> [name : names, parent : Nat, dir : BOOLEAN]]
    BY <1>1 DEF Drives
  <2>2. DOMAIN t = ids /\ IsFiniteSet(DOMAIN t)
    BY <1>1, <2>1 DEF Drives
  <2> QED
    BY <2>1, <2>2 DEF IsDrive
<1>2. ASSUME IsDrive(t, names)
      PROVE  t \in Drives(names)
  <2> DEFINE ids == DOMAIN t
  <2>1. ids \in SUBSET (Nat \ {RootId}) /\ IsFiniteSet(ids)
        /\ t \in [ids -> [name : names, parent : Nat, dir : BOOLEAN]]
    BY <1>2 DEF IsDrive
  <2> QED
    BY <2>1 DEF Drives
<1> QED
  BY <1>1, <1>2

-----------------------------------------------------------------------------
(* The paths of the entries of a tree.                                     *)

\* A set that holds 0 and with each number the next holds every number.
LEMMA Induction ==
  ASSUME NEW K, 0 \in K, \A k \in Nat : k \in K => k + 1 \in K
  PROVE  Nat \subseteq K
<1> SUFFICES ASSUME NEW n \in Nat, n \notin K PROVE FALSE
  OBVIOUS
<1> DEFINE Left == {k \in Nat : k \notin K}
           Less == {ss \in Nat \X Nat : ss[1] < ss[2]}
<1>1. Left \subseteq Nat /\ Left # {}
  OBVIOUS
<1>2. IsWellFoundedOn(Less, Nat)
  BY NatLessThanWellFounded DEF OpToRel
<1>3. PICK least \in Left : \A k \in Left : << k, least >> \notin Less
  <2> HIDE DEF Less, Left
  <2> QED
    BY <1>1, <1>2, WFMin
<1>4. least # 0 /\ least \in Nat /\ least - 1 \in Nat
  OBVIOUS
<1>5. << least - 1, least >> \in Less
  BY <1>4
<1>6. least - 1 \in K
  BY <1>3, <1>4, <1>5
<1> QED
  BY <1>3, <1>4, <1>6

\* The ids that have a path: the entries and the root.
Ids(t) == DOMAIN t \cup {RootId}

\* f gives the ids S of t their paths.
Named(t, names, S, f) ==
  /\ f \in [S -> Seq(names)]
  /\ \A i \in S : f[i] = IF i = RootId THEN Root ELSE Append(f[t[i].parent], t[i].name)

\* How far an entry is from the root at most.
Levels(t, level) ==
  /\ level \in [Ids(t) -> Nat]
  /\ \A i \in DOMAIN t : IsFolder(t, t[i].parent) /\ level[t[i].parent] < level[i]

\* The entries up to a level.
Upto(t, level, k) == { i \in Ids(t) : i = RootId \/ level[i] <= k }

\* A tree has levels, up to some number.
LEMMA TreeLevels ==
  ASSUME NEW t, NEW names, IsDrive(t, names), IsTree(t)
  PROVE  \E level : \E n \in Nat : Levels(t, level) /\ Upto(t, level, n) = Ids(t)
<1>1. PICK n \in Nat : n = Cardinality(DOMAIN t)
  BY FS_CardinalityType DEF IsDrive
<1>2. PICK level \in [Ids(t) -> 0 .. n] :
        \A i \in DOMAIN t : IsFolder(t, t[i].parent) /\ level[t[i].parent] < level[i]
  BY <1>1 DEF IsTree, Ids
<1>3. Levels(t, level)
  BY <1>2 DEF Levels
<1>4. Upto(t, level, n) = Ids(t)
  BY <1>2 DEF Upto
<1> QED
  BY <1>3, <1>4

\* The parent of an entry is among the ids, and one level less.
LEMMA ParentFacts ==
  ASSUME NEW t, NEW names, IsDrive(t, names), NEW level, Levels(t, level), NEW i \in DOMAIN t
  PROVE  /\ t[i].parent \in Ids(t) /\ t[i].name \in names /\ t[i].parent \in Nat
         /\ i # RootId /\ i \in Ids(t)
         /\ \A k \in Nat : i \in Upto(t, level, k + 1) => t[i].parent \in Upto(t, level, k)
         /\ i \notin Upto(t, level, 0)
<1>1. t[i].parent \in Ids(t) /\ level[t[i].parent] < level[i]
  BY DEF Levels, Ids, IsFolder
<1>2. t[i] \in [name : names, parent : Nat, dir : BOOLEAN] /\ i \in Nat \ {RootId}
  BY DEF IsDrive
<1>3. i \in Ids(t)
  BY DEF Ids
<1>4. PICK m \in Nat, n \in Nat : m = level[t[i].parent] /\ n = level[i]
  BY <1>1, <1>3 DEF Levels
<1>5. \A k \in Nat : n <= k + 1 => m <= k
  BY <1>1, <1>4
<1>6. ~(n <= 0)
  BY <1>1, <1>4
<1> QED
  BY <1>1, <1>2, <1>3, <1>4, <1>5, <1>6 DEF Upto

\* There are paths for all the ids up to a level.
LEMMA PathsExist ==
  ASSUME NEW t, NEW names, IsDrive(t, names), NEW level, Levels(t, level)
  PROVE  \A k \in Nat : \E f : Named(t, names, Upto(t, level, k), f)
<1> DEFINE S(k) == Upto(t, level, k)
           K == { k \in Nat : \E f : Named(t, names, S(k), f) }
<1>1. 0 \in K
  <2>1. S(0) = {RootId}
    <3>1. \A i \in DOMAIN t : i \notin S(0)
      BY ParentFacts
    <3> QED
      BY <3>1 DEF Upto, Ids
  <2>2. Root \in Seq(names)
    BY DEF Root
  <2>3. PICK f : f = [i \in {RootId} |-> Root]
    OBVIOUS
  <2> HIDE DEF S
  <2>4. Named(t, names, S(0), f)
    BY <2>1, <2>2, <2>3 DEF Named
  <2> QED
    BY <2>4
<1>2. ASSUME NEW k \in Nat, k \in K
      PROVE  k + 1 \in K
  <2>1. PICK f : Named(t, names, S(k), f)
    BY <1>2
  <2>2. PICK g : g = [i \in S(k + 1) |-> IF i = RootId THEN Root
                                         ELSE Append(f[t[i].parent], t[i].name)]
    OBVIOUS
  <2>3. /\ S(k) \subseteq S(k + 1) /\ S(k + 1) \subseteq Ids(t)
        /\ \A i \in S(k + 1) : i # RootId => i \in DOMAIN t /\ t[i].parent \in S(k)
    <3>1. \A i \in DOMAIN t : level[i] \in Nat
      BY DEF Levels, Ids
    <3>2. S(k) \subseteq S(k + 1)
      BY <3>1 DEF Upto, Ids
    <3>3. S(k + 1) \subseteq Ids(t)
      BY DEF Upto
    <3>4. \A i \in S(k + 1) : i # RootId => i \in DOMAIN t
      BY <3>3 DEF Ids
    <3>5. \A i \in S(k + 1) : i # RootId => t[i].parent \in S(k)
      BY <3>4, ParentFacts
    <3> QED
      BY <3>2, <3>3, <3>4, <3>5
  <2>4. \A i \in DOMAIN t : t[i].name \in names
    BY ParentFacts
  <2> HIDE DEF S
  <2>5. \A i \in S(k) : g[i] = f[i]
    BY <2>1, <2>2, <2>3 DEF Named
  <2>6. \A i \in S(k + 1) : g[i] \in Seq(names)
    <3> SUFFICES ASSUME NEW i \in S(k + 1)
                 PROVE  g[i] \in Seq(names)
      OBVIOUS
    <3>1. CASE i = RootId
      BY <2>2, <3>1 DEF Root
    <3>2. CASE i # RootId
      <4>1. PICK q \in Seq(names), x \in names : q = f[t[i].parent] /\ x = t[i].name
        BY <2>1, <2>3, <2>4, <3>2 DEF Named
      <4> QED
        BY <2>2, <3>2, <4>1
    <3> QED
      BY <3>1, <3>2
  <2>7. g \in [S(k + 1) -> Seq(names)]
    BY <2>2, <2>6
  <2>8. \A i \in S(k + 1) : g[i] = IF i = RootId THEN Root ELSE Append(g[t[i].parent], t[i].name)
    BY <2>2, <2>3, <2>5
  <2>9. Named(t, names, S(k + 1), g)
    BY <2>7, <2>8 DEF Named
  <2>10. k + 1 \in Nat
    OBVIOUS
  <2> QED
    BY <2>9, <2>10
<1> HIDE DEF K, S
<1>3. Nat \subseteq K
  BY <1>1, <1>2, Induction
<1> QED
  BY <1>3 DEF K, S

\* Two ways to give the ids their paths agree.
LEMMA PathsUnique ==
  ASSUME NEW t, NEW names, IsDrive(t, names), NEW level, Levels(t, level),
         NEW f, NEW g,
         \A i \in Ids(t) : f[i] = IF i = RootId THEN Root ELSE Append(f[t[i].parent], t[i].name),
         \A i \in Ids(t) : g[i] = IF i = RootId THEN Root ELSE Append(g[t[i].parent], t[i].name)
  PROVE  \A k \in Nat : \A i \in Upto(t, level, k) : f[i] = g[i]
<1> DEFINE K == { k \in Nat : \A i \in Upto(t, level, k) : f[i] = g[i] }
<1>1. 0 \in K
  <2>1. \A i \in Upto(t, level, 0) : i = RootId /\ i \in Ids(t)
    <3>1. \A i \in DOMAIN t : i \notin Upto(t, level, 0)
      BY ParentFacts
    <3> QED
      BY <3>1 DEF Upto, Ids
  <2> QED
    BY <2>1
<1>2. ASSUME NEW k \in Nat, k \in K
      PROVE  k + 1 \in K
  <2>1. ASSUME NEW i \in Upto(t, level, k + 1)
        PROVE  f[i] = g[i]
    <3>1. i \in Ids(t)
      BY <2>1 DEF Upto
    <3>2. CASE i = RootId
      BY <3>1, <3>2
    <3>3. CASE i # RootId
      <4>1. i \in DOMAIN t
        BY <3>1, <3>3 DEF Ids
      <4>2. t[i].parent \in Upto(t, level, k)
        BY <2>1, <4>1, ParentFacts
      <4>3. f[t[i].parent] = g[t[i].parent]
        BY <1>2, <4>2
      <4> QED
        BY <3>1, <3>3, <4>3
    <3> QED
      BY <3>2, <3>3
  <2> QED
    BY <2>1
<1> HIDE DEF K
<1>3. Nat \subseteq K
  BY <1>1, <1>2, Induction
<1> QED
  BY <1>3 DEF K

\* PathOf gives every entry of a tree the path of its directory with its name.
LEMMA PathFacts ==
  ASSUME NEW t, NEW names, IsDrive(t, names), IsTree(t), NEW p, p = PathOf(t)
  PROVE  /\ \A i \in Ids(t) : p[i] \in Seq(names)
         /\ p[RootId] = Root
         /\ \A i \in DOMAIN t : /\ t[i].parent \in Ids(t) /\ IsFolder(t, t[i].parent)
                                /\ t[i].name \in names
                                /\ p[i] = Append(p[t[i].parent], t[i].name)
<1>1. PICK level : \E n \in Nat : Levels(t, level) /\ Upto(t, level, n) = Ids(t)
  BY TreeLevels
<1>2. PICK n \in Nat : Levels(t, level) /\ Upto(t, level, n) = Ids(t)
  BY <1>1
<1>3. PICK f : Named(t, names, Ids(t), f)
  BY <1>2, PathsExist
<1>4. f = [i \in DOMAIN t \cup {RootId} |->
             IF i = RootId THEN Root ELSE Append(f[t[i].parent], t[i].name)]
  BY <1>3 DEF Named, Ids
<1>5. p = [i \in DOMAIN t \cup {RootId} |->
             IF i = RootId THEN Root ELSE Append(p[t[i].parent], t[i].name)]
  BY <1>4 DEF PathOf
<1>6. \A i \in Ids(t) : p[i] = IF i = RootId THEN Root ELSE Append(p[t[i].parent], t[i].name)
  BY <1>5 DEF Ids
<1>7. \A i \in Ids(t) : f[i] = IF i = RootId THEN Root ELSE Append(f[t[i].parent], t[i].name)
  BY <1>3 DEF Named
<1>8. \A i \in Ids(t) : p[i] = f[i]
  BY <1>2, <1>6, <1>7, PathsUnique
<1>9. \A i \in Ids(t) : p[i] \in Seq(names)
  BY <1>3, <1>8 DEF Named
<1>10. RootId \in Ids(t)
  BY DEF Ids
<1>11. ASSUME NEW i \in DOMAIN t
       PROVE  /\ t[i].parent \in Ids(t) /\ IsFolder(t, t[i].parent)
              /\ t[i].name \in names
              /\ p[i] = Append(p[t[i].parent], t[i].name)
  <2>1. t[i].parent \in Ids(t) /\ t[i].name \in names /\ i # RootId /\ i \in Ids(t)
    BY <1>2, ParentFacts
  <2>2. IsFolder(t, t[i].parent)
    BY <1>2 DEF Levels
  <2> QED
    BY <1>6, <2>1, <2>2
<1> QED
  BY <1>6, <1>9, <1>10, <1>11

-----------------------------------------------------------------------------
(* Paths that are below others.                                            *)

\* A name at the end of a path: its parts can be told.
LEMMA Longer ==
  ASSUME NEW names, NEW q \in Seq(names), NEW x \in names, NEW u, u = Append(q, x)
  PROVE  /\ u \in Seq(names) /\ Len(q) \in Nat /\ Len(u) = Len(q) + 1 /\ Len(u) # 0
         /\ \A k \in 1 .. Len(q) : u[k] = q[k] /\ k \in 1 .. Len(u)
         /\ u[Len(q) + 1] = x
         /\ Len(q) + 1 \in 1 .. Len(u)
OBVIOUS

\* Two of them are the same only in both.
LEMMA LongerSame ==
  ASSUME NEW names, NEW q \in Seq(names), NEW x \in names,
         NEW r \in Seq(names), NEW y \in names, Append(q, x) = Append(r, y)
  PROVE  q = r /\ x = y
<1>1. PICK u : u = Append(q, x) /\ u = Append(r, y)
  OBVIOUS
<1>2. /\ Len(u) = Len(q) + 1 /\ \A k \in 1 .. Len(q) : u[k] = q[k]
      /\ Len(q) \in Nat /\ u[Len(q) + 1] = x
  BY <1>1, Longer
<1>3. /\ Len(u) = Len(r) + 1 /\ \A k \in 1 .. Len(r) : u[k] = r[k]
      /\ Len(r) \in Nat /\ u[Len(r) + 1] = y
  BY <1>1, Longer
<1>4. Len(q) = Len(r)
  BY <1>2, <1>3
<1>5. \A k \in 1 .. Len(q) : q[k] = r[k]
  BY <1>2, <1>3, <1>4
<1>6. q = r
  BY <1>4, <1>5, SeqEqual
<1> QED
  BY <1>2, <1>3, <1>4, <1>6

\* A path is a prefix of those that go on where it ends.
LEMMA PrefixIs ==
  ASSUME NEW names, NEW q \in Seq(names), NEW r \in Seq(names)
  PROVE  IsPrefix(q, r) <=> Len(q) <= Len(r) /\ \A k \in 1 .. Len(q) : q[k] = r[k]
<1>1. PICK n \in Nat, m \in Nat : n = Len(q) /\ m = Len(r)
  OBVIOUS
<1>2. CASE n <= m
  <2>1. n \in Int /\ \A k \in 1 .. n : q[k] \in names /\ r[k] \in names
    BY <1>1, <1>2
  <2>2. /\ SubSeq(q, 1, n) \in Seq(names) /\ Len(SubSeq(q, 1, n)) = n
        /\ \A k \in 1 .. n : SubSeq(q, 1, n)[k] = q[k]
    <3>1. /\ SubSeq(q, 1, n) \in Seq(names)
          /\ Len(SubSeq(q, 1, n)) = IF 1 <= n THEN n - 1 + 1 ELSE 0
          /\ \A k \in 1 .. n - 1 + 1 : SubSeq(q, 1, n)[k] = q[1 + k - 1]
      BY <2>1, SubSeqProperties
    <3> QED
      BY <1>1, <3>1
  <2>3. /\ SubSeq(r, 1, n) \in Seq(names) /\ Len(SubSeq(r, 1, n)) = n
        /\ \A k \in 1 .. n : SubSeq(r, 1, n)[k] = r[k]
    <3>1. /\ SubSeq(r, 1, n) \in Seq(names)
          /\ Len(SubSeq(r, 1, n)) = IF 1 <= n THEN n - 1 + 1 ELSE 0
          /\ \A k \in 1 .. n - 1 + 1 : SubSeq(r, 1, n)[k] = r[1 + k - 1]
      BY <2>1, SubSeqProperties
    <3> QED
      BY <1>1, <3>1
  <2>4. ASSUME SubSeq(q, 1, n) = SubSeq(r, 1, n)
        PROVE  \A k \in 1 .. n : q[k] = r[k]
    <3> SUFFICES ASSUME NEW k \in 1 .. n
                 PROVE  q[k] = r[k]
      OBVIOUS
    <3>1. SubSeq(q, 1, n)[k] = q[k]
      BY <2>2
    <3>2. SubSeq(r, 1, n)[k] = r[k]
      BY <2>3
    <3> QED
      BY <2>4, <3>1, <3>2
  <2>5. ASSUME \A k \in 1 .. n : q[k] = r[k]
        PROVE  SubSeq(q, 1, n) = SubSeq(r, 1, n)
    <3>1. PICK v, w : v = SubSeq(q, 1, n) /\ w = SubSeq(r, 1, n)
      OBVIOUS
    <3>2. v \in Seq(names) /\ Len(v) = n /\ \A k \in 1 .. n : v[k] = q[k]
      BY <2>2, <3>1
    <3>3. w \in Seq(names) /\ Len(w) = n /\ \A k \in 1 .. n : w[k] = r[k]
      BY <2>3, <3>1
    <3>4. \A k \in 1 .. Len(v) : v[k] = w[k]
      BY <2>5, <3>2, <3>3
    <3> QED
      BY <3>1, <3>2, <3>3, <3>4, SeqEqual
  <2>6. IsPrefix(q, r) <=> SubSeq(q, 1, n) = SubSeq(r, 1, n)
    BY <1>1, <1>2 DEF IsPrefix
  <2> QED
    BY <1>1, <1>2, <2>4, <2>5, <2>6
<1>3. CASE ~(n <= m)
  BY <1>1, <1>3 DEF IsPrefix
<1> QED
  BY <1>2, <1>3

\* Of one that is no longer, it is the whole.
LEMMA PrefixWhole ==
  ASSUME NEW names, NEW q \in Seq(names), NEW r \in Seq(names), IsPrefix(q, r)
  PROVE  /\ Len(q) \in Nat /\ Len(r) \in Nat /\ Len(q) <= Len(r)
         /\ Len(r) <= Len(q) => q = r
<1>1. Len(q) <= Len(r) /\ \A k \in 1 .. Len(q) : q[k] = r[k]
  BY PrefixIs
<1>2. ASSUME Len(r) <= Len(q)
      PROVE  q = r
  <2>1. Len(q) = Len(r)
    BY <1>1, <1>2
  <2> QED
    BY <1>1, <2>1, SeqEqual
<1> QED
  BY <1>1, <1>2

\* Every path is a prefix of itself.
LEMMA PrefixSelf ==
  ASSUME NEW names, NEW q \in Seq(names)
  PROVE  IsPrefix(q, q)
BY PrefixIs

\* Prefixes of prefixes are prefixes.
LEMMA PrefixThrough ==
  ASSUME NEW names, NEW q \in Seq(names), NEW r \in Seq(names), NEW s \in Seq(names),
         IsPrefix(q, r), IsPrefix(r, s)
  PROVE  IsPrefix(q, s)
<1>1. Len(q) <= Len(r) /\ \A k \in 1 .. Len(q) : q[k] = r[k]
  BY PrefixIs
<1>2. Len(r) <= Len(s) /\ \A k \in 1 .. Len(r) : r[k] = s[k]
  BY PrefixIs
<1>3. Len(q) <= Len(s) /\ \A k \in 1 .. Len(q) : q[k] = s[k]
  BY <1>1, <1>2
<1> QED
  BY <1>3, PrefixIs

\* A prefix of a path with a name at its end is that path, or a prefix of what
\* is before the name.
LEMMA PrefixLonger ==
  ASSUME NEW names, NEW q \in Seq(names), NEW r \in Seq(names), NEW x \in names
  PROVE  /\ IsPrefix(r, Append(r, x))
         /\ IsPrefix(q, Append(r, x)) <=> q = Append(r, x) \/ IsPrefix(q, r)
<1>1. PICK u : u = Append(r, x)
  OBVIOUS
<1>2. /\ u \in Seq(names) /\ Len(r) \in Nat /\ Len(u) = Len(r) + 1
      /\ \A k \in 1 .. Len(r) : u[k] = r[k]
  BY <1>1, Longer
<1>3. IsPrefix(r, u)
  BY <1>2, PrefixIs
<1>4. ASSUME IsPrefix(q, r)
      PROVE  IsPrefix(q, u)
  BY <1>2, <1>3, <1>4, PrefixThrough
<1>5. ASSUME IsPrefix(q, u), q # u
      PROVE  IsPrefix(q, r)
  <2>1. Len(q) \in Nat /\ Len(q) <= Len(u) /\ ~(Len(u) <= Len(q))
    BY <1>2, <1>5, PrefixWhole
  <2>2. \A k \in 1 .. Len(q) : q[k] = u[k]
    BY <1>2, <1>5, PrefixIs
  <2>3. Len(q) <= Len(r) /\ \A k \in 1 .. Len(q) : q[k] = r[k]
    BY <1>2, <2>1, <2>2
  <2> QED
    BY <2>3, PrefixIs
<1>6. q = u => IsPrefix(q, u)
  BY <1>2, PrefixSelf
<1> QED
  BY <1>1, <1>3, <1>4, <1>5, <1>6

\* Paths with different names at the end of one path have nothing below them
\* both.
LEMMA PrefixApart ==
  ASSUME NEW names, NEW q \in Seq(names), NEW x \in names, NEW y \in names, NEW r \in Seq(names),
         IsPrefix(Append(q, x), r), IsPrefix(Append(q, y), r)
  PROVE  x = y
<1>1. PICK u, v : u = Append(q, x) /\ v = Append(q, y) /\ IsPrefix(u, r) /\ IsPrefix(v, r)
  OBVIOUS
<1>2. PICK k : k = Len(q) + 1
  OBVIOUS
<1>3. u \in Seq(names) /\ k \in 1 .. Len(u) /\ u[k] = x
  BY <1>1, <1>2, Longer
<1>4. v \in Seq(names) /\ k \in 1 .. Len(v) /\ v[k] = y
  BY <1>1, <1>2, Longer
<1>5. IsPrefix(u, r) /\ IsPrefix(v, r)
  BY <1>1
<1>6. u[k] = r[k]
  BY <1>3, <1>5, PrefixIs
<1>7. v[k] = r[k]
  BY <1>4, <1>5, PrefixIs
<1> QED
  BY <1>3, <1>4, <1>6, <1>7

-----------------------------------------------------------------------------
(* The paths of a tree.                                                    *)

\* No two ids have the same path.
LEMMA PathsDiffer ==
  ASSUME NEW t, NEW names, IsDrive(t, names), IsTree(t), NEW p, p = PathOf(t),
         NEW i \in Ids(t), NEW j \in Ids(t), p[i] = p[j]
  PROVE  i = j
<1> DEFINE K == { k \in Nat : \A a, b \in Ids(t) : Len(p[a]) = k /\ p[a] = p[b] => a = b }
<1>1. ASSUME NEW a \in Ids(t), NEW b \in Ids(t), p[a] = p[b]
      PROVE  \/ a = b
             \/ /\ a \in DOMAIN t /\ b \in DOMAIN t
                /\ t[a].parent \in Ids(t) /\ t[b].parent \in Ids(t)
                /\ Len(p[t[a].parent]) \in Nat /\ Len(p[a]) = Len(p[t[a].parent]) + 1
                /\ p[t[a].parent] = p[t[b].parent] /\ t[a].name = t[b].name
  <2>1. ASSUME NEW c \in DOMAIN t
        PROVE  p[c] # p[RootId]
    <3>1. PICK r \in Seq(names), x \in names : p[c] = Append(r, x)
      <4>1. /\ t[c].parent \in Ids(t) /\ t[c].name \in names
            /\ p[c] = Append(p[t[c].parent], t[c].name)
        BY <2>1, PathFacts
      <4>2. p[t[c].parent] \in Seq(names)
        BY <4>1, PathFacts
      <4> QED
        BY <4>1, <4>2
    <3>2. p[RootId] = << >>
      BY PathFacts DEF Root
    <3> QED
      BY <3>1, <3>2
  <2>2. CASE a = RootId \/ b = RootId
    BY <1>1, <2>1, <2>2 DEF Ids
  <2>3. CASE a # RootId /\ b # RootId
    <3>1. a \in DOMAIN t /\ b \in DOMAIN t
      BY <2>3 DEF Ids
    <3>2. /\ t[a].parent \in Ids(t) /\ t[b].parent \in Ids(t)
          /\ p[t[a].parent] \in Seq(names) /\ p[t[b].parent] \in Seq(names)
          /\ t[a].name \in names /\ t[b].name \in names
          /\ p[a] = Append(p[t[a].parent], t[a].name) /\ p[b] = Append(p[t[b].parent], t[b].name)
      BY <3>1, PathFacts
    <3>3. p[t[a].parent] = p[t[b].parent] /\ t[a].name = t[b].name
      <4>1. PICK q \in Seq(names), x \in names : q = p[t[a].parent] /\ x = t[a].name
        BY <3>2
      <4>2. PICK r \in Seq(names), y \in names : r = p[t[b].parent] /\ y = t[b].name
        BY <3>2
      <4>3. Append(q, x) = Append(r, y)
        BY <1>1, <3>2, <4>1, <4>2
      <4>4. q = r /\ x = y
        BY <4>3, LongerSame
      <4> QED
        BY <4>1, <4>2, <4>4
    <3>4. Len(p[t[a].parent]) \in Nat /\ Len(p[a]) = Len(p[t[a].parent]) + 1
      BY <3>2, Longer
    <3> QED
      BY <3>1, <3>2, <3>3, <3>4
  <2> QED
    BY <2>2, <2>3
<1>2. 0 \in K
  BY <1>1
<1>3. ASSUME NEW k \in Nat, k \in K
      PROVE  k + 1 \in K
  <2>1. ASSUME NEW a \in Ids(t), NEW b \in Ids(t), Len(p[a]) = k + 1, p[a] = p[b], a # b
        PROVE  FALSE
    <3>1. /\ a \in DOMAIN t /\ b \in DOMAIN t
          /\ t[a].parent \in Ids(t) /\ t[b].parent \in Ids(t)
          /\ Len(p[t[a].parent]) \in Nat /\ Len(p[a]) = Len(p[t[a].parent]) + 1
          /\ p[t[a].parent] = p[t[b].parent] /\ t[a].name = t[b].name
      BY <1>1, <2>1
    <3>2. Len(p[t[a].parent]) = k
      BY <2>1, <3>1
    <3>3. t[a].parent = t[b].parent
      BY <1>3, <3>1, <3>2
    <3> QED
      BY <2>1, <3>1, <3>3 DEF IsTree
  <2> QED
    BY <2>1
<1>4. Nat \subseteq K
  <2> HIDE DEF K
  <2> QED
    BY <1>2, <1>3, Induction
<1>5. Len(p[i]) \in Nat
  BY PathFacts
<1> QED
  BY <1>4, <1>5

\* What is below an id is below an entry in it.
LEMMA BelowChild ==
  ASSUME NEW t, NEW names, IsDrive(t, names), IsTree(t), NEW p, p = PathOf(t),
         NEW i \in Ids(t), NEW j \in Ids(t), IsPrefix(p[i], p[j]), i # j
  PROVE  \E c \in Children(t, i) : IsPrefix(p[c], p[j])
<1> DEFINE Holds(b) == \E c \in Children(t, i) : IsPrefix(p[c], p[b])
           K == { k \in Nat : \A b \in Ids(t) :
                              Len(p[b]) = k /\ IsPrefix(p[i], p[b]) /\ i # b => Holds(b) }
<1>1. ASSUME NEW b \in Ids(t), IsPrefix(p[i], p[b]), i # b
      PROVE  /\ b \in DOMAIN t /\ t[b].parent \in Ids(t)
             /\ Len(p[t[b].parent]) \in Nat /\ Len(p[b]) = Len(p[t[b].parent]) + 1
             /\ IsPrefix(p[i], p[t[b].parent])
             /\ Holds(t[b].parent) => Holds(b)
  <2>1. p[i] \in Seq(names) /\ p[b] \in Seq(names) /\ p[i] # p[b]
    BY <1>1, PathFacts, PathsDiffer
  <2>2. b \in DOMAIN t
    <3>1. CASE b = RootId
      <4>1. p[b] = << >>
        BY <3>1, PathFacts DEF Root
      <4>2. Len(p[i]) \in Nat /\ Len(p[i]) <= Len(p[b]) /\ Len(p[b]) = 0
        BY <1>1, <2>1, <4>1, PrefixWhole
      <4> QED
        BY <1>1, <2>1, <4>2, PrefixWhole
    <3> QED
      BY <3>1 DEF Ids
  <2>3. /\ t[b].parent \in Ids(t) /\ p[t[b].parent] \in Seq(names) /\ t[b].name \in names
        /\ p[b] = Append(p[t[b].parent], t[b].name)
    BY <2>2, PathFacts
  <2>4. PICK r \in Seq(names), x \in names : r = p[t[b].parent] /\ p[b] = Append(r, x)
    BY <2>3
  <2>5. /\ Len(r) \in Nat /\ Len(p[b]) = Len(r) + 1 /\ IsPrefix(r, p[b])
        /\ IsPrefix(p[i], r)
    BY <1>1, <2>1, <2>4, Longer, PrefixLonger
  <2>6. ASSUME Holds(t[b].parent)
        PROVE  Holds(b)
    <3>1. PICK c \in Children(t, i) : IsPrefix(p[c], r)
      BY <2>4, <2>6
    <3>2. p[c] \in Seq(names)
      BY <3>1, PathFacts DEF Children, Ids
    <3>3. IsPrefix(p[c], p[b])
      BY <2>1, <2>5, <3>1, <3>2, PrefixThrough
    <3> QED
      BY <3>3
  <2> QED
    BY <2>2, <2>3, <2>4, <2>5, <2>6
<1>2. ASSUME NEW b \in Ids(t), b \in DOMAIN t, t[b].parent = i
      PROVE  Holds(b)
  <2>1. b \in Children(t, i)
    BY <1>2 DEF Children
  <2>2. IsPrefix(p[b], p[b])
    BY PathFacts, PrefixSelf
  <2> QED
    BY <2>1, <2>2
<1> HIDE DEF Holds
<1>3. 0 \in K
  BY <1>1
<1>4. ASSUME NEW k \in Nat, k \in K
      PROVE  k + 1 \in K
  <2>1. ASSUME NEW b \in Ids(t), Len(p[b]) = k + 1, IsPrefix(p[i], p[b]), i # b
        PROVE  Holds(b)
    <3>1. PICK a : a = t[b].parent
      OBVIOUS
    <3>2. /\ b \in DOMAIN t /\ a \in Ids(t) /\ Len(p[a]) = k
          /\ IsPrefix(p[i], p[a]) /\ (Holds(a) => Holds(b))
      BY <1>1, <2>1, <3>1
    <3>3. CASE a = i
      BY <1>2, <3>1, <3>2, <3>3
    <3>4. CASE a # i
      BY <1>4, <3>2, <3>4
    <3> QED
      BY <3>3, <3>4
  <2> QED
    BY <2>1
<1>5. Nat \subseteq K
  <2> HIDE DEF K
  <2> QED
    BY <1>3, <1>4, Induction
<1>6. Len(p[j]) \in Nat
  BY PathFacts
<1>7. Holds(j)
  BY <1>5, <1>6
<1> QED
  BY <1>7 DEF Holds
==============================================================================
