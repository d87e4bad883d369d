------------------------------ MODULE MCWalkFS ------------------------------
(***************************************************************************)
(* A small drive and requests for model-checking WalkFS.                   *)
(***************************************************************************)
EXTENDS WalkFS

MCName == { << >>, << "a" >>, << "x" >>, << "b" >>, << "a", "b" >>, << "b", "a" >> }

\* "/a" with "/a/b" in it and "/a/b/x" below, "/x", and "/y": three in the root,
\* which are two pages.
MCTree == [i \in 1 .. 5 |->
             CASE i = 1 -> Entry("a", RootId, TRUE)
               [] i = 2 -> Entry("b", 1, TRUE)
               [] i = 3 -> Entry("y", RootId, FALSE)
               [] i = 4 -> Entry("x", 2, FALSE)
               [] i = 5 -> Entry("x", RootId, FALSE)]

Find(path, depth) == [path |-> path, depth |-> depth]

\* The root, a directory in and below it, and a file, to every depth.
MCJobs == { Find(p, d) : p \in { << >>, << "a" >>, << "a", "b" >>, << "x" >> },
                         d \in {0, 1, infiniteDepth} }

\* The drive is a tree, and these requests' directories are in it.
ASSUME MCRegular == IsTree(MCTree) /\ \A j \in MCJobs : HasDir(MCTree, j.path)

\* A name in a directory "/b" that does not exist.
MCMissJobs == { Find(<< "b", "a" >>, infiniteDepth) }
=============================================================================
