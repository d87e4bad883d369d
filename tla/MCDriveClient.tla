--------------------------- MODULE MCDriveClient ---------------------------
(***************************************************************************)
(* Small drives and sets of calls for model-checking DriveClient.          *)
(***************************************************************************)
EXTENDS DriveClient

\* Calls are only compared with each other.
MCCalls == Permutations(Call)

\* The root, the directories "/a" and "/b", and what may be in them.
MCName == { << >>, << "a" >>, << "b" >>, << "x" >>, << "a", "x" >>,
            << "b", "x" >>, << "b", "a" >>, << "b", "b" >> }

\* The directories "/a" and "/b" with a file "x" in each.
MCTree == [i \in 1 .. 4 |->
             CASE i = 1 -> Entry("a", RootId, TRUE)
               [] i = 2 -> Entry("x", 1, FALSE)
               [] i = 3 -> Entry("b", RootId, TRUE)
               [] i = 4 -> Entry("x", 3, FALSE)]

Lists(dir) == [op |-> "list",   src |-> dir,  dst |-> Root]
Opens(p)   == [op |-> "open",   src |-> p,    dst |-> Root]
Removes(p) == [op |-> "remove", src |-> p,    dst |-> Root]
MakesDir(p) == [op |-> "mkdir",  src |-> p,    dst |-> Root]
Moves(p, q) == [op |-> "move",   src |-> p,    dst |-> q]

\* Readers of "/a" and "/b" against a move between them and a removal.
MCMoveJobs == { Lists(<< "a" >>), Lists(<< "b" >>), Removes(<< "a", "x" >>),
                Moves(<< "a", "x" >>, << "b", "x" >>) }

\* Downloads of the two files.
MCOpenJobs == { Opens(<< "a", "x" >>), Opens(<< "b", "x" >>) }

\* Directories that come and go under one another, and calls that name what
\* is in them.
MCDirJobs == { Lists(<< "b" >>), Removes(<< "b" >>), Removes(<< "b", "x" >>),
               MakesDir(<< "b" >>), MakesDir(<< "b", "b" >>), MakesDir(Root),
               Moves(<< "a" >>, << "b" >>) }

MCJobs == MCMoveJobs \cup MCDirJobs \cup MCOpenJobs

\* A directory of three entries, to be read page by page.
MCPageTree == [i \in 1 .. 4 |->
                 IF i = 1 THEN Entry("a", RootId, TRUE) ELSE Entry("x", 1, FALSE)]
MCPageJobs == { Lists(<< "a" >>) }

\* A file of the root, and no directory "/b".
MCFlatTree == [i \in 1 .. 1 |-> Entry("x", RootId, FALSE)]
MCMissJobs == { Removes(<< "b", "x" >>) }
=============================================================================
