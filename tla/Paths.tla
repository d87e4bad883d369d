------------------------------- MODULE Paths -------------------------------
(***************************************************************************)
(* Resource names.  slashClean (webdav/file.go, 115/client.go) turns every *)
(* URL path into a rooted path without empty, "." or ".." elements; such a *)
(* path is the sequence of its elements, and "/" is the empty sequence.    *)
(***************************************************************************)
EXTENDS Integers, Sequences, FiniteSets

CONSTANTS
  Component,   \* the path elements in use (file and directory names)
  Name         \* the cleaned paths in use

Root == << >>

\* The names walkToRoot (lock.go) visits: name itself, then each ancestor.
WalkToRoot(name) == { SubSeq(name, 1, k) : k \in 0 .. Len(name) }

ASSUME NameAssumption ==
  /\ Root \in Name
  /\ Name \subseteq Seq(Component)
  /\ \A n \in Name : WalkToRoot(n) \subseteq Name

\* Is name strictly below dir?  (strings.HasPrefix(name, dir + "/"), with
\* the case dir = "/" that lock.go's lookup tests first.)
Below(name, dir) == name # dir /\ dir \in WalkToRoot(name)

\* path.Split: the directory part, cleaned, and the last element.
DirOf(name)  == SubSeq(name, 1, Len(name) - 1)
BaseOf(name) == name[Len(name)]
=============================================================================
