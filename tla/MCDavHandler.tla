---------------------------- MODULE MCDavHandler ----------------------------
(***************************************************************************)
(* Requests that meet on a few names, for model-checking DavHandler.       *)
(***************************************************************************)
EXTENDS DavHandler

\* "/a", "/a/b" below it, and "/c".
MCName == { << >>, << "a" >>, << "a", "b" >>, << "c" >> }

Of(method, src, dst) ==
  [method |-> method, src |-> src, dst |-> dst, ifHeader |-> FALSE, lists |-> << >>]

\* The same with an If header, whose lists are for these names.
If(lists, job) == [job EXCEPT !.ifHeader = TRUE, !.lists = lists]

\* Removals and moves there and back, a new directory below one of them, a
\* move of a name to itself, written with another slash, and requests with
\* lists for their own name, for others, and with a tag that has no path.
MCJobs ==
  { Of("DELETE", << "a" >>, NoName), Of("MKCOL", << "a", "b" >>, NoName),
    Of("MOVE", << "a" >>, << "c" >>), Of("MOVE", << "c" >>, << "a" >>),
    Of("MOVE", << "c" >>, << "c" >>), Of("READ", << "a" >>, NoName),
    If(<< << "c" >>, << "a" >> >>, Of("DELETE", << "c" >>, NoName)),
    If(<< << "c" >>, NoName >>, Of("DELETE", << "c" >>, NoName)),
    If(<< NoName >>, Of("MOVE", << "a" >>, << "c" >>)) }
=============================================================================
