----------------------------- MODULE MCPropfind -----------------------------
(* Bodies over the elements of propfind, with and without a declaration of    *)
(* their own, and the names getcontentlength, in DAV: a property of files, and *)
(* b:x, whose prefix may be declared or not.                                  *)
EXTENDS Propfind

MCHint(url) == "_"

Tag(qname, declared, empty) ==
  StartTag(qname, [i \in DOMAIN declared |-> AttrText(declared[i][1], declared[i][2])], empty)

Dflt(url) == << << "xmlns" >>, url >>
Pre(url)  == << << "xmlns", "b" >>, url >>

MCStartTags ==
  {Tag(<< "propfind" >>, << Dflt("DAV:") >>, FALSE),
   Tag(<< "prop" >>, << >>, FALSE),
   Tag(<< "b", "prop" >>, << Pre("DAV:"), Dflt("u") >>, FALSE),
   Tag(<< "include" >>, << >>, FALSE),
   Tag(<< "allprop" >>, << >>, TRUE),
   Tag(<< "propname" >>, << >>, TRUE),
   Tag(<< "getcontentlength" >>, << >>, TRUE),
   Tag(<< "b", "x" >>, << >>, TRUE),
   Tag(<< "x" >>, << Dflt("") >>, FALSE)}
MCOthers == {CharData("x"), Other("Comment"), Other("EOF")}
=============================================================================
