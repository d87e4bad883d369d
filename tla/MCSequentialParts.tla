-------------------------- MODULE MCSequentialParts --------------------------
(***************************************************************************)
(* Small inputs for every part of SequentialParts.                         *)
(***************************************************************************)
EXTENDS SequentialParts

(* Tokens: three name spaces, one of them none; the prefixes n and n_1. n is  *)
(* also what createNSPrefix calls both name spaces, and n_1 what it tries     *)
(* next.                                                                      *)
Spaces == {"", "u", "v"}

MCHint(url) == "n"

MCNameSpaces == Spaces \cup {xmlURL}

MCElements == {Name(space, << "e" >>) : space \in Spaces}

Declaration(prefix, url) == Attr(Name("xmlns", << prefix >>), url)
Default(url) == Attr(Name("", << "xmlns" >>), url)
Plain(space) == Attr(Name(space, << "k" >>), "x")

MCAttrLists ==
  {<< >>, << Plain("v"), Plain("u") >>, << Plain("u"), Declaration("n", "v") >>,
   << Declaration("n", "u"), Declaration("n", "v") >>}
  \cup {<< a >> : a \in {Declaration("n", "u"), Declaration("n", "v"), Declaration("n_1", "u"),
                         Declaration("n", ""), Default(""), Default("v"), Plain("u"), Plain(""),
                         Plain(xmlURL)}}
  \cup {<< a, b >> : a \in {Declaration("n", "u"), Declaration("n", "v"), Default("v")},
                     b \in {Declaration("n_1", "u"), Plain("u"), Plain("v")}}

NoElement(kind, decl) == [kind |-> kind, valid |-> TRUE, decl |-> decl]

MCOthers == {CharData("x"), NoElement("Comment", FALSE), NoElement("ProcInst", TRUE)}

(* Structs: fields with and without a name space, with paths that share       *)
(* parents or end where another begins, attributes and text, one embedded     *)
(* deeper than the other, with or without a value; and those that take a name  *)
(* or a name space from the XMLName of the struct they are embedded with or    *)
(* of their own type.                                                          *)
Decl(xmlns, path, flags, depth, nil) ==
  [xmlns |-> xmlns, path |-> path, flags |-> flags, encl |-> NoName, xmlname |-> NoName,
   depth |-> depth, nil |-> nil]

Embedded(path) == [Decl("", path, {}, 2, FALSE) EXCEPT !.encl = Name("u", << "e" >>)]
OfType(path)   == [Decl("", path, {}, 1, FALSE) EXCEPT !.xmlname = Name("u", << "x" >>)]

MCDecls ==
  {Decl(xmlns, path, {}, 1, FALSE) :
     xmlns \in Spaces, path \in {<< "x" >>, << "a" >>, << "a", "x" >>, << "a", "b", "x" >>}}
  \cup {Decl(xmlns, path, {}, how[1], how[2]) :
          xmlns \in {"", "u"}, path \in {<< "x" >>, << "a", "x" >>, << "a", "b", "x" >>},
          how \in {<< 1, TRUE >>, << 2, FALSE >>}}
  \cup {Decl(xmlns, << "x" >>, {"attr"}, 1, FALSE) : xmlns \in {"", "u"}}
  \cup {Decl("", << >>, {"chardata"}, 1, FALSE), Decl("", << "a", "" >>, {}, 1, FALSE),
        Decl("", << "", "x" >>, {}, 1, FALSE)}
  \cup {Embedded(<< "x" >>), Embedded(<< "a", "x" >>), Embedded(<< >>),
        OfType(<< >>), OfType(<< "y" >>)}
  \cup {Decl(xmlns, << "a", "x" >>, {"omitempty"}, 1, FALSE) : xmlns \in {"", "u"}}
  \cup {Decl("", << "x" >>, {"attr", "omitempty"}, 1, FALSE),
        Decl("", << >>, {"chardata", "omitempty"}, 1, FALSE)}

MCRootNames == {Name("", << "r" >>), Name("u", << "r" >>)}

(* Texts: what XML's rules meet in, with references.  Headers: every kind of  *)
(* token, names with the delimiters of others in them, stray brackets.        *)
MCText ==
  {T!Chr(c) : c \in {"x", "]", ">", "<", "&", "\"", "CR", "LF", "ILLEGAL"}}
  \cup {T!Ref("CR"), T!Ref("]"), T!Ref("ILLEGAL")}

MCHeader ==
  {H!Paren("("), H!Paren(")"), H!Space, H!NotWord, H!Word(<< "a" >>), H!Angle(<< "a" >>),
   H!Angle(<< "(", "Not", "[", " " >>), H!Square(<< "<", ")" >>), H!Stray("<"), H!Stray("]")}

MCList == << H!Paren("("), H!Word(<< "a" >>), H!Paren(")") >>

MCPieces(part_) ==
  CASE part_ = "struct"  -> MCDecls
    [] part_ = "text"    -> MCText
    [] part_ = "header"  -> MCHeader
    [] part_ = "message" -> {0, 7, 255}

MCSeeds(part_) ==
  CASE part_ = "header"  -> {<< >>, MCList, << H!Angle(<< "b" >>) >> \o MCList}
    [] part_ = "message" -> {<< >>, [i \in 1..12 |-> i]}
    [] OTHER             -> {<< >>}

MCMaxMore == [struct |-> 3, text |-> 4, header |-> 4, message |-> 5]

(* Messages: any keys will do.                                                *)
MCxorKeySeed(i)  == (i * 89 + 240) % 256
MCxorClientKey   == [i \in 1..12 |-> (i * 71) % 256]
MCKey            == [i \in 1..16 |-> (i * 37) % 256]
MCServerKey      == [i \in 1..16 |-> (i * 59 + 200) % 256]
=============================================================================
