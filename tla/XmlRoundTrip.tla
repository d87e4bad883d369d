---------------------------- MODULE XmlRoundTrip ----------------------------
(***************************************************************************)
(* What Encoder.EncodeToken writes, Decoder.Token reads: the bodies this   *)
(* server sends are written by the one, and those it is sent read by the   *)
(* other.  Tokens are written one by one, and each item is read as soon as *)
(* it is there.                                                            *)
(***************************************************************************)
EXTENDS XmlPrinter, XmlDecoder

CONSTANTS
  NameSpaces, \* name spaces of elements and attributes
  Elements,   \* names of elements
  AttrLists,  \* the attributes an element may be given
  Others,     \* tokens that are neither starts nor ends
  MaxDepth,   \* bound: elements open at a time
  MaxSeq      \* bound: prefixes numbered

\* A name without a colon, other than xmlns.
Plainly(local) == Len(local) = 1 /\ local[1] # "xmlns"

\* An attribute declares a prefix or the default name space, or it is a name
\* in a name space, or it is one the printer refuses.
Proper(a) ==
  \/ a.name.space = "xmlns" /\ Len(a.name.local) = 1 /\ a.name.local[1] \notin Reserved
  \/ a.name.local = << "xmlns" >> /\ a.name.space \notin {"xmlns", "xml", xmlURL}
  \/ a.name.space \in NameSpaces \ {"xmlns"} /\ Plainly(a.name.local)

\* What a caller may encode: names and declarations that are XML's, and name
\* spaces whose prefixes are.
ASSUME TokensAssumption ==
  /\ MaxSeq \in Nat /\ MaxNumber \in Nat /\ MaxSeq <= MaxNumber
  /\ \A url \in NameSpaces :
       /\ url \in STRING
       /\ Hint(url) \in STRING /\ Hint(url) \notin Reserved
       /\ \A n \in 1..MaxNumber + 1 :
            /\ numberedPrefix(Hint(url), n) \in STRING
            /\ numberedPrefix(Hint(url), n) \notin Reserved
  /\ \A name \in Elements :
       name \in [space : NameSpaces, local : Seq(STRING)] /\ Plainly(name.local)
  /\ \A attr \in AttrLists :
       /\ attr \in Seq([name : [space : STRING, local : Seq(STRING)], value : STRING])
       /\ \A i \in DOMAIN attr : Proper(attr[i])
  /\ \A t \in Others : t.kind \in {"CharData", "Comment", "Directive", "ProcInst"}

VARIABLES
  p,    \* the printer
  d,    \* the decoder that reads what it wrote
  sent, \* the last token encoded
  item, \* what was written for it
  got   \* the token read from that

tokenVars == << p, d, sent, item, got >>

TokenInit ==
  /\ p = NewPrinter
  /\ d = NewDecoder
  /\ sent = Other("none")
  /\ item = Other("none")
  /\ got = Other("none")

\* One call of EncodeToken that gives no error, and of Token; after an error
\* the caller gives the document up.
Encode(t) ==
  LET w == EncodeToken(p, t)
      r == Token(d, w.item)
  IN  /\ ~w.err
      /\ p' = w.p
      /\ d' = r.d
      /\ sent' = t
      /\ item' = w.item
      /\ got' = r.tok

EncodeStart ==
  /\ Len(p.tags) < MaxDepth
  /\ \E name \in Elements, attr \in AttrLists, dflt \in BOOLEAN :
       LET start == StartElement(name, attr)
       IN  Encode(IF dflt THEN setDefaultNamespace(start) ELSE start)
  /\ p'.seq <= MaxSeq

EncodeEnd == \E name \in Elements : Encode(EndElement(name))

EncodeRest == \E t \in Others : Encode(t)

TokenNext == EncodeStart \/ EncodeEnd \/ EncodeRest

TokenSpec == TokenInit /\ [][TokenNext]_tokenVars

-----------------------------------------------------------------------------
(* What is written and read.                                               *)

\* The attributes of a start element that declare no name space.
Undeclaring(attr) ==
  FoldLeft(LAMBDA s, a : IF isNamespace(a.name) THEN s ELSE Append(s, a), << >>, attr)

\* The printer's marks, and the decoder's open elements up to the i-th entry.
Marks == {i \in DOMAIN p.prefixes : p.prefixes[i].mark}
OpenUpTo(i) == {j \in 1..i : d.stk[j].kind = "Start"}

\* The printer and the decoder are what their fields may hold; the printer has
\* a mark for each open element, and the decoder has the same elements open,
\* in the same order.
TypeOK ==
  /\ \A i \in DOMAIN p.prefixes : p.prefixes[i] \in [prefix : STRING, url : STRING, mark : BOOLEAN]
  /\ Cardinality(Marks) = Len(p.tags)
  /\ Cardinality(OpenUpTo(Len(d.stk))) = Len(p.tags)
  /\ \A i \in OpenUpTo(Len(d.stk)) : d.stk[i] = StkStart(p.tags[Cardinality(OpenUpTo(i))])
  /\ "" \notin DOMAIN p.attrNS \cup DOMAIN p.attrPrefix
  /\ d.err = "nil"

\* A token is read as it was encoded: the element's name and the attributes
\* that declare no name space keep their name spaces and values, whatever
\* prefixes are in scope, are redefined or run out.  A start element whose
\* attributes differ in name is written with no attribute twice.
ReadsBack ==
  /\ got.kind = sent.kind
  /\ sent.kind \in {"Start", "End"} => got.name = sent.name
  /\ sent.kind = "Start" => Undeclaring(got.attr) = Undeclaring(sent.attr)
  /\ sent.kind = "Start" /\ (\A i, j \in DOMAIN sent.attr :
                               sent.attr[i].name = sent.attr[j].name => i = j)
       => \A i, j \in DOMAIN item.attr : item.attr[i].qname = item.attr[j].qname => i = j

\* A prefix has one name space and a name space one prefix: the two maps of
\* the printer are inverse, after any defining, redefining and taking back.
PrefixesBijective ==
  /\ \A prefix \in DOMAIN p.attrNS :
       p.attrNS[prefix] \in DOMAIN p.attrPrefix /\ p.attrPrefix[p.attrNS[prefix]] = prefix
  /\ \A url \in DOMAIN p.attrPrefix :
       p.attrPrefix[url] \in DOMAIN p.attrNS /\ p.attrNS[p.attrPrefix[url]] = url

\* The reader is in the scope the printer thinks it is in: every prefix and
\* the default stand for the same name space to both, and so what an element
\* declared is gone with it on both sides, however the stacks nest.
ScopesAgree ==
  /\ Without(d.ns, "") = p.attrNS
  /\ (IF "" \in DOMAIN d.ns THEN d.ns[""] ELSE "") = p.defaultNS
  /\ p.tags = << >> => p.attrNS = << >> /\ p.defaultNS = "" /\ d.stk = << >>
=============================================================================
