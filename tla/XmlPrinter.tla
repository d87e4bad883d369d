----------------------------- MODULE XmlPrinter -----------------------------
(***************************************************************************)
(* The printer behind Encoder.EncodeToken of webdav/internal/xml: from     *)
(* tokens to the items of a document.  It declares the prefixes names need *)
(* and takes the declarations back at the end of the element.  An          *)
(* operation gives the struct back with the item written, or with an       *)
(* error: [p, item, err].                                                  *)
(***************************************************************************)
EXTENDS XmlTokens

CONSTANTS
  \* What createNSPrefix calls a name space at first: the last element of its
  \* path, or "_" (and never a name that starts with "xml").
  Hint(_),
  \* Bound: the numbers tried for a prefix.
  MaxNumber

NewPrinter ==
  [defaultNS |-> "", attrNS |-> << >>, attrPrefix |-> << >>, prefixes |-> << >>,
   tags |-> << >>, seq |-> 0, buffered |-> FALSE]

\* An undo record, and the mark put below those of an element.
printerPrefix(prefix, url) == [prefix |-> prefix, url |-> url, mark |-> FALSE]
Mark == [prefix |-> "", url |-> "", mark |-> TRUE]

nsForPrefix(p, prefix) ==
  IF prefix = "" THEN p.defaultNS
  ELSE IF prefix \in DOMAIN p.attrNS THEN p.attrNS[prefix] ELSE ""

\* Mutant: the old value of the prefix keeps its entry in the other map.
setAttrPrefix_KeepsOld(p, prefix, url) ==
  IF prefix = "" THEN [p EXCEPT !.defaultNS = url]
  ELSE IF url = ""
    THEN [p EXCEPT !.attrPrefix = Without(@, nsForPrefix(p, prefix)),
                   !.attrNS = Without(@, prefix)]
    ELSE [p EXCEPT !.attrPrefix = With(@, url, prefix), !.attrNS = With(@, prefix, url)]

\* The empty prefix stands for the default name space, the empty url removes.
setAttrPrefix(p, prefix, url) ==
  LET unmapped == Without(p.attrPrefix, nsForPrefix(p, prefix))
  IN  IF prefix = "" THEN [p EXCEPT !.defaultNS = url]
      ELSE IF url = ""
        THEN [p EXCEPT !.attrPrefix = unmapped, !.attrNS = Without(@, prefix)]
        ELSE [p EXCEPT !.attrPrefix = With(unmapped, url, prefix),
                       !.attrNS = With(@, prefix, url)]

pushPrefix(p, prefix, url) ==
  setAttrPrefix([p EXCEPT !.prefixes = Append(@, printerPrefix(prefix, nsForPrefix(p, prefix)))],
                prefix, url)

markPrefix(p) == [p EXCEPT !.prefixes = Append(@, Mark)]

\* The undo records of the innermost element.
Declared(p) == SubSeq(p.prefixes, SelectLastInSeq(p.prefixes, LAMBDA r : r.mark) + 1,
                      Len(p.prefixes))

\* Mutant: the records are undone in the order they were made.
popPrefix_FirstFirst(p) ==
  LET undone == FoldLeft(LAMBDA q, r : setAttrPrefix(q, r.prefix, r.url), p, Declared(p))
  IN  [undone EXCEPT !.prefixes = SubSeq(@, 1, Len(@) - Len(Declared(p)) - 1)]

\* The last record is undone first; then the mark goes.
Undone(p, records) == FoldRight(LAMBDA r, q : setAttrPrefix(q, r.prefix, r.url), records, p)

popPrefix(p) ==
  [Undone(p, Declared(p)) EXCEPT !.prefixes = SubSeq(@, 1, Len(@) - Len(Declared(p)) - 1)]

-----------------------------------------------------------------------------
(* Which prefix a name gets.                                               *)

\* An attribute that would redefine the prefix xmlns.
Redefines(attr) ==
  attr.name.local = << "xmlns" >> /\ attr.name.space \notin {"", "xml", xmlURL}

\* Mutant: a second prefix for a name space that has one.
defineNS_Twice(p, attr, ignoreNonEmptyDefault) ==
  LET prefix == IF attr.name.local = << "xmlns" >> THEN "" ELSE Head(attr.name.local)
  IN  IF \/ ~isNamespace(attr.name)
         \/ prefix # "" /\ attr.value = ""
         \/ prefix = "" /\ (attr.value = p.defaultNS \/ (attr.value # "" /\ ignoreNonEmptyDefault))
        THEN p ELSE pushPrefix(p, prefix, attr.value)

\* One attribute of a start element: a declaration is taken up, unless it says
\* nothing new, takes a prefix back, gives a name space its second prefix, or
\* gives an element of no name space a default one.
defineNS(p, attr, ignoreNonEmptyDefault) ==
  LET prefix == IF attr.name.local = << "xmlns" >> THEN "" ELSE Head(attr.name.local)
  IN  IF \/ ~isNamespace(attr.name)
         \/ prefix # "" /\ (attr.value = "" \/ attr.value \in DOMAIN p.attrPrefix)
         \/ prefix = "" /\ (attr.value = p.defaultNS \/ (attr.value # "" /\ ignoreNonEmptyDefault))
        THEN p ELSE pushPrefix(p, prefix, attr.value)

numberedPrefix(prefix, n) == prefix \o "_" \o ToString(n)

\* A free prefix made of a taken one and the next number that will do.
Numbered(p, prefix) ==
  LET free == {n \in p.seq + 1..MaxNumber : numberedPrefix(prefix, n) \notin DOMAIN p.attrNS}
      n    == Min(free \cup {MaxNumber + 1})
  IN  [seq |-> n, prefix |-> numberedPrefix(prefix, n)]

\* Mutant: the taken prefix is used all the same.
createNSPrefix_Taken(p, url, isAttr) ==
  IF \/ url \in DOMAIN p.attrPrefix \cup {xmlURL}
     \/ ~isAttr /\ url = p.defaultNS
    THEN p
  ELSE IF url = "" THEN IF p.defaultNS = "" THEN p ELSE pushPrefix(p, "", "")
  ELSE pushPrefix(p, Hint(url), url)

\* A prefix for a name space that has none.  No name space is the default one,
\* which is set back when it has to be.
createNSPrefix(p, url, isAttr) ==
  LET n == Numbered(p, Hint(url))
  IN  IF \/ url \in DOMAIN p.attrPrefix \cup {xmlURL}
         \/ ~isAttr /\ url = p.defaultNS
        THEN p
      ELSE IF url = "" THEN IF p.defaultNS = "" THEN p ELSE pushPrefix(p, "", "")
      ELSE IF Hint(url) \notin DOMAIN p.attrNS THEN pushPrefix(p, Hint(url), url)
      ELSE pushPrefix([p EXCEPT !.seq = n.seq], n.prefix, url)

prefixForNS(p, url, isAttr) ==
  IF url = xmlURL THEN "xml"
  ELSE IF (isAttr \/ url # p.defaultNS) /\ url \in DOMAIN p.attrPrefix THEN p.attrPrefix[url]
  ELSE ""

writeName(p, name, isAttr) ==
  LET prefix == prefixForNS(p, name.space, isAttr)
  IN  IF prefix = "" THEN name.local ELSE << prefix >> \o name.local

\* The declarations of this element, the last first.
writeNamespaces(p) ==
  LET attr(r) == AttrText(IF r.prefix = "" THEN << "xmlns" >> ELSE << "xmlns", r.prefix >>,
                          nsForPrefix(p, r.prefix))
      last   == Reverse(Declared(p))
  IN  [i \in DOMAIN last |-> attr(last[i])]

-----------------------------------------------------------------------------
(* Tokens.                                                                 *)

\* An element makes its name space the default for what it holds, unless it
\* says itself what that is.
setDefaultNamespace(start) ==
  IF start.name.space = "" \/ \E i \in DOMAIN start.attr : start.attr[i].name = Name("", << "xmlns" >>)
    THEN start
    ELSE [start EXCEPT !.attr = Append(@, Attr(Name("", << "xmlns" >>), start.name.space))]

Wrote(p, item) == [p |-> [p EXCEPT !.buffered = TRUE], item |-> item, err |-> FALSE]
EncodeError(p) == [p |-> p, item |-> Other("none"), err |-> TRUE]

\* The prefixes of a start element: the declared ones first, so that they take
\* precedence, then those its attributes need, then the one its name needs.
DeclaredBy(p, attr, ignoreNonEmptyDefault) ==
  FoldLeft(LAMBDA q, a : defineNS(q, a, ignoreNonEmptyDefault), p, attr)

neededBy(p, a) ==
  IF a.name.space = "" \/ isNamespace(a.name) THEN p ELSE createNSPrefix(p, a.name.space, TRUE)

NeededBy(p, attr) == FoldLeft(neededBy, p, attr)

Prefixed(p, start) ==
  LET pushed   == markPrefix([p EXCEPT !.tags = Append(@, start.name)])
      declared == DeclaredBy(pushed, start.attr, start.name.space = "")
  IN  createNSPrefix(NeededBy(declared, start.attr), start.name.space, FALSE)

\* The tag that is written with these prefixes.
writeAttrs(p, attr) ==
  FoldLeft(LAMBDA s, a : IF a.name.local = << >> \/ isNamespace(a.name) THEN s
                         ELSE Append(s, AttrText(writeName(p, a.name, TRUE), a.value)),
           << >>, attr)

StartTagOf(p, start) ==
  Wrote(p, StartTag(writeName(p, start.name, FALSE),
                    writeNamespaces(p) \o writeAttrs(p, start.attr), FALSE))

writeStart(p, start) ==
  IF start.name.local = << >> \/ \E i \in DOMAIN start.attr : Redefines(start.attr[i])
    THEN EncodeError(p)
    ELSE StartTagOf(Prefixed(p, start), start)

\* The name is written before its prefix is taken back.
writeEnd(p, name) ==
  IF name.local = << >> \/ p.tags = << >> \/ Last(p.tags) # name THEN EncodeError(p)
  ELSE Wrote(popPrefix([p EXCEPT !.tags = Front(@)]), EndTag(writeName(p, name, FALSE)))

\* What may not hold its own end (valid), and the XML declaration (decl), which
\* may only come first: nothing is flushed before the document is over.
EncodeOther(p, t) ==
  IF ~t.valid \/ (t.decl /\ p.buffered) THEN EncodeError(p)
  ELSE Wrote(p, IF t.kind = "ProcInst" THEN [kind |-> "ProcInst", supported |-> TRUE]
                ELSE Other(t.kind))

EncodeToken(p, t) ==
  CASE t.kind = "Start"    -> writeStart(p, t)
    [] t.kind = "End"      -> writeEnd(p, t.name)
    [] t.kind = "CharData" -> Wrote(p, t)
    [] OTHER               -> EncodeOther(p, t)
=============================================================================
