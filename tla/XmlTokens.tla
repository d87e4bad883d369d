----------------------------- MODULE XmlTokens -----------------------------
(***************************************************************************)
(* Names, attributes and tokens of webdav/internal/xml, the fork of        *)
(* encoding/xml that reads and writes the bodies.  What a document says is *)
(* a sequence of items: tags, text, and so on.  A name as it is written is *)
(* the sequence of its parts between colons, since the code puts a prefix  *)
(* in front of a name and cuts it off again.                               *)
(***************************************************************************)
EXTENDS Naturals, SequencesExt

\* The name space of the prefix "xml".
xmlURL == "http://www.w3.org/XML/1998/namespace"

\* A name: the name space (or, before it is translated, the prefix) and the
\* local part.
Name(space, local) == [space |-> space, local |-> local]

\* Prefixes no document declares: "xml" and "xmlns" are XML's own, and no url
\* is a prefix.
Reserved == {"", "xml", "xmlns", xmlURL}

\* They are strings, as the proofs have to be told.
ASSUME StringsAssumption == \A s \in Reserved : s \in STRING

\* Does an attribute of this name declare a name space?
isNamespace(name) == name.local = << "xmlns" >> \/ name.space = "xmlns"

Attr(name, value)        == [name |-> name, value |-> value]
StartElement(name, attr) == [kind |-> "Start", name |-> name, attr |-> attr]
EndElement(name)         == [kind |-> "End", name |-> name]
CharData(data)           == [kind |-> "CharData", data |-> data]

\* The items of a document: <qname attr...>, or <qname attr.../> when empty;
\* </qname>; and one that is not well-formed.
StartTag(qname, attr, empty) ==
  [kind |-> "Start", qname |-> qname, attr |-> attr, empty |-> empty]
EndTag(qname) == [kind |-> "End", qname |-> qname]
AttrText(qname, value) == [qname |-> qname, value |-> value]
Other(kind) == [kind |-> kind]

\* A map of the code with the entry of x set to y, and without it.
With(f, x, y) == [z \in DOMAIN f \cup {x} |-> IF z = x THEN y ELSE f[z]]
Without(f, x) == Restrict(f, DOMAIN f \ {x})

\* nsname: a name is cut at its first colon.
nsname(qname) ==
  IF Len(qname) = 1 THEN Name("", qname) ELSE Name(Head(qname), Tail(qname))
=============================================================================
