----------------------------- MODULE XmlDecoder -----------------------------
(***************************************************************************)
(* The Decoder of webdav/internal/xml/xml.go: from the items of a document *)
(* to tokens with translated name spaces.  An operation takes the struct d *)
(* and gives it back with the token, as [d, tok]; an error is a token of   *)
(* the kind "EOF" or "SyntaxError".  Which characters make an item is left *)
(* out, and so are the fields nobody in this program sets: Strict stays    *)
(* true, DefaultSpace and CharsetReader stay empty.                        *)
(***************************************************************************)
EXTENDS XmlTokens

\* The struct: the stack of open elements and name space undo records, the
\* top last, and the translations of the prefixes.
NewDecoder ==
  [stk |-> << >>, ns |-> << >>, needClose |-> FALSE, toClose |-> Name("", << >>),
   err |-> "nil"]

StkStart(name)       == [kind |-> "Start", name |-> name]
StkNs(prefix, url, ok) == [kind |-> "Ns", prefix |-> prefix, url |-> url, ok |-> ok]
StkEOF               == [kind |-> "EOF"]

Fail(d, err) == [d |-> [d EXCEPT !.err = err], tok |-> Other(err)]

\* Is the mark of pushEOF on top of the stack?
AtEOF(d) == d.stk # << >> /\ Last(d.stk).kind = "EOF"

\* Does the next call of Token read from the document?
Reads(d) == ~d.needClose /\ d.err = "nil" /\ ~AtEOF(d)

-----------------------------------------------------------------------------
(* rawToken, for each kind of item.                                        *)

\* <name attr="value"...>; of <name.../> the end is kept for the next call.
rawStart(d, item) ==
  LET name == nsname(item.qname)
      attr == [i \in DOMAIN item.attr |->
                 Attr(nsname(item.attr[i].qname), item.attr[i].value)]
  IN  [d   |-> IF item.empty THEN [d EXCEPT !.needClose = TRUE, !.toClose = name] ELSE d,
       tok |-> StartElement(name, attr)]

\* <?target ...?>: only XML 1.0 in UTF-8 is read on.
rawProcInst(d, item) ==
  IF item.supported THEN [d |-> d, tok |-> Other("ProcInst")] ELSE Fail(d, "SyntaxError")

\* Text, comments and directives are handed on.
rawOther(d, item) == [d |-> d, tok |-> item]

\* An error stays; the second half of an empty element comes before anything
\* is read.
rawToken(d, item) ==
  CASE d.err # "nil"           -> Fail(d, d.err)
    [] d.needClose             -> [d   |-> [d EXCEPT !.needClose = FALSE],
                                   tok |-> EndElement(d.toClose)]
    [] item.kind = "Start"     -> rawStart(d, item)
    [] item.kind = "End"       -> [d |-> d, tok |-> EndElement(nsname(item.qname))]
    [] item.kind = "ProcInst"  -> rawProcInst(d, item)
    [] item.kind \in {"EOF", "SyntaxError"} -> Fail(d, item.kind)
    [] OTHER                   -> rawOther(d, item)

-----------------------------------------------------------------------------
(* Name spaces and nesting.                                                *)

\* The default name space is for elements, not for attributes.
translate(ns, n, isElementName) ==
  LET url == IF n.space = "xml" THEN xmlURL ELSE n.space
  IN  IF \/ n.space = "xmlns"
         \/ n.space = "" /\ (~isElementName \/ n.local = << "xmlns" >>)
        THEN n
        ELSE [n EXCEPT !.space = IF url \in DOMAIN ns THEN ns[url] ELSE url]

\* One attribute of a start element that declares a name space: the old value
\* of the prefix goes on the stack.
pushNs(d, a) ==
  LET prefix == IF a.name.space = "xmlns" THEN Head(a.name.local) ELSE ""
      ok     == prefix \in DOMAIN d.ns
  IN  IF a.name.space = "xmlns" \/ a.name = Name("", << "xmlns" >>)
        THEN [d EXCEPT !.stk = Append(@, StkNs(prefix, IF ok THEN d.ns[prefix] ELSE "", ok)),
                       !.ns  = With(@, prefix, a.value)]
        ELSE d

pushAllNs(d, attr) == FoldLeft(pushNs, d, attr)

pushElement(d, name) == [d EXCEPT !.stk = Append(@, StkStart(name))]

\* How many entries of the stack there are up to the last that is no undo
\* record.
Floor(stk) == SelectLastInSeq(stk, LAMBDA s : s.kind # "Ns")

\* Mutant: the undo records stay on the stack's values.
Undo_Forgets(ns, s) == ns

\* The translation of one prefix as it was before.
Undo(ns, s) ==
  IF s.ok THEN With(ns, s.prefix, s.url) ELSE Without(ns, s.prefix)

UndoAll(ns, records) == FoldRight(LAMBDA s, m : Undo(m, s), records, ns)

\* The end of an element must match the top of the stack; then the undo
\* records below it are applied, the last first.
popElement(d, name) ==
  LET rest  == Front(d.stk)
      floor == Floor(rest)
  IN  IF d.stk = << >> \/ Last(d.stk) # StkStart(name) THEN Fail(d, "SyntaxError")
      ELSE [d   |-> [d EXCEPT !.stk = SubSeq(rest, 1, floor),
                              !.ns  = UndoAll(@, SubSeq(rest, floor + 1, Len(rest)))],
            tok |-> EndElement(name)]

\* Token: the declarations of a start element apply to its own name and to
\* its attributes.
Token(d, item) ==
  LET r     == rawToken(d, item)
      inner == pushAllNs(r.d, r.tok.attr)
      name  == translate(inner.ns, r.tok.name, TRUE)
      attr  == [i \in DOMAIN r.tok.attr |->
                  [r.tok.attr[i] EXCEPT !.name = translate(inner.ns, @, FALSE)]]
  IN  IF AtEOF(d) THEN [d |-> d, tok |-> Other("EOF")]
      ELSE CASE r.tok.kind = "Start" -> [d   |-> pushElement(inner, name),
                                         tok |-> StartElement(name, attr)]
             [] r.tok.kind = "End"   -> popElement(r.d, translate(r.d.ns, r.tok.name, TRUE))
             [] OTHER                -> r

\* Mutant: the mark is put between an element and its undo records.
pushEOF_AboveNs(d) ==
  [d EXCEPT !.stk = InsertAt(@, SelectLastInSeq(@, LAMBDA s : s.kind = "Start"), StkEOF)]

\* pushEOF: once the element on top of the stack has ended, Token gives EOF.
\* The mark goes below the element and its undo records.
pushEOF(d) ==
  LET start == SelectLastInSeq(d.stk, LAMBDA s : s.kind = "Start")
      below == Floor(SubSeq(d.stk, 1, start - 1))
  IN  [d EXCEPT !.stk = InsertAt(@, below + 1, StkEOF)]

\* Mutant: the mark is looked at and left.
popEOF_Leaves(d) == d

\* popEOF, when that element has ended.
popEOF(d) == IF AtEOF(d) THEN [d EXCEPT !.stk = Front(@)] ELSE d
=============================================================================
