------------------------------ MODULE XmlText -------------------------------
(***************************************************************************)
(* Text of webdav/internal/xml/xml.go: how it is escaped and how it is     *)
(* read, in character data, in quotes and in CDATA sections; and escapeXML *)
(* of webdav/prop.go.  A document is a sequence of characters and of       *)
(* references to a character; an "&" that begins no reference is a         *)
(* character.  "x" is any letter or digit, "ILLEGAL" a character or a byte *)
(* that XML does not allow.                                                *)
(***************************************************************************)
EXTENDS Integers, SequencesExt, FiniteSetsExt

Chr(c) == [kind |-> "char", c |-> c]
Ref(c) == [kind |-> "ref", c |-> c]

isInCharacterRange(c) == c # "ILLEGAL"

\* EscapeText and EscapeString escape new lines, EncodeToken's character data
\* does not.
escapeText(s, escapeNewline) ==
  [i \in DOMAIN s |-> CASE s[i] = "LF" /\ ~escapeNewline -> Chr("LF")
                        [] s[i] \in {"\"", "'", "&", "<", ">", "TAB", "LF", "CR"} -> Ref(s[i])
                        [] ~isInCharacterRange(s[i]) -> Chr("FFFD")
                        [] OTHER -> Chr(s[i])]

\* The characters that escapeXML looks over without escaping.
Unescaped == {"x", " ", "_"}

\* Mutant: only what begins or ends markup is looked for.
escapeXML_Markup(s) ==
  IF Range(s) \cap {"\"", "'", "&", "<", ">"} = {}
    THEN [i \in DOMAIN s |-> Chr(s[i])] ELSE escapeText(s, TRUE)

escapeXML(s) ==
  IF Range(s) \subseteq Unescaped THEN [i \in DOMAIN s |-> Chr(s[i])] ELSE escapeText(s, TRUE)

-----------------------------------------------------------------------------
(* Reading.                                                                *)

\* What text has read: the last two bytes, the data, and how it ended.
NewText == [b0 |-> "", b1 |-> "", data |-> << >>, end |-> "none", read |-> 0]

\* Mutant: a reference leaves the last two bytes.
reference_Keeps(x, c) == [x EXCEPT !.data = Append(@, c), !.read = @ + 1]

\* A reference is replaced by its character.
reference(x, c) == [x EXCEPT !.data = Append(@, c), !.b0 = "", !.b1 = "", !.read = @ + 1]

\* Any other byte: line ends become one "LF".
byte(x, c) ==
  [x EXCEPT !.data = CASE c = "CR" -> Append(@, "LF")
                       [] c = "LF" /\ x.b1 = "CR" -> @
                       [] OTHER -> Append(@, c),
            !.b0 = x.b1, !.b1 = c, !.read = @ + 1]

\* One round of the loop; quote is "" outside quotes.
textStep(quote, cdata, x, b) ==
  IF x.end # "none" THEN x
  ELSE IF b.kind = "char" /\ << x.b0, x.b1, b.c >> = << "]", "]", ">" >>
    THEN IF cdata THEN [x EXCEPT !.end = "cdata", !.data = SubSeq(@, 1, Len(@) - 2), !.read = @ + 1]
         ELSE [x EXCEPT !.end = "error"]
  ELSE IF cdata THEN byte(x, IF b.kind = "ref" THEN "&" \o b.c ELSE b.c)
  ELSE IF b = Chr("<") THEN [x EXCEPT !.end = IF quote # "" THEN "error" ELSE "tag"]
  ELSE IF quote # "" /\ b = Chr(quote) THEN [x EXCEPT !.end = "quote", !.read = @ + 1]
  ELSE IF b.kind = "ref" THEN reference(x, b.c)
  ELSE IF b = Chr("&") THEN [x EXCEPT !.end = "error"]
  ELSE byte(x, b.c)

\* The text at the beginning of a document, and how much of that it is.
text(quote, cdata, doc) ==
  LET x == FoldLeft(LAMBDA y, b : textStep(quote, cdata, y, b), NewText, doc)
  IN  IF \/ x.end = "error"
         \/ cdata /\ x.end = "none"
         \/ \E i \in DOMAIN x.data : ~isInCharacterRange(x.data[i])
        THEN [ok |-> FALSE, data |-> << >>, read |-> 0]
        ELSE [ok |-> TRUE, data |-> x.data, read |-> x.read]

-----------------------------------------------------------------------------
(* What a document says, by positions.                                     *)

\* The section ends at i: the first "]]>" of a CDATA section, the first "<" or
\* quote elsewhere.
Ends(quote, cdata, doc, i) ==
  IF cdata THEN i > 2 /\ SubSeq(doc, i - 2, i) = << Chr("]"), Chr("]"), Chr(">") >>
  ELSE doc[i] = Chr("<") \/ (quote # "" /\ doc[i] = Chr(quote))

\* Each reference gives its character, each line end one "LF"; nothing else is
\* changed.  "]]>" and "&" by themselves are errors, and so are "<" in quotes,
\* a CDATA section that does not end, and a character that is not legal.
Read(quote, cdata, doc) ==
  LET ends  == {i \in DOMAIN doc : Ends(quote, cdata, doc, i)}
      stop  == IF ends = {} THEN Len(doc) + 1 ELSE Min(ends)
      inner == SubSeq(doc, 1, IF cdata THEN stop - 3 ELSE stop - 1)
      gives(i) ==
        CASE cdata /\ inner[i].kind = "ref" -> << "&" \o inner[i].c >>
          [] inner[i] = Chr("CR") -> << "LF" >>
          [] i > 1 /\ inner[i] = Chr("LF") /\ inner[i - 1] = Chr("CR") -> << >>
          [] OTHER -> << inner[i].c >>
      data  == FlattenSeq([i \in DOMAIN inner |-> gives(i)])
      wrong == \/ cdata /\ ends = {}
               \/ quote # "" /\ ends # {} /\ doc[stop] = Chr("<")
               \/ "ILLEGAL" \in Range(data)
               \/ ~cdata /\ \E i \in DOMAIN inner :
                    inner[i] = Chr("&") \/ Ends("", TRUE, inner, i)
  IN  IF wrong THEN [ok |-> FALSE, data |-> << >>, read |-> 0]
      ELSE [ok |-> TRUE, data |-> data,
            read |-> IF ends # {} /\ (cdata \/ quote # "") THEN stop ELSE stop - 1]

\* Text is read for what it says, wherever references, line ends and the
\* characters of "]]>" meet.
ReadExact(doc) ==
  \A quote \in {"", "\"", "'"} :
    /\ text(quote, FALSE, doc) = Read(quote, FALSE, doc)
    /\ text("", TRUE, doc) = Read("", TRUE, doc)

\* Any string, as it is written in an element, in an attribute or as a name of a
\* file, is read back, an illegal character as U+FFFD.
EscapedReadsBack(s) ==
  LET back  == [i \in DOMAIN s |-> IF isInCharacterRange(s[i]) THEN s[i] ELSE "FFFD"]
      is(t, read) == t.ok /\ t.data = back /\ t.read = read
  IN  /\ \A escapeNewline \in BOOLEAN :
           is(text("", FALSE, escapeText(s, escapeNewline) \o << Chr("<") >>), Len(s))
      /\ is(text("\"", FALSE, escapeText(s, TRUE) \o << Chr("\""), Chr("<") >>), Len(s) + 1)
      /\ is(text("", FALSE, escapeXML(s) \o << Chr("<") >>), Len(s))

TextReadsBack(doc) ==
  /\ ReadExact(doc)
  /\ (\A i \in DOMAIN doc : doc[i].kind = "char") => EscapedReadsBack([i \in DOMAIN doc |-> doc[i].c])
=============================================================================
