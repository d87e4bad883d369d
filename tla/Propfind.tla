------------------------------ MODULE Propfind ------------------------------
(***************************************************************************)
(* The body of a PROPFIND and what is answered for a resource: readPropfind *)
(* and the types it reads into (webdav/xml.go), props, propnames and       *)
(* allprop (webdav/prop.go), and the response as it is written.  The body  *)
(* is chosen item by item while it is read; the answer, for a directory    *)
(* and for a file in it, is written by the printer of the fork.            *)
(***************************************************************************)
EXTENDS XmlMarshal, XmlReader

CONSTANTS
  StartTags, \* the start tags a body may hold
  Others,    \* what else it may hold, but end tags
  MaxItems   \* bound: items of a body, not counting end tags

VARIABLES
  u,    \* the call of Decode
  doc,  \* the items read
  open, \* the names of the elements that are open in doc, as they were written
  pf,   \* what readPropfind returned
  w,    \* the writer of the answer, with what it wrote last
  step, \* how much of the answer is written
  r     \* the client that reads it

vars == << u, doc, open, pf, w, step, r >>

DAV(local) == Name("DAV:", << local >>)

-----------------------------------------------------------------------------
(* Reading the body.                                                       *)

\* type propfind; its fields are Allprop, Propname, Prop and Include.
fields == << Field("DAV:", << >>, << "allprop" >>, "element", "empty"),
             Field("DAV:", << >>, << "propname" >>, "element", "empty"),
             Field("DAV:", << >>, << "prop" >>, "element", "props"),
             Field("DAV:", << >>, << "include" >>, "element", "props") >>

\* next: comments, directives and processing instructions are not seen.
Ignored == {"Comment", "Directive", "ProcInst"}

\* Mutant: an element after the first need not be empty.
propfindName_Open(v, name, tok) ==
  LET field == v.frames[Len(v.frames) - 1].field
  IN  IF tok.kind = "Start" THEN Call(v, Frame("skip", << >>, 0))
      ELSE IF tok.kind = "End" THEN [Return(v) EXCEPT !.got[field] = Append(@, name)]
      ELSE Failed(v, tok.kind)

\* The element of a name must end at once.
propfindName(v, name, tok) ==
  LET field == v.frames[Len(v.frames) - 1].field
  IN  IF tok.kind = "End" THEN [Return(v) EXCEPT !.got[field] = Append(@, name)]
      ELSE Failed(v, tok.kind)

\* UnmarshalXML of propfindProps: names are appended to what earlier elements
\* gave; there must be some by the end.  unmarshalInterface's popEOF must find
\* the element consumed.
propfindProps(v, tok) ==
  LET f == Last(v.frames)
  IN  CASE tok.kind = "Start" ->
             Call(v, [Frame("name", << >>, f.field) EXCEPT !.data = << tok.name >>])
        [] tok.kind = "End" /\ v.got[f.field] # << >> /\ AtEOF(v.d) ->
             Return([v EXCEPT !.d = popEOF(@)])
        [] tok.kind = "CharData" -> v
        [] OTHER -> Failed(v, tok.kind)

\* One token for the call on top.
Handle(v, tok) ==
  LET f == Last(v.frames)
  IN  CASE f.kind \in {"name", "props"} /\ tok.kind \in Ignored -> v
        [] f.kind = "name"  -> propfindName(v, f.data[1], tok)
        [] f.kind = "props" -> propfindProps(v, tok)
        [] OTHER            -> UnmarshalToken(v, tok)

allpropOnly == [status |-> 0, allprop |-> TRUE, propname |-> FALSE, prop |-> << >>, include |-> << >>]
BadRequest == [allpropOnly EXCEPT !.status = 400, !.allprop = FALSE]

\* Mutant: include goes with anything.
Compatible_AnyInclude(q) ==
  /\ q.allprop => q.prop = << >> /\ ~q.propname
  /\ ~(q.prop # << >> /\ q.propname)
  /\ q.propname \/ q.allprop \/ q.prop # << >>

\* Which children go together.
Compatible(q) ==
  /\ q.include # << >> => q.allprop
  /\ q.allprop => q.prop = << >> /\ ~q.propname
  /\ ~(q.prop # << >> /\ q.propname)
  /\ q.propname \/ q.allprop \/ q.prop # << >>

\* What is asked, once the reading is over.  A body without a byte asks for all
\* properties.
readPropfind ==
  LET read == [status |-> 0, allprop |-> u.got[1] # << >>, propname |-> u.got[2] # << >>,
               prop |-> u.got[3], include |-> u.got[4]]
  IN  IF doc = << Other("EOF") >> THEN allpropOnly
      ELSE IF u.status = "ok" /\ Compatible(read) THEN read ELSE BadRequest

Reading == [BadRequest EXCEPT !.status = 1]

-----------------------------------------------------------------------------
(* The properties of a resource.                                           *)

\* liveProps: the properties, whether there is a function for them, and whether
\* directories have them.  The code goes over a map; one order stands for all.
liveProps ==
  LET row(local, find, dir) == [name |-> DAV(local), find |-> find, dir |-> dir]
  IN  << row("resourcetype", TRUE, TRUE), row("displayname", TRUE, TRUE),
         row("getcontentlength", TRUE, FALSE), row("getlastmodified", TRUE, TRUE),
         row("creationdate", FALSE, FALSE), row("getcontentlanguage", FALSE, FALSE),
         row("getcontenttype", TRUE, FALSE), row("getetag", TRUE, FALSE),
         row("lockdiscovery", FALSE, FALSE), row("supportedlock", TRUE, TRUE) >>

Has(isDir, name) ==
  \E i \in DOMAIN liveProps :
    liveProps[i].name = name /\ liveProps[i].find /\ (liveProps[i].dir \/ ~isDir)

\* What the find functions give: a value in text, or elements that declare
\* their own prefix.
innerXML(isDir, name) ==
  LET declare == << AttrText(<< "xmlns", "D" >>, "DAV:") >>
  IN  CASE name = DAV("resourcetype") ->
             IF isDir THEN << StartTag(<< "D", "collection" >>, declare, TRUE) >> ELSE << >>
        [] name = DAV("supportedlock") ->
             << StartTag(<< "D", "lockentry" >>, declare, FALSE),
                StartTag(<< "D", "lockscope" >>, << >>, FALSE),
                StartTag(<< "D", "exclusive" >>, << >>, TRUE), EndTag(<< "D", "lockscope" >>),
                StartTag(<< "D", "locktype" >>, << >>, FALSE),
                StartTag(<< "D", "write" >>, << >>, TRUE), EndTag(<< "D", "locktype" >>),
                EndTag(<< "D", "lockentry" >>) >>
        [] OTHER -> << CharData("value") >>

Property(name, inner) == [name |-> name, inner |-> inner]
Propstat(status, ps)  == [status |-> status, props |-> ps]

\* Those of the two that have properties, or an empty one.
makePropstats(x, y) ==
  LET some == SelectSeq(<< x, y >>, LAMBDA s : s.props # << >>)
  IN  IF some = << >> THEN << Propstat("200", << >>) >> ELSE some

\* Mutant: a directory has all properties.
props_AllOfDir(isDir, pnames) ==
  LET ok == SelectSeq(pnames, LAMBDA n : Has(FALSE, n))
      no == SelectSeq(pnames, LAMBDA n : ~Has(FALSE, n))
  IN  makePropstats(Propstat("200", [i \in DOMAIN ok |-> Property(ok[i], innerXML(isDir, ok[i]))]),
                    Propstat("404", [i \in DOMAIN no |-> Property(no[i], << >>)]))

props(isDir, pnames) ==
  LET ok == SelectSeq(pnames, LAMBDA n : Has(isDir, n))
      no == SelectSeq(pnames, LAMBDA n : ~Has(isDir, n))
  IN  makePropstats(Propstat("200", [i \in DOMAIN ok |-> Property(ok[i], innerXML(isDir, ok[i]))]),
                    Propstat("404", [i \in DOMAIN no |-> Property(no[i], << >>)]))

propnames(isDir) ==
  SelectSeq([i \in DOMAIN liveProps |-> liveProps[i].name], LAMBDA n : Has(isDir, n))

allprop(isDir, include) ==
  LET pnames == propnames(isDir)
  IN  props(isDir, pnames \o SelectSeq(include, LAMBDA n : n \notin Range(pnames)))

\* What handlePropfind's walkFn finds for a resource.  It hands allprop the
\* names of prop, which an allprop request has not.
Found(isDir, q) ==
  LET names == propnames(isDir)
  IN  IF q.propname
        THEN << Propstat("200", [i \in DOMAIN names |-> Property(names[i], << >>)]) >>
      ELSE IF q.allprop THEN allprop(isDir, q.prop)
      ELSE props(isDir, q.prop)

-----------------------------------------------------------------------------
(* Writing the answer.                                                     *)

D(local) == << "D", local >>
Plain(name) == Field("", << >>, name, "element", "text")

\* A name in DAV: gets the prefix of the multistatus element by hand.
ixmlName(name) == IF name.space = "DAV:" THEN Name("", << "D" >> \o name.local) ELSE name

ixmlProperty(prop) ==
  Struct(TRUE, ixmlName(prop.name),
         << Field("", << >>, << "xml", "lang" >>, "attr", "text"),
            Field("", << >>, << >>, "innerxml", "text") >>,
         << Vals(<< >>), Vals(prop.inner) >>)

\* propstat's MarshalXML; the empty description is left out.
propstat(s) ==
  MarshalerOf(Struct(FALSE, NoName,
    << Field("", << D("prop") >>, << "_ignored_" >>, "element", "text"), Plain(D("status")),
       Plain(D("error")), Plain(D("responsedescription")) >>,
    << Vals([i \in DOMAIN s.props |-> ixmlProperty(s.props[i])]), Vals(<< Text(s.status) >>),
       Nil, Vals(<< >>) >>))

makePropstatResponse(pstats) ==
  Struct(TRUE, Name("", D("response")),
         << Plain(D("href")), Plain(D("propstat")), Plain(D("status")), Plain(D("error")),
            Plain(D("responsedescription")) >>,
         << Vals(<< Text("href") >>), Vals([i \in DOMAIN pstats |-> propstat(pstats[i])]),
            Vals(<< >>), Nil, Vals(<< >>) >>)

\* writeHeader: the start of the multistatus element declares the prefix D.
writeHeader(x) ==
  Emit(x, StartElement(DAV("multistatus"), << Attr(Name("xmlns", << "D" >>), "DAV:") >>))

write(x, isDir) == marshalValue(x, makePropstatResponse(Found(isDir, pf)), noField, NoName)

close(x) == Emit(x, EndElement(DAV("multistatus")))

-----------------------------------------------------------------------------
(* The client: a decoder, the elements around the next token, and what the  *)
(* answer has said so far: that a response begins, the name of a property,  *)
(* the status of a propstat.                                                *)

Say(what, name) == [what |-> what, name |-> name]

inResponse == << DAV("multistatus"), DAV("response") >>
inPropstat == Append(inResponse, DAV("propstat"))

Says(path, t) ==
  CASE t.kind = "Start" /\ Append(path, t.name) = inResponse -> << Say("response", NoName) >>
    [] t.kind = "Start" /\ path = Append(inPropstat, DAV("prop")) -> << Say("property", t.name) >>
    [] t.kind = "CharData" /\ path = Append(inPropstat, DAV("status")) -> << Say(t.data, NoName) >>
    [] OTHER -> << >>

\* One item; an empty element gives two tokens.  An error ends the reading.
ReadItem(c, item) ==
  LET read(q) == LET t == Token(q.d, item)
                 IN  [d    |-> t.d,
                      path |-> CASE t.tok.kind = "Start" -> Append(q.path, t.tok.name)
                                 [] t.tok.kind = "End"   -> Front(q.path)
                                 [] OTHER                -> q.path,
                      said |-> q.said \o Says(q.path, t.tok)]
      one == read(c)
  IN  IF c.d.err # "nil" THEN c ELSE IF Reads(one.d) THEN one ELSE read(one)

-----------------------------------------------------------------------------
(* Steps.                                                                  *)

Init ==
  /\ u = Decode(DAV("propfind"), fields)
  /\ doc = << >>
  /\ open = << >>
  /\ pf = Reading
  /\ w = NewWriter
  /\ step = 0
  /\ r = [d |-> NewDecoder, path |-> << >>, said |-> << >>]

\* A call of Token that reads an item, and what is done with its token.
Read(item) ==
  LET t == Token(u.d, item)
  IN  /\ pf = Reading
      /\ u.status = "reading" /\ Reads(u.d)
      /\ item.kind = "End" \/ Len(SelectSeq(doc, LAMBDA i : i.kind # "End")) < MaxItems
      /\ doc' = Append(doc, item)
      /\ u' = Handle([u EXCEPT !.d = t.d], t.tok)
      /\ UNCHANGED << pf, w, step, r >>

ReadStart ==
  \E item \in StartTags :
    /\ Read(item)
    /\ open' = IF item.empty THEN open ELSE Append(open, item.qname)

\* The end of the innermost element, or another.
ReadEnd ==
  \/ /\ open # << >>
     /\ Read(EndTag(Last(open)))
     /\ open' = Front(open)
  \/ /\ Read(EndTag(<< "other" >>))
     /\ UNCHANGED open

\* Text, what next does not show, the end of the body, what is not well-formed.
ReadRest ==
  \E item \in Others :
    /\ Read(item)
    /\ UNCHANGED open

\* The second token of an empty element, without reading.
EndOfEmpty ==
  LET t == Token(u.d, Other("none"))
  IN  /\ pf = Reading
      /\ u.status = "reading" /\ ~Reads(u.d)
      /\ u' = Handle([u EXCEPT !.d = t.d], t.tok)
      /\ UNCHANGED << doc, open, pf, w, step, r >>

\* readPropfind returns; the decoder and what is left of the body are not used
\* again.
Finish ==
  /\ pf = Reading /\ u.status # "reading"
  /\ pf' = readPropfind
  /\ u' = Decode(DAV("propfind"), fields)
  /\ doc' = << >>
  /\ open' = << >>
  /\ UNCHANGED << w, step, r >>

\* The walk visits the directory and the file in it, and the writer is closed;
\* the client reads what is written.
Write(x) ==
  /\ pf.status = 0
  /\ w' = x
  /\ step' = step + 1
  /\ r' = FoldLeft(ReadItem, r, x.out)
  /\ UNCHANGED << u, doc, open, pf >>

Answer ==
  LET next == [w EXCEPT !.out = << >>]
  IN  \/ step = 0 /\ Write(writeHeader(next))
      \/ step \in {1, 2} /\ Write(write(next, step = 1))
      \/ step = 3 /\ Write(close(next))

Next == ReadStart \/ ReadEnd \/ ReadRest \/ EndOfEmpty \/ Finish \/ Answer

Spec == Init /\ [][Next]_vars

-----------------------------------------------------------------------------
(* What a body says, by the whole of it: depths, ancestors and scopes, not  *)
(* the order in which it is read.                                           *)

IsStart(i) == doc[i].kind = "Start"
Nesting(i) == IsStart(i) /\ ~doc[i].empty

\* How much deeper item i is than item j before it, and how deep it is.
Deeper(j, i) == Cardinality({k \in j..i - 1 : Nesting(k)})
                - Cardinality({k \in j..i - 1 : doc[k].kind = "End"})
Depth(i) == Deeper(1, i)

\* The elements item i is in.
Around(i) == {j \in 1..i - 1 : Nesting(j) /\ \A k \in j + 1..i : Deeper(j, k) > 0}

\* The name space of a prefix at a start tag: the innermost declaration.
Scope(i, prefix) ==
  LET declares(j) == {k \in DOMAIN doc[j].attr : doc[j].attr[k].qname =
                        IF prefix = "" THEN << "xmlns" >> ELSE << "xmlns", prefix >>}
      scopes == {j \in Around(i) \cup {i} : declares(j) # {}}
  IN  IF scopes = {} THEN prefix ELSE doc[Max(scopes)].attr[Max(declares(Max(scopes)))].value

NameOf(i) ==
  LET n == nsname(doc[i].qname) IN [n EXCEPT !.space = Scope(i, n.space)]

Root == Min({i \in DOMAIN doc : IsStart(i)})
Children(name) ==
  {i \in DOMAIN doc : IsStart(i) /\ Depth(i) = 1 /\ Root \in Around(i) /\ NameOf(i) = DAV(name)}

\* The elements directly in these, in the order of the document.
Inside(elements) ==
  SetToSortSeq({i \in DOMAIN doc : IsStart(i) /\ Depth(i) = 2 /\ elements \cap Around(i) # {}}, <)

NamesIn(elements) == [k \in DOMAIN Inside(elements) |-> NameOf(Inside(elements)[k])]

\* The body ends with its root element, whose tags all match.
Closed ==
  /\ \E i \in DOMAIN doc : IsStart(i)
  /\ \A i \in DOMAIN doc : doc[i].kind \notin {"EOF", "SyntaxError"}
  /\ Depth(Len(doc) + 1) = 0
  /\ \A i \in DOMAIN doc : doc[i].kind = "End" =>
       \E j \in Around(i) : Deeper(j, i) = 1 /\ doc[j].qname = doc[i].qname

\* The elements that hold names hold nothing else but text and what is ignored,
\* the names hold nothing at all, and the first element has names.  The later ones
\* need not have any, as in the code; xml.go:90-91 says otherwise, and what it says
\* is EmptyElementsRefused.
OnlyNames(elements) ==
  /\ \A k \in DOMAIN Inside(elements), i \in DOMAIN doc :
       Inside(elements)[k] \in Around(i) => doc[i].kind \in Ignored \cup {"End"}
  /\ elements # {} => Inside({Min(elements)}) # << >>

\* What a body asks for, by the elements of RFC 4918, the names of those of one
\* kind taken together.
Asked ==
  LET prop    == Children("prop")
      include == Children("include")
      says == [status |-> 0, allprop |-> Children("allprop") # {},
               propname |-> Children("propname") # {},
               prop |-> NamesIn(prop), include |-> NamesIn(include)]
      kinds == {k \in {"allprop", "propname", "prop"} : Children(k) # {}}
  IN  IF doc = << Other("EOF") >> THEN allpropOnly
      ELSE IF /\ Closed
              /\ NameOf(Root) = DAV("propfind")
              /\ OnlyNames(prop) /\ OnlyNames(include)
              /\ Cardinality(kinds) = 1
              /\ include # {} => kinds = {"allprop"}
        THEN says ELSE BadRequest

\* A body is refused or taken exactly for what it says: names are in the name
\* space of the declarations around them, nothing is taken from elements that
\* are skipped, and what prop declares is gone after it.  That an empty prop or
\* include is taken after one with names is so in the code, not in its comment
\* (EmptyElementsRefused).
PropfindExact == u.status # "reading" => readPropfind = Asked

\* xml.go:90-91 says UnmarshalXML "returns an error if start does not contain any
\* properties": of a body that Decode has taken, each prop and each include has a
\* name in it.
EmptyElementsRefused ==
  u.status = "ok" =>
    \A e \in Children("prop") \cup Children("include") : Inside({e}) # << >>

\* The calls that are open are those of the elements that are open, and the
\* decoder has a mark for the end of the element of each UnmarshalXML.
TypeOK ==
  /\ u.status \in {"reading", "ok", "EOF", "SyntaxError", "UnmarshalError", "Start", "End", "CharData"}
  /\ u.status = "reading" =>
       /\ Len(SelectSeq(u.d.stk, LAMBDA s : s.kind = "Start")) =
            Len(open) + (IF Reads(u.d) THEN 0 ELSE 1)
       /\ Len(SelectSeq(u.d.stk, LAMBDA s : s.kind = "EOF")) =
            Len(SelectSeq(u.frames, LAMBDA f : f.kind = "props"))

-----------------------------------------------------------------------------
(* What is answered.                                                       *)

\* What should be read of one resource: the response, then each status after
\* its properties.
Expected(isDir) ==
  LET has(n) == Has(isDir, n)
      hasnt(n) == ~Has(isDir, n)
      all  == propnames(isDir)
      part(names, status) ==
        IF names = << >> THEN << >>
        ELSE Append([i \in DOMAIN names |-> Say("property", names[i])], Say(status, NoName))
  IN  << Say("response", NoName) >>
      \o (IF pf.allprop \/ pf.propname THEN part(all, "200")
          ELSE part(SelectSeq(pf.prop, has), "200") \o part(SelectSeq(pf.prop, hasnt), "404"))

\* A client that reads the answer finds, for each resource, each name it asked
\* for as often as it asked, with 200 or 404, in the name space in which it
\* asked: whatever name spaces the names are in and the values declare.  An
\* allprop or propname request asks for the names the resource has (what an
\* include adds to them is IncludedNamesAnswered).
AskedNamesAnswered ==
  /\ step = 2 => r.said = Expected(TRUE)
  /\ step = 4 => /\ r.said = Expected(TRUE) \o Expected(FALSE)
                 /\ ~w.err /\ r.d.err = "nil" /\ r.d.stk = << >>

\* prop.go:215-216 says allprop returns "the properties named in include" too: a
\* client that names some next to allprop finds each of them in the answer.
IncludedNamesAnswered ==
  step = 4 => {Say("property", pf.include[i]) : i \in DOMAIN pf.include} \subseteq Range(r.said)
=============================================================================
