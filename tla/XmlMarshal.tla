----------------------------- MODULE XmlMarshal -----------------------------
(***************************************************************************)
(* Marshalling in webdav/internal/xml/marshal.go: from the values of a     *)
(* struct to the items of a document, by way of the printer.  What         *)
(* reflection finds out is in the value: a text, a struct with its fields, *)
(* or a Marshaler that encodes another value.  An operation takes and      *)
(* gives w, the printer with all that it wrote.                            *)
(***************************************************************************)
EXTENDS XmlPrinter

\* A field of a struct type: its element or attribute, the parents of its
\* element, its mode, and how its type is read.
Field(xmlns, parents, name, mode, type) ==
  [xmlns |-> xmlns, parents |-> parents, name |-> name, mode |-> mode, type |-> type]

noField == Field("", << >>, << >>, "element", "text")
NoName  == Name("", << >>)

\* Values.  A struct has, for each field, whether it is a nil pointer and the
\* values of its slice (one, when it is none); has says that its type has a
\* field XMLName.
Text(data) == [kind |-> "text", data |-> data]
Struct(has, xmlname, fields, vals) ==
  [kind |-> "struct", has |-> has, xmlname |-> xmlname, fields |-> fields, vals |-> vals]
MarshalerOf(body) == [kind |-> "marshaler", body |-> body]
Vals(seq) == [nil |-> FALSE, seq |-> seq]
Nil == [nil |-> TRUE, seq |-> << >>]

NewWriter == [p |-> NewPrinter, out |-> << >>, err |-> FALSE]

\* The writer after r was encoded.
Written(w, r) ==
  IF r.err THEN [w EXCEPT !.err = TRUE]
  ELSE [w EXCEPT !.p = r.p, !.out = Append(@, r.item)]

\* One token; nothing more is written after an error.
Emit(w, t) == IF w.err THEN w ELSE Written(w, EncodeToken(w.p, t))

-----------------------------------------------------------------------------
(* The parents of a field: s is the stack of those open, in their name      *)
(* space, with the writer.                                                  *)

\* Mutant: parents are shared whatever their name space.
commonParents_AnyNS(s, parents, xmlns) ==
  Max({n \in 0..Min({Len(parents), Len(s.parents)}) :
         \A i \in 1..n : parents[i] = s.parents[i]})

\* How many of the open parents a field shares.
commonParents(s, parents, xmlns) ==
  IF xmlns # s.xmlns THEN 0
  ELSE Max({n \in 0..Min({Len(parents), Len(s.parents)}) :
              \A i \in 1..n : parents[i] = s.parents[i]})

\* The parents not shared with the field before are closed, those missing are
\* opened, unless the field is a nil pointer.
setParents(s, finfo, nil) ==
  LET xmlns  == IF finfo.xmlns # "" THEN finfo.xmlns ELSE s.w.p.defaultNS
      n      == commonParents(s, finfo.parents, xmlns)
      stay   == IF nil THEN SubSeq(finfo.parents, 1, n) ELSE finfo.parents
      ends   == [i \in 1..Len(s.parents) - n |->
                   EndElement(Name(s.xmlns, s.parents[Len(s.parents) + 1 - i]))]
      starts == [i \in 1..Len(stay) - n |-> StartElement(Name(xmlns, stay[n + i]), << >>)]
      emit(w, t) == Emit(w, IF t.kind = "Start" /\ xmlns # w.p.defaultNS
                              THEN setDefaultNamespace(t) ELSE t)
  IN  [w |-> FoldLeft(emit, s.w, ends \o starts), xmlns |-> xmlns, parents |-> stay]

-----------------------------------------------------------------------------
(* Values.                                                                  *)

\* The attribute of a field, none when its value is nil or left out.
fieldAttr(finfo, val) ==
  [i \in DOMAIN val.seq |-> Attr(Name(finfo.xmlns, finfo.name), val.seq[i].data)]

Attrs(v) ==
  IF v.kind # "struct" THEN << >>
  ELSE FlattenSeq([i \in DOMAIN v.fields |->
         IF v.fields[i].mode = "attr" THEN fieldAttr(v.fields[i], v.vals[i]) ELSE << >>])

\* The name of an element comes from the start element given, the XMLName of
\* the struct or the field, in this order; a name that says nothing of its
\* name space is in the default one.
StartOf(p, v, finfo, template) ==
  LET has      == v.kind = "struct" /\ v.has
      xmlname  == IF has /\ v.xmlname.local # << >> THEN v.xmlname ELSE NoName
      byField  == xmlname.local = << >>
      explicit == has \/ (byField /\ finfo.xmlns # "")
      attr     == Attrs(v)
      default  == SelectSeq(attr, LAMBDA a : a.name = Name("", << "xmlns" >>))
      space    == IF default = << >> THEN p.defaultNS ELSE Last(default).value
      name     == IF byField THEN Name(finfo.xmlns, finfo.name) ELSE xmlname
  IN  setDefaultNamespace(
        IF template # NoName THEN StartElement(template, attr)
        ELSE StartElement(IF explicit THEN name ELSE [name EXCEPT !.space = space], attr))

\* The start element a Marshaler is given.
defaultStart(p, finfo) ==
  IF finfo.xmlns = "" THEN Name(p.defaultNS, finfo.name) ELSE Name(finfo.xmlns, finfo.name)

RECURSIVE marshalValue(_, _, _, _)

\* One field of a struct; its attributes are written already.
marshalField(s, finfo, val) ==
  LET inElement == finfo.mode = "element"
      put(w, v) == IF inElement THEN marshalValue(w, v, finfo, NoName) ELSE Emit(w, CharData(v.data))
  IN  CASE s.w.err \/ finfo.mode = "attr"  -> s
        [] finfo.mode = "innerxml"         -> [s EXCEPT !.w.out = @ \o val.seq]
        [] inElement \/ finfo.mode = "chardata" ->
             [setParents(s, IF inElement THEN finfo ELSE noField, inElement /\ val.nil)
                EXCEPT !.w = FoldLeft(put, @, val.seq)]

\* The fields in their order; then all parents are closed.
marshalStruct(w, v) ==
  LET s == FoldLeft(LAMBDA t, i : marshalField(t, v.fields[i], v.vals[i]),
                    [w |-> w, xmlns |-> "", parents |-> << >>], [i \in DOMAIN v.fields |-> i])
  IN  setParents(s, noField, FALSE).w

\* A Marshaler cannot close what it did not open, and must close what it did:
\* a mark without a name is put on the stack of open tags.
marshalInterface(w, v, start) ==
  LET marked == [w EXCEPT !.p.tags = Append(@, NoName)]
      after  == marshalValue(marked, v.body, noField, start)
  IN  IF after.err \/ Len(after.p.tags) > Len(marked.p.tags) THEN [after EXCEPT !.err = TRUE]
      ELSE [after EXCEPT !.p.tags = SubSeq(@, 1, Len(w.p.tags))]

marshalValue(w, v, finfo, template) ==
  LET start == StartOf(w.p, v, finfo, template)
      body(x) == IF v.kind = "struct" THEN marshalStruct(x, v) ELSE Emit(x, CharData(v.data))
  IN  CASE w.err                -> w
        [] v.kind = "marshaler" -> marshalInterface(w, v, defaultStart(w.p, finfo))
        [] OTHER                -> Emit(body(Emit(w, start)), EndElement(start.name))
=============================================================================
