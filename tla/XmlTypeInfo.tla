----------------------------- MODULE XmlTypeInfo -----------------------------
(***************************************************************************)
(* From the declared fields of a struct to the elements and attributes     *)
(* they are written as: webdav/internal/xml/typeinfo.go.  The tag          *)
(* "xmlns a>b>c,flag" of a field is a record with the xmlns, the path      *)
(* << a, b, c >> and the set of flags; depth counts the embedded structs   *)
(* the field is in, and encl is the name the XMLName of its struct gives.  *)
(***************************************************************************)
EXTENDS XmlMarshal, XmlReader

Modes == {"attr", "chardata", "innerxml", "comment", "any"}

\* Modes do not go together, and only an attribute's goes with a name; omitempty
\* is for elements and attributes.
ValidFlags(f) ==
  LET mode == f.flags \cap Modes
  IN  /\ Cardinality(mode) <= 1
      /\ mode \ {"attr"} # {} => f.path = << >>
      /\ "omitempty" \in f.flags => mode \subseteq {"attr", "any"}

\* The path with the name of the field for an empty first element.
Path(f) == IF Head(f.path) = "" THEN << f.name >> \o Tail(f.path) ELSE f.path

\* A tag that cannot be read: a name space without a name, a path that ends in
\* ">" or is given to an attribute, and a name other than the XMLName of the
\* field's type.
BadTag(f) ==
  \/ ~ValidFlags(f)
  \/ f.xmlns # "" /\ f.path = << >>
  \/ /\ f.path # << >>
     /\ \/ Last(Path(f)) = ""
        \/ Len(f.path) > 1 /\ f.flags \cap Modes # {}
        \/ /\ f.flags \cap Modes = {}
           /\ f.xmlname # NoName /\ f.xmlname.local # << Last(Path(f)) >>

ModeOf(f) == IF f.flags \cap Modes = {} THEN "element" ELSE CHOOSE m \in f.flags \cap Modes : TRUE

\* Without a name in the tag, the XMLName of the field's type or the name of the
\* field; without a name space, that of the struct it is in, but not for an
\* attribute.
structFieldInfo(f) ==
  LET parts == [i \in DOMAIN Path(f) |-> << Path(f)[i] >>]
      xmlns == IF f.xmlns = "" /\ ModeOf(f) # "attr" THEN f.encl.space ELSE f.xmlns
      field == IF f.path # << >> THEN Field(xmlns, Front(parts), Last(parts), ModeOf(f), "text")
               ELSE IF f.xmlname # NoName
                 THEN Field(f.xmlname.space, << >>, f.xmlname.local, ModeOf(f), "text")
                 ELSE Field("", << >>, << f.name >>, ModeOf(f), "text")
  IN  [info |-> field, depth |-> f.depth]

\* Mutant: only fields of the same path conflict.
Conflict_SamePath(old, new) ==
  /\ old.mode = new.mode
  /\ old.xmlns = "" \/ new.xmlns = "" \/ old.xmlns = new.xmlns
  /\ old.parents = new.parents /\ old.name = new.name

\* Two fields conflict when the path of the one is the path of the other or a
\* part of it from its beginning, and their name spaces may be the same.
Conflict(old, new) ==
  LET pathOf(g) == Append(g.parents, g.name)
  IN  /\ old.mode = new.mode
      /\ old.xmlns = "" \/ new.xmlns = "" \/ old.xmlns = new.xmlns
      /\ IsPrefix(pathOf(old), pathOf(new)) \/ IsPrefix(pathOf(new), pathOf(old))

\* The fields so far, and whether the type is an error.  A new field gives way
\* to a shallower one, and takes the place of deeper ones.
addFieldInfo(t, new) ==
  LET conflicts == {i \in DOMAIN t.fields : Conflict(t.fields[i].info, new.info)}
      kept      == [t EXCEPT !.fields = FlattenSeq([i \in DOMAIN @ |->
                                          IF i \in conflicts THEN << >> ELSE << @[i] >>])]
  IN  IF t.err \/ \E i \in conflicts : t.fields[i].depth < new.depth THEN t
      ELSE IF \E i \in conflicts : t.fields[i].depth = new.depth THEN [t EXCEPT !.err = TRUE]
      ELSE [kept EXCEPT !.fields = Append(@, new)]

\* The declared fields, each with the value it has.
getTypeInfo(decls) ==
  FoldLeft(LAMBDA t, f : IF t.err \/ BadTag(f) THEN [t EXCEPT !.err = TRUE]
                         ELSE addFieldInfo(t, structFieldInfo(f) @@ [val |-> f.val]),
           [fields |-> << >>, err |-> FALSE], decls)

-----------------------------------------------------------------------------
(* A struct written and read.                                              *)

Infos(t)  == [i \in DOMAIN t.fields |-> t.fields[i].info]
Values(t) == [i \in DOMAIN t.fields |-> t.fields[i].val]

\* All items read into a struct with these fields.
ReadInto(u, items) ==
  LET with(v, r) == UnmarshalToken([v EXCEPT !.d = r.d], r.tok)
  IN  FoldLeft(LAMBDA v, item : IF v.frames = << >> THEN v ELSE with(v, Token(v.d, item)),
               u, items)

\* Every struct type that getTypeInfo accepts, with no more than one field for
\* its text, is read back from what it was written as: each field gets its own
\* value, or none if it had none, whatever parents, name spaces and shadowed
\* fields there are.
StructReadsBack(decls, xmlname) ==
  LET wrote(t) ==
        marshalValue(NewWriter, Struct(TRUE, xmlname, Infos(t), Values(t)), noField, NoName)
      texts(t) == {i \in DOMAIN t.fields : t.fields[i].info.mode = "chardata"}
      readBack(t, u) ==
        /\ u.status = "ok"
        /\ \A i \in DOMAIN t.fields :
             u.got[i] = [j \in DOMAIN Values(t)[i].seq |-> Values(t)[i].seq[j].data]
      right(t, w) == ~w.err /\ readBack(t, ReadInto(Decode(xmlname, Infos(t)), w.out))
      holds(t) == ~t.err /\ Cardinality(texts(t)) <= 1 => right(t, wrote(t))
  IN  holds(getTypeInfo(decls))
=============================================================================
