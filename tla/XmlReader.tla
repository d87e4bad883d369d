------------------------------ MODULE XmlReader ------------------------------
(***************************************************************************)
(* Unmarshalling in webdav/internal/xml/read.go: the calls that are open   *)
(* when Token is called, as a stack of frames, each with what it does with *)
(* the next token.  u is the decoder, the frames, and what the fields of   *)
(* the struct were set to; status says how the reading ended.              *)
(***************************************************************************)
EXTENDS XmlDecoder

\* A call: unmarshal before its start element ("seek"), of the struct
\* ("struct") or a text ("text"); unmarshalPath below a parent ("path"); Skip
\* ("skip"); and the UnmarshalXML of a field's type.
Frame(kind, parents, field) ==
  [kind |-> kind, parents |-> parents, field |-> field, data |-> << >>]

\* Decode into a struct whose type has this name and these fields; nothing is
\* set yet.
Decode(xmlname, fields) ==
  [d |-> NewDecoder, frames |-> << Frame("seek", << >>, 0) >>, xmlname |-> xmlname,
   fields |-> fields, got |-> [i \in DOMAIN fields |-> << >>], status |-> "reading"]

Failed(u, err) == [u EXCEPT !.status = err, !.frames = << >>]
Call(u, frame) == [u EXCEPT !.frames = Append(@, frame)]
Return(u)      == [u EXCEPT !.frames = Front(@), !.status = IF Len(u.frames) = 1 THEN "ok" ELSE @]

\* The fields an element can belong to below these parents, and those among
\* them that are below it in turn.
Wanted(u, parents, start) ==
  {i \in DOMAIN u.fields :
     /\ u.fields[i].mode = "element"
     /\ u.fields[i].xmlns \in {"", start.name.space}
     /\ IsPrefix(parents, u.fields[i].parents)
     /\ start.name.local = Append(u.fields[i].parents, u.fields[i].name)[Len(parents) + 1]}

Below(u, parents, i) == Len(u.fields[i].parents) > Len(parents)

\* The start of a field's value, by the type of the field.
unmarshalField(u, i) ==
  CASE u.fields[i].type = "text"  -> Call(u, Frame("text", << >>, i))
    [] u.fields[i].type = "empty" -> Call([u EXCEPT !.got[i] = << "" >>], Frame("skip", << >>, 0))
    [] OTHER                      ->
         Call([u EXCEPT !.d = pushEOF(@)], Frame(u.fields[i].type, << >>, i))

\* A start element in the struct or below a parent: the first field it belongs
\* to, or the parent of it; anything else is skipped.
unmarshalPath(u, parents, start) ==
  LET wanted == Wanted(u, parents, start)
  IN  IF wanted = {} THEN Call(u, Frame("skip", << >>, 0))
      ELSE IF Below(u, parents, Min(wanted))
        THEN Call(u, Frame("path", Append(parents, start.name.local), 0))
        ELSE unmarshalField(u, Min(wanted))

\* The attributes of the struct's element: the first that has the name, in any
\* name space unless the field has one.
Attributes(u, start) ==
  [u EXCEPT !.got = [i \in DOMAIN @ |->
     LET named == SelectSeq(start.attr, LAMBDA a : /\ a.name.local = u.fields[i].name
                                                   /\ u.fields[i].xmlns \in {"", a.name.space})
     IN  IF u.fields[i].mode = "attr" /\ named # << >> THEN << named[1].value >> ELSE @[i]]]

\* The element of the struct must have its name.
unmarshal(u, start) ==
  IF \/ u.xmlname.local \notin {<< >>, start.name.local}
     \/ u.xmlname.space \notin {"", start.name.space}
    THEN Failed(u, "UnmarshalError")
    ELSE [Attributes(u, start) EXCEPT !.frames = << Frame("struct", << >>, 0) >>]

\* Character data goes to the text field, or to the struct's field for it.
charData(u, data) ==
  LET top == Len(u.frames)
  IN  IF u.frames[top].kind \in {"struct", "text"}
        THEN [u EXCEPT !.frames[top].data = Append(@, data)] ELSE u

\* The end of an element ends the call; the data read are saved.
endElement(u) ==
  LET f    == Last(u.frames)
      char == {i \in DOMAIN u.fields : u.fields[i].mode = "chardata"}
  IN  CASE f.kind = "text"                     -> Return([u EXCEPT !.got[f.field] = f.data])
        [] f.kind = "struct" /\ char # {}      -> Return([u EXCEPT !.got[Min(char)] = f.data])
        [] OTHER                               -> Return(u)

\* One token, for all frames but UnmarshalXML's.
UnmarshalToken(u, tok) ==
  LET f == Last(u.frames)
  IN  CASE tok.kind \in {"EOF", "SyntaxError"} -> Failed(u, tok.kind)
        [] tok.kind = "Start" /\ f.kind = "seek"              -> unmarshal(u, tok)
        [] tok.kind = "Start" /\ f.kind \in {"struct", "path"} -> unmarshalPath(u, f.parents, tok)
        [] tok.kind = "Start" /\ f.kind \in {"skip", "text"}  -> Call(u, Frame("skip", << >>, 0))
        [] tok.kind = "End"                                   -> endElement(u)
        [] tok.kind = "CharData"                              -> charData(u, tok.data)
        [] OTHER                                              -> u
=============================================================================
