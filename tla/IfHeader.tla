------------------------------ MODULE IfHeader ------------------------------
(***************************************************************************)
(* The parser of the If header, webdav/if.go.  A header is a sequence of   *)
(* characters, in which "Not" stands for its three letters and "a" for any *)
(* character that is no delimiter; a tab is a space.                       *)
(***************************************************************************)
EXTENDS Integers, SequencesExt, FiniteSetsExt

Delimiters == {" ", "(", ")", "<", ">", "[", "]"}
NoToken    == << >>

\* A token of lex: its type, its string and what remains.
Lexeme(type, str, rest) == [type |-> type, str |-> str, rest |-> rest]

From(s, i) == SubSeq(s, i, Len(s))

\* A token that ends at the first of these characters.
Bracketed(type, s, end) ==
  LET j == SelectInSeq(s, LAMBDA c : c = end)
  IN  IF j = 0 THEN Lexeme("err", NoToken, << >>)
      ELSE Lexeme(type, SubSeq(s, 2, j - 1), From(s, j + 1))

\* The first token, with i characters before the first delimiter and none of
\* them a space.
lexFirst(s, i) ==
  CASE i # 0 /\ SubSeq(s, 1, i) = << "Not" >> -> Lexeme("not", NoToken, From(s, i + 1))
    [] i # 0 /\ SubSeq(s, 1, i) # << "Not" >> -> Lexeme("str", SubSeq(s, 1, i), From(s, i + 1))
    [] i = 0 /\ s[1] = "<" -> Bracketed("angle", s, ">")
    [] i = 0 /\ s[1] = "[" -> Bracketed("square", s, "]")
    [] OTHER -> Lexeme(s[1], NoToken, Tail(s))

lexTrimmed(s) ==
  IF s = << >> THEN Lexeme("eof", NoToken, << >>)
  ELSE lexFirst(s, SelectInSeq(Append(s, " "), LAMBDA c : c \in Delimiters) - 1)

lex(header) ==
  lexTrimmed(From(header, SelectInSeq(Append(header, "end"), LAMBDA c : c # " ")))

Condition(not, token, etag) == [Not |-> not, Token |-> token, ETag |-> etag]
List(tag, conditions)       == [resourceTag |-> tag, conditions |-> conditions]

\* What a parsing function returns; the zero values when it is not ok.
Parsed(value, rest) == [ok |-> TRUE, value |-> value, rest |-> rest]
NotOk == [ok |-> FALSE, value |-> << >>, rest |-> << >>]

\* Mutant: Not may stand alone.
conditionOf_Alone(not, t) ==
  CASE t.type \in {"str", "angle"} -> Parsed(Condition(not, t.str, NoToken), t.rest)
    [] t.type = "square" -> Parsed(Condition(not, NoToken, t.str), t.rest)
    [] not /\ t.type = ")" -> Parsed(Condition(not, NoToken, NoToken), << ")" >> \o t.rest)
    [] OTHER -> NotOk

\* The condition this token is, after Not or without.
conditionOf(not, t) ==
  CASE t.type \in {"str", "angle"} -> Parsed(Condition(not, t.str, NoToken), t.rest)
    [] t.type = "square" -> Parsed(Condition(not, NoToken, t.str), t.rest)
    [] OTHER -> NotOk

parseCondition(s) ==
  LET of(t) == IF t.type = "not" THEN conditionOf(TRUE, lex(t.rest)) ELSE conditionOf(FALSE, t)
  IN  of(lex(s))

\* The conditions of a list, after those that were read.
RECURSIVE parseConditions(_, _)
parseConditions(s, conditions) ==
  LET next(c) == IF c.ok THEN parseConditions(c.rest, Append(conditions, c.value)) ELSE NotOk
      of(t) == CASE t.type # ")" -> next(parseCondition(s))
                 [] t.type = ")" /\ conditions = << >> -> NotOk
                 [] OTHER -> Parsed(List(NoToken, conditions), t.rest)
  IN  of(lex(s))

parseList(s) ==
  LET of(t) == IF t.type = "(" THEN parseConditions(t.rest, << >>) ELSE NotOk IN of(lex(s))

RECURSIVE parseNoTagLists(_, _)
parseNoTagLists(s, lists) ==
  LET next(l) == CASE ~l.ok -> NotOk
                   [] l.ok /\ l.rest = << >> -> Parsed(Append(lists, l.value), << >>)
                   [] OTHER -> parseNoTagLists(l.rest, Append(lists, l.value))
  IN  next(parseList(s))

\* tag is the resource tag read last, n counts the lists since; first is TRUE
\* in the first round.
RECURSIVE parseTaggedLists(_, _, _, _, _)
parseTaggedLists(s, lists, tag, n, first) ==
  LET with(l) == Append(lists, [l.value EXCEPT !.resourceTag = tag])
      next(l) == CASE ~l.ok -> NotOk
                   [] l.ok /\ l.rest = << >> -> Parsed(with(l), << >>)
                   [] OTHER -> parseTaggedLists(l.rest, with(l), tag, n + 1, FALSE)
      of(t) == CASE t.type = "angle" /\ (first \/ n # 0) ->
                      parseTaggedLists(t.rest, lists, t.str, 0, FALSE)
                 [] t.type = "(" -> next(parseList(s))
                 [] OTHER -> NotOk
  IN  of(lex(s))

TrimSpace(s) ==
  From(SubSeq(s, 1, SelectLastInSeq(s, LAMBDA c : c # " ")),
       Max({1, SelectInSeq(s, LAMBDA c : c # " ")}))

\* The lists of a header, or NotOk.
parseIfHeader(header) ==
  LET of(s, type) == CASE type = "("     -> parseNoTagLists(s, << >>)
                       [] type = "angle" -> parseTaggedLists(s, << >>, NoToken, 0, TRUE)
                       [] OTHER -> NotOk
      parse(s) == of(s, lex(s).type)
  IN  parse(TrimSpace(header))

-----------------------------------------------------------------------------
(* What a header says, by its tokens and which stand next to which.  Here a *)
(* header is a sequence of tokens, each with its characters; spaces are     *)
(* tokens too.                                                              *)

Paren(c)    == [type |-> c, str |-> << >>, chars |-> << c >>]
Space       == [type |-> " ", str |-> << >>, chars |-> << " " >>]
NotWord     == [type |-> "not", str |-> << >>, chars |-> << "Not" >>]
Word(w)     == [type |-> "str", str |-> w, chars |-> w]
Angle(w)    == [type |-> "angle", str |-> w, chars |-> << "<" >> \o w \o << ">" >>]
Square(w)   == [type |-> "square", str |-> w, chars |-> << "[" >> \o w \o << "]" >>]
Stray(c)    == [type |-> "err", str |-> << >>, chars |-> << c >>]

Characters(tokens) == FlattenSeq([i \in DOMAIN tokens |-> tokens[i].chars])

\* Words that touch are one word, and a bracket without its end is one only if
\* none follows: other sequences of tokens are not read as such.
Separate(tokens) ==
  \A i, j \in DOMAIN tokens :
    /\ ~(j = i + 1 /\ {tokens[i].type, tokens[j].type} \subseteq {"str", "not"})
    /\ ~(i < j /\ tokens[i].type = "err" /\ Range(tokens[j].chars) \cap {">", "]"} # {})

\* Where the tokens of these types are, and which are in no list.
Of(t, types) == {i \in DOMAIN t : t[i].type \in types}
Outside(t) ==
  {i \in DOMAIN t \ Of(t, {"(", ")"}) :
     \A o \in Of(t, {"("}) : o < i => \E e \in Of(t, {")"}) : o < e /\ e < i}

Values == {"str", "angle", "square"}

\* The grammar of RFC 4918, 10.4: lists in parentheses of at least one
\* condition, all or none after a resource tag.
Legal(t) ==
  LET opens  == Of(t, {"("})
      ends   == Of(t, {")"})
      nextTo(i, j) == ~\E x \in opens \cup ends : i < x /\ x < j
  IN  /\ opens # {} /\ Len(t) \in ends
      /\ \A o \in opens : o + 1 \notin ends /\ \E e \in ends : o < e /\ nextTo(o, e)
      /\ \A e \in ends : \E o \in opens : o < e /\ nextTo(o, e)
      /\ \A i \in DOMAIN t \ (Outside(t) \cup opens \cup ends) :
           \/ t[i].type \in Values
           \/ t[i].type = "not" /\ i + 1 \in Of(t, Values)
      /\ \A i \in Outside(t) : t[i].type = "angle" /\ i + 1 \in opens
      /\ Outside(t) # {} => 1 \in Outside(t)

\* The list that begins at i: the last tag before it, and its values.
ListAt(t, i) ==
  LET tags   == {j \in Outside(t) : j < i}
      values == {j \in Of(t, Values) : i < j /\ ~\E e \in Of(t, {")"}) : i < e /\ e < j}
      condition(j) == LET not == j - 1 \in Of(t, {"not"})
                      IN  IF t[j].type = "square" THEN Condition(not, NoToken, t[j].str)
                          ELSE Condition(not, t[j].str, NoToken)
  IN  List(IF tags = {} THEN NoToken ELSE t[Max(tags)].str,
           FoldLeft(LAMBDA cs, j : Append(cs, condition(j)), << >>, SetToSortSeq(values, <)))

\* The lists these tokens form.
Said(t) ==
  IF Legal(t)
    THEN Parsed(FoldLeft(LAMBDA ls, i : Append(ls, ListAt(t, i)), << >>,
                         SetToSortSeq(Of(t, {"("}), <)), << >>)
    ELSE NotOk

\* A header is taken exactly when its tokens form lists, and its conditions
\* come with the negation and the resource tag that stand before them.
HeaderExact(tokens) ==
  Separate(tokens) => parseIfHeader(Characters(tokens))
                        = Said(SelectSeq(tokens, LAMBDA x : x # Space))
=============================================================================
