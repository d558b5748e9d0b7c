------------------------------ MODULE PageText ------------------------------
(***************************************************************************)
(* What the algorithms that make pages do to a text of the kind each is    *)
(* for: templates (Template), .wx files (WxMake), users' markup (Markup).  *)
(* A text is a sequence of pieces, tags whole, that are put together.      *)
(***************************************************************************)
EXTENDS Template, WxMake, Markup, FiniteSets

CONSTANTS
  Root,     \* the record templates are merged with
  WxPath,   \* of the .wx file
  WxParts   \* of its name

VARIABLES kind, text

-----------------------------------------------------------------------------
(* What a template means, said without tokens: of tags and literals in a   *)
(* row, each foreach and if goes on to the end of its own.                 *)

Opens(tag) == Len(tag) > 3 /\ tag[2] \in {"foreach", "if", "ifnot"}
IsEnd(tag) == tag = <<"{", "end", "}">>
Splits(tag) == Len(tag) > 2 /\ tag[2] \in {"else", "elseif", "elseifnot"}
IsField(tag) == Len(tag) = 3 /\ tag[2] \notin {"else", "end"}

Depth(tags, i) ==
  Cardinality({j \in 1 .. i : Opens(tags[j])}) - Cardinality({j \in 1 .. i : IsEnd(tags[j])})

\* The end of what tag i opens.
EndOf(tags, i) ==
  CHOOSE j \in i + 1 .. Len(tags) :
    /\ Depth(tags, j) = Depth(tags, i) - 1
    /\ \A l \in i + 1 .. j - 1 : Depth(tags, l) >= Depth(tags, i)

\* The if or foreach that tag i is directly in.
OpenerOf(tags, i) ==
  CHOOSE j \in 1 .. i - 1 : Opens(tags[j]) /\ Depth(tags, j) = Depth(tags, i)
                            /\ \A l \in j .. i : Depth(tags, l) >= Depth(tags, i)

WellFormed(tags) ==
  /\ \A i \in DOMAIN tags : Depth(tags, i) >= 0
  /\ Depth(tags, Len(tags)) = 0
  /\ \A i \in DOMAIN tags : Splits(tags[i]) =>
       /\ Depth(tags, i) > 0
       /\ tags[OpenerOf(tags, i)][2] # "foreach"

\* Whether a well-formed template of at most n tags begins with these.
Begins(tags, n) ==
  LET open == Depth(tags, Len(tags)) IN
  /\ Len(tags) + open <= n
  /\ WellFormed(tags \o [i \in 1 .. open |-> <<"{", "end", "}">>])

\* The paths of a record to its strings and to its records, each with what is there.
RECURSIVE StringsAt(_), RecordsAt(_)
Prefixed(name, at) == {<<<<name>> \o p[1], p[2]>> : p \in at}
StringsAt(r) ==
  {<<<<name>>, StringOf(r, name)>> : name \in Counts \cup DOMAIN r.strings}
    \cup UNION {Prefixed(s.name, StringsAt(s.rec)) : s \in ToSet(r.recs)}
RecordsAt(r) ==
  {<<<<>>, r>>} \cup UNION {Prefixed(s.name, RecordsAt(s.rec)) : s \in ToSet(r.recs)}

\* What a path leads to, in the innermost record it leads anywhere in.
Innermost(at, paths) ==
  LET hits == {i \in DOMAIN at : \E p \in at[i] : p[1] \in paths} IN
  IF hits = {} THEN <<>>
  ELSE LET i == CHOOSE j \in hits : \A l \in hits : j <= l IN
       <<(CHOOSE p \in at[i] : p[1] \in paths)[2]>>
Value(scope, path) ==
  Innermost([i \in DOMAIN scope |-> StringsAt(scope[i])], {path, Append(path, "string")})
RecordOf(scope, path) == Innermost([i \in DOMAIN scope |-> RecordsAt(scope[i])], {path})

Condition(scope, tag) ==
  IF tag[2] = "else" THEN TRUE
  ELSE (Value(scope, Path[tag[4]]) \in {<<>>, <<"">>, <<"0">>})
         = (tag[2] \in {"ifnot", "elseifnot"})

RECURSIVE Meaning(_, _)
Meaning(tags, scope) ==
  IF tags = <<>> THEN <<>>
  ELSE LET tag  == Head(tags)
           end  == EndOf(tags, 1)
           rest == SubSeq(tags, IF Opens(tag) THEN end + 1 ELSE 2, Len(tags))
           body == SubSeq(tags, 2, end - 1)
           list == RecordOf(scope, Path[tag[4]])
           cuts == {1, end} \cup {i \in 2 .. end - 1 : Splits(tags[i]) /\ Depth(tags, i) = 1}
           true == {i \in cuts \ {end} : Condition(scope, tags[i])}
           from == CHOOSE i \in true : \A j \in true : i <= j
           upto == CHOOSE i \in cuts : i > from /\ \A j \in cuts : j > from => i <= j
           says ==
             CASE IsField(tag) -> Value(scope, Path[tag[2]])
               [] Opens(tag) /\ tag[2] = "foreach" ->
                    IF list = <<>> THEN <<>>
                    ELSE FlattenSeq([i \in DOMAIN list[1].recs |->
                                       Meaning(body, <<list[1].recs[i].rec, list[1]>> \o scope)])
               [] Opens(tag) /\ tag[2] # "foreach" ->
                    IF true = {} THEN <<>> ELSE Meaning(SubSeq(tags, from + 1, upto - 1), scope)
               [] OTHER -> tag
       IN says \o Meaning(rest, scope)

\* A template of whole tags, each foreach and if with an end, merges to what it says: the
\* branches of an if, whatever stands in them, belong to that if and what follows its end
\* to nobody's; a field is that of the innermost record that has it.  A record here has
\* no string of the name of one of its records, which would be found first.
TemplateMeans ==
  kind = "template" /\ WellFormed(text) => Merge(Root, FlattenSeq(text)) = Meaning(text, <<Root>>)

-----------------------------------------------------------------------------
(* What a .wx file says, found by looking for the ends of its tags.        *)

Lowest(S) == CHOOSE i \in S : \A j \in S : i <= j
OpensAt(chars, i) == i < Len(chars) /\ chars[i] = "<" /\ chars[i + 1] \in Marks
ClosesAt(chars, i) == i < Len(chars) /\ chars[i] \in Marks /\ chars[i + 1] = ">"

\* Neither a mark before the end of a tag nor a "<" before its beginning, which keep it from
\* being one, no tag without its end, no backslash, no "<" at the end.
RECURSIVE Plain(_, _), Script(_, _, _)
Plain(chars, i) ==
  LET opens  == {j \in i .. Len(chars) : OpensAt(chars, j)}
      closes == {j \in Lowest(opens) + 3 .. Len(chars) : ClosesAt(chars, j)} IN
  opens # {} => closes # {} /\ Plain(chars, Lowest(closes) + 2)
Regular(chars) ==
  /\ Plain(chars, 1)
  /\ \A i \in 1 .. Len(chars) - 1 : chars[i] = "<" => chars[i + 1] # "<"
  /\ \A i \in 1 .. Len(chars) - 1 : chars[i] \in Marks => ~ClosesAt(chars, i + 1)
  /\ "\\" \notin ToSet(chars)
  /\ chars # <<>> => Last(chars) # "<"

LineAt(chars, i) == 1 + Cardinality({j \in 1 .. i : chars[j] = "\n"})

\* The texts and tags of a file from position i on, included files in their places.
Script(path, chars, i) ==
  LET opens == {j \in i .. Len(chars) : OpensAt(chars, j)}
      from  == Lowest(opens)
      to    == Lowest({j \in from + 3 .. Len(chars) : ClosesAt(chars, j)})
      buf   == SubSeq(chars, from + 3, to - 1)
      at    == LineAt(chars, from + 2)
      literal(upto) == <<[kind |-> "text", text |-> SubSeq(chars, i, upto)]>>
      file  == Included(path, buf)
      tag   == CASE chars[from + 2] = "f" -> <<[kind |-> "body"]>>
                 [] chars[from + 2] \in {"=", "h"} ->
                      <<CodePrint(buf, chars[from + 2] = "h", path, at)>>
                 [] chars[from + 2] = "i" ->
                      IF file \in DOMAIN WxFiles THEN Script(file, WxFiles[file], 1)
                      ELSE <<[kind |-> "missing"]>>
                 [] OTHER -> <<Code(buf, path, at)>>
  IN IF opens = {} THEN literal(Len(chars)) ELSE literal(from - 1) \o tag \o Script(path, chars, to + 2)

\* What a compiler of C++ makes of the literal.
RECURSIVE Unescaped(_)
Unescaped(chars) ==
  IF chars = <<>> THEN <<>>
  ELSE IF Head(chars) # "\\" THEN <<Head(chars)>> \o Unescaped(Tail(chars))
  ELSE <<CASE chars[2] = "n" -> "\n" [] chars[2] = "t" -> "\t" [] chars[2] = "r" -> "\r"
           [] OTHER -> chars[2]>> \o Unescaped(SubSeq(chars, 3, Len(chars)))
Printed(s) == IF s.kind = "print" THEN [kind |-> "text", text |-> Unescaped(s.text)] ELSE s

\* The program a script stands for.
Stated(said) == SelectSeq(said, LAMBDA s : /\ s.kind # "body"
                                           /\ s.kind = "text" => ~MostlyEmpty(s.text))
InFunction(statements) ==
  IF statements = <<>> THEN <<>>
  ELSE <<FuncStart(IF Len(WxParts) = 1 THEN <<>> ELSE WxParts)>> \o statements
Says(made, said) ==
  LET begin == SelectInSeq(said \o <<[kind |-> "body"]>>, LAMBDA s : s.kind = "body") IN
  /\ (made.code = 0) = (\A i \in DOMAIN said : said[i].kind # "missing")
  /\ made.code = 0 =>
       /\ [i \in DOMAIN made.out |-> Printed(made.out[i])]
            = Stated(SubSeq(said, 1, begin - 1)) \o InFunction(Stated(SubSeq(said, begin, Len(said))))
       /\ made.closed = (Stated(SubSeq(said, begin, Len(said))) # <<>>)
\* The program that comes of a .wx file prints its texts and does its code in the order of
\* the file, included files in their places; each piece of code carries the file and line
\* it is from; what comes before <?f?> stands outside the function, the rest inside it, and
\* the function is opened once and closed if it is open.  Texts of a few blanks are left
\* out, also between two values.  Not promised: files that are not Regular, whose tags the
\* compiler does not see where they are.
WxMeans ==
  kind = "wx" /\ Regular(FlattenSeq(text)) =>
    Says(ProcessWx(WxPath, FlattenSeq(text), WxParts), Script(WxPath, FlattenSeq(text), 1))
-----------------------------------------------------------------------------
(* Markup.                                                                 *)

Tags(name) == [open |-> "<" \o name \o ">", close |-> "</" \o name \o ">"]
Nesting == {Tags(n) : n \in {"P", "B", "I", "UL", "OL", "LI", "H2", "H3", "H4", "PRE", "BLOCKQUOTE"}}
             \cup {[open |-> o, close |-> "</A>"] : o \in {"<A>", "<A wiki>"}}

\* The tags that are open behind symbols, outermost first, or Broken if one is closed that
\* is not the innermost.  A list closes its last item too.
Broken == <<"broken">>
OpenBehind(symbols) ==
  FoldLeft(LAMBDA open, s :
             LET inner == IF s \in {"</UL>", "</OL>"} /\ open # <<>> /\ Last(open) = "<LI>"
                          THEN Front(open) ELSE open IN
             CASE open = Broken -> Broken
               [] open # Broken /\ \E t \in Nesting : t.open = s -> Append(open, s)
               [] open # Broken /\ \E t \in Nesting : t.close = s ->
                    IF inner # <<>> /\ [open |-> Last(inner), close |-> s] \in Nesting
                    THEN Front(inner) ELSE Broken
               [] OTHER -> open,
           <<>>, symbols)

PlainChars == {"a", "<", "."}

\* Whatever a user writes, the markup of it leaves no tag open, closes none that is not the
\* innermost, and has every plain character of the text once and in its order, encoded.
\* Excepted are texts that end in a mark: get_token leaves its type behind at the end of
\* the text, so that a last "*" is taken for two, and a list whose last line is a mark and
\* nothing more goes to level -1 and is closed twice.
MarkupNests ==
  LET nests(chars, out) ==
        /\ OpenBehind(out) = <<>>
        /\ SelectSeq(out, LAMBDA s : s \in ToSet(Html(<<"a", "<", ".">>)))
             = Html(SelectSeq(chars, LAMBDA c : c \in PlainChars))
      endsInMark(chars) == chars # <<>> /\ Last(chars) \in {"*", "_", "=", "#"}
  IN kind = "markup" =>
       \A flags \in {{}, FormatPost, AllFlags} :
         flags = {} \/ ~endsInMark(FlattenSeq(text)) =>
           nests(FlattenSeq(text), FormatMarkup(FlattenSeq(text), flags))
=============================================================================
