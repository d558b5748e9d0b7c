-------------------------------- MODULE Markup --------------------------------
(***************************************************************************)
(* format_markup (turbo/formatters.cpp): the recursive descent over a      *)
(* user's text.  A text is a sequence of characters, the words beginquote  *)
(* and endquote counting as one; what comes out is a sequence of tags and  *)
(* characters, encoded where html has to be.                               *)
(*                                                                         *)
(* The parser is a record: the text, the place in it, the last token and   *)
(* its type, whether the text has not been seen to end, what is written.   *)
(***************************************************************************)
EXTENDS Integers, SequencesExt

AllFlags == {"links", "wikilinks", "bold_italics", "titles", "lists", "quotes", "codequotes"}
FormatPost == {"links", "bold_italics", "quotes"}

Encoded(c) ==
  CASE c = "\"" -> "&quot;" [] c = "&" -> "&amp;" [] c = "<" -> "&lt;" [] c = ">" -> "&gt;"
    [] OTHER -> c
Html(chars) == [i \in DOMAIN chars |-> Encoded(chars[i])]

\* The first place from i on that is not a carriage return.
SkipReturns(input, i) ==
  LET k == SelectInSubSeq(input, i, Len(input), LAMBDA c : c # "\r") IN
  IF k = 0 THEN Len(input) + 1 ELSE k

Parser(input, flags) ==
  [in |-> input, ii |-> SkipReturns(input, 1), token |-> <<>>, type |-> "none",
   alive |-> TRUE, out |-> <<>>, flags |-> flags]

Write(p, symbols) == [p EXCEPT !.out = @ \o symbols]
Ahead(p) == IF p.ii > Len(p.in) THEN "end" ELSE p.in[p.ii]
TokenNextChar(p) ==
  [p EXCEPT !.token = Append(@, Ahead(p)), !.ii = SkipReturns(p.in, p.ii + 1)]

RECURSIVE TokenRun(_, _)
TokenRun(p, c) == IF Ahead(p) = c THEN TokenRun(TokenNextChar(p), c) ELSE p

\* The token that begins with c, which is in t, and goes on with next.
Token(t, c, next) ==
  LET of(type, q) == [q EXCEPT !.type = type] IN
  CASE c = "*" -> of("star", t)
    [] c = "_" -> of("underscore", t)
    [] c = "[" -> of("openbracket", t)
    [] c = "]" -> of("closebracket", t)
    [] c = "=" -> of("title", TokenRun(t, "="))
    [] c = "\n" ->
         CASE next = "\n" -> of("2newline", t)
           [] next = "*" -> of("bullet", TokenRun(t, "*"))
           [] next = "#" -> of("hash", TokenRun(t, "#"))
           [] next = " " -> of("code", TokenNextChar(t))
           [] next \in {"beginquote", "endquote"} ->
                of(next, [t EXCEPT !.token = Append(@, next), !.ii = @ + 1])
           [] OTHER -> of("newline", t)
    [] OTHER -> of("none", t)

\* get_token.  At the end of the text the type of the last token stays.
GetToken(p) ==
  LET from(t) == Token(t, Ahead(p), Ahead(t)) IN
  IF Ahead(p) = "end" THEN [p EXCEPT !.token = <<>>, !.alive = FALSE]
  ELSE from(TokenNextChar([p EXCEPT !.token = <<>>]))

AtNewline(p) == p.type # "none" /\ p.token # <<>> /\ p.token[1] = "\n"

\* The handler of a token's type, and the flags any of which turns it on: a link is one
\* under every flag.
Handlers ==
  [star |-> "bold", underscore |-> "italic", openbracket |-> "link", bullet |-> "list",
   hash |-> "numlist", title |-> "title", code |-> "codequote", beginquote |-> "quote"]
Enabling ==
  [bold |-> {"bold_italics"}, italic |-> {"bold_italics"}, link |-> AllFlags,
   list |-> {"lists"}, numlist |-> {"lists"}, title |-> {"titles"},
   codequote |-> {"codequotes"}, quote |-> {"quotes"}]

ListTag(kind) == IF kind = "list" THEN "UL" ELSE "OL"
Open(tag) == "<" \o tag \o ">"
Close(tag) == "</" \o tag \o ">"
Times(n, symbol) == [i \in 1 .. IF n < 0 THEN 0 ELSE n |-> symbol]

TitleTag(p) == LET n == Len(p.token) IN
               "H" \o ToString(IF n < 2 THEN 2 ELSE IF n > 4 THEN 4 ELSE n)

\* A link leads to what it says; one whose text has no dot leads to the wiki, under any flag.
Link(p, thelink) ==
  IF thelink = <<>> THEN p
  ELSE LET wiki == p.flags # {} /\ "." \notin ToSet(thelink) IN
       Write(p, <<IF wiki THEN "<A wiki>" ELSE "<A>">> \o Html(thelink) \o <<"</A>">>)

(* Mutant: a deeper list that ends is closed once. *)
ToLevelOnce(kind, from, to) ==
  LET tag == ListTag(kind) IN
  Times(IF from > to THEN 1 ELSE 0, Close(tag)) \o Times(to - from, Open(tag))

\* From one level of a list to another, one below zero included.
ToLevel(kind, from, to) ==
  LET tag == ListTag(kind) IN Times(from - to, Close(tag)) \o Times(to - from, Open(tag))

RECURSIVE Loop(_, _, _)

\* process_token
ProcessToken(p, recur) ==
  LET plain == Write(p, Html(p.token))
      do    == Handlers[p.type]
      start(symbols, local) == Loop(do, Write(p, symbols), local) IN
  IF ~recur \/ p.type \notin DOMAIN Handlers THEN plain
  ELSE IF Enabling[do] \cap p.flags = {} THEN plain
  ELSE CASE do \in {"bold", "italic"} -> start(<<>>, FALSE)
         [] do = "link" -> start(<<>>, <<>>)
         [] do \in {"list", "numlist"} -> start(<<Open(ListTag(do)), "<LI>">>, 1)
         [] do = "title" -> start(<<Open(TitleTag(p))>>, TitleTag(p))
         [] do = "codequote" -> start(<<"<PRE>">> \o Html(p.token), 0)
         [] do = "quote" -> start(<<"<BLOCKQUOTE>", "<P>">>, 0)

\* The token that ends a handler's loop.
EndsLoop(do, p) ==
  CASE do = "para" -> p.type = "2newline"
    [] do = "bold" -> p.type = "star"
    [] do = "italic" -> p.type = "underscore"
    [] do = "link" -> p.type = "closebracket"
    [] do = "title" -> p.type = "title"
    [] do = "codequote" -> AtNewline(p) /\ p.type # "code"
    [] do = "quote" -> p.type = "endquote"
    [] OTHER -> FALSE

\* What a handler does behind its loop.
Finish(do, p, local) ==
  CASE do = "para" -> Write(p, <<"</P>">>)
    [] do = "bold" -> Write(p, <<IF local THEN "</B>" ELSE "*">>)
    [] do = "italic" -> Write(p, <<IF local THEN "</I>" ELSE "_">>)
    [] do = "link" -> Link(p, local)
    [] do \in {"list", "numlist"} -> Write(p, Times(local, Close(ListTag(do))))
    [] do = "title" -> Write(p, <<Close(local)>>)
    [] do = "codequote" -> Write(p, <<"</PRE>">>)
    [] do = "quote" -> Write(p, <<"</P>", "</BLOCKQUOTE>">>)

\* A line of a list: its items' level is the number of its marks.
ListLine(do, p, level) ==
  LET item   == p.type = IF do = "list" THEN "bullet" ELSE "hash"
      wanted == IF item THEN Len(p.token) - 1 ELSE 0
      q      == Write(p, <<"</LI>">> \o ToLevel(do, level, wanted)) IN
  IF wanted = 0 THEN q ELSE Loop(do, Write(q, <<"<LI>">>), wanted)

\* The loop of do_para, do_bold and the others; local is what they keep: whether anything
\* was in bold or italics, the link, the level of the list, the title's tag.
LoopBody(do, t, local) ==
  CASE do = "quote" /\ t.type = "2newline" -> Loop(do, Write(t, <<"</P>", "<P>">>), local)
    [] do \in {"bold", "italic"} ->
         LET tag == IF do = "bold" THEN "<B>" ELSE "<I>" IN
         Loop(do, ProcessToken(IF local THEN t ELSE Write(t, <<tag>>), TRUE), TRUE)
    [] do = "link" -> Loop(do, t, local \o t.token)
    [] do \in {"list", "numlist"}
         /\ (AtNewline(t) \/ t.type = IF do = "list" THEN "bullet" ELSE "hash") ->
         ListLine(do, t, local)
    [] OTHER -> Loop(do, ProcessToken(t, do \notin {"title", "codequote"}), local)

LoopToken(do, t, local) ==
  IF EndsLoop(do, t) THEN Finish(do, t, local) ELSE LoopBody(do, t, local)
Loop(do, p, local) ==
  IF p.alive THEN LoopToken(do, GetToken(p), local) ELSE Finish(do, p, local)

\* markup::go
RECURSIVE Go(_)
Go(p) == IF p.alive THEN Go(Loop("para", Write(p, <<"<P>">>), 0)) ELSE p.out

FormatMarkup(input, flags) == Go(Parser(input, flags))
=============================================================================
