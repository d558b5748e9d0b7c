---------------------------- MODULE RequestText ----------------------------
(***************************************************************************)
(* What the algorithms of HttpText, Upload and Routing do to a text of the *)
(* kind each is for.                                                       *)
(***************************************************************************)
EXTENDS Upload, Routing, Widgets

CONSTANTS
  TextPieces,   \* of each kind of text: what it grows by
  MaxPieces     \* and up to how many

ASSUME TextAssumption ==
  /\ UploadAssumption
  /\ "file" \in DOMAIN TextPieces => TextPieces["file"] \subseteq Nat
  /\ "value" \in DOMAIN TextPieces => TextPieces["value"] \subseteq Codes
  /\ "quoted" \in DOMAIN TextPieces => TextPieces["quoted"] \subseteq Nat
  /\ "path" \in DOMAIN TextPieces =>
       TextPieces["path"] \subseteq Nat /\ MaxPieces["path"] \in 0 .. NPos - 1

VARIABLES
  kind,   \* what the text is
  text

textvars == <<kind, text>>

TextInit == text = <<>>

\* A text grows by a piece at a time, so that each is reached up to a bound.
Grow ==
  /\ kind \in DOMAIN TextPieces
  /\ Len(text) < MaxPieces[kind]
  /\ \E piece \in TextPieces[kind] : text' = Append(text, piece)
  /\ UNCHANGED kind

TextSpec == TextInit /\ [][Grow]_textvars

-----------------------------------------------------------------------------
\* Two fields, encoded and joined as a browser does, and the map they make.
Pair(name, value) == UrlEncode(name, TRUE) \o <<Equals>> \o UrlEncode(value, TRUE)
Field(name, value) == [name |-> name, value |-> value]

\* The two parts of a text cut behind k characters.
Left(k) == SubSeq(text, 1, k)
Right(k) == SubSeq(text, k + 1, Len(text))

\* What the server hands out comes back the same: a url through url_encode and url_decode,
\* the fields of a form through its encoding and decode_and_parse, the options of a link
\* through param and target, cookies through set_server_cookie and the client's cookie
\* header.
ValuesReturn ==
  kind = "value" =>
    /\ \A form \in BOOLEAN : UrlDecode(UrlEncode(text, form), FALSE) = text
    /\ \A k \in 0..Len(text) :
         LET form == FormDecode(Pair(Left(k), Right(k)) \o <<Amp>> \o Pair(Right(k), Left(k)))
         IN /\ form.ok
            /\ form.fields = Insert(<<Field(Left(k), Right(k))>>, Right(k), Left(k))
    /\ \A k \in 0..Len(text) :
         LET both == BothParams(Param(<<65>>, Left(k)), Param(<<66>>, Right(k)))
             link == LinkTo(text, Target(<<67>>, both))
         IN FormDecode(After(link.href, 63))
              = [ok |-> TRUE, fields |-> <<Field(<<65>>, Left(k)), Field(<<66>>, Right(k))>>]
    /\ \A k \in 0..Len(text) :
         Cookies(ServerCookie(<<65>>, Left(k)) \o <<Semicolon, Space>>
                   \o ServerCookie(<<66>>, Right(k)))
           = <<Field(<<65>>, Left(k)), Field(<<66>>, Right(k))>>

\* The attributes and bodies that hold a text of the program: those of links, buttons,
\* images and forms with their hidden fields.
Carriers ==
  { QuoteEncode(text), LinkTo(text, <<>>).body, ButtonTo(text, <<>>).button.value,
    ImageHrec(text).src, LinkHrec(text, <<>>).href, LinkHrec(<<>>, text).body,
    ButtonHrec("button", text).value, FormHrec(text, "post", <<>>).action,
    AddHidden(FormHrec(<<>>, "get", <<>>), <<65>>, text).hiddens[1].value }

\* A value in a page cannot end the attribute or tag it is in, and can be had back from
\* the page (html_quote_encode, html_quote_decode, and the widgets that call them).
QuotesReturn ==
  kind = "quoted" =>
    \A held \in Carriers :
      /\ QuoteDecode(held) = text
      /\ ToSet(held) \cap {Quote, Less, Greater} = {}

\* A file with its name and type, and a field with the same text, as a browser sends them.
Delimiter == <<Dash, Dash>> \o Boundary
Upload(t) ==
  Delimiter \o CRLF \o <<Disposition(1, 2)>> \o CRLF \o <<ContentType(3)>>
    \o CRLF \o CRLF \o t \o CRLF
    \o Delimiter \o CRLF \o <<Disposition(4, 0)>> \o CRLF \o CRLF \o t \o CRLF
    \o Delimiter \o <<Dash, Dash>> \o CRLF

\* A file arrives as it was sent, whatever dashes, line ends and halves of delimiters it
\* holds and wherever they stand, and its neighbour in the form with it.  It does not
\* hold the delimiter itself: decode_and_parse_upload looks for it anywhere in a line.
UploadArrives ==
  kind = "file" /\ Occurrences(text, Delimiter) = {} =>
    /\ UploadDecode(Upload(text)).ok
    /\ UploadDecode(Upload(text)).fields =
         << Field(<<1, "">>, text), Field(<<1, "filename">>, <<2>>),
            Field(<<1, "content_type">>, <<3>>), Field(<<4, "">>, text) >>

\* What r asks its list about, as core/listreactor.h:77-92 has it: prefix, suffix or all.
ShouldAsk(r, req) ==
  LET is == CASE r.where = "whole"  -> req = r.match
              [] r.where = "subset" -> Occurrences(req, r.match) # {}
              [] r.where = "begin"  -> IsPrefix(r.match, req)
              [] r.where = "end"    -> IsSuffix(r.match, req) IN
  is = ~r.not

\* An answer a of the file reactor r to a request: that of the first search directory that has
\* anything by the name, with the type its last name ends in; a listing's links lead to
\* something.
TypeIsRight(ext, name) ==
  ext = IF Point \notin ToSet(name) \/ Last(name) = Point THEN Bin ELSE Last(Pieces(name, {Point}))
FileIsRight(r, rest, a) ==
  /\ a.kind = "file" =>
       /\ a.tree = First({i \in DOMAIN r.trees : Look(r.trees[i], rest) # "none"})
       /\ Look(r.trees[a.tree], a.path) = "file"
       /\ TypeIsRight(a.ext, Last(Pieces(a.path, {Separator})))
  /\ a.kind = "listing" =>
       \A link \in a.links :
         LET next == rest \o (IF rest = <<>> THEN <<>> ELSE <<Separator>>) \o UrlDecode(link, FALSE)
         IN FindFile(r, next).code \in {"file", "index", "listing"}

\* Requests one shorter than the string of a suffix match are excepted, since npos + size wraps
\* around to their size, and so are empty strings, for which a negation or another place than
\* all counts for nothing.
Excepted(r, rest) ==
  /\ r.kind = "ifmatch"
  /\ \/ r.where = "end" /\ Len(rest) = Len(r.match) - 1
     \/ r.match = <<>> /\ (r.not \/ r.where # "whole")

\* Whether r, or one of the reactors r asks for it, answers a request; the first that does is
\* to be the one that got it; and a slash is put behind a request once.
Wants(r, rest, req) ==
  LET answers(inner) == ReactorAnswer(inner, rest, req) # NotAnswered IN
  \E inner \in ToSet(IF r.kind = "ifmatch" THEN r.list ELSE <<r>>) :
    /\ r.kind = "ifmatch" => ShouldAsk(r, rest)
    /\ answers(inner)
FirstWanted(list, rest, req, at) ==
  LET wanted == {i \in DOMAIN list : Wants(list[i], rest, req)} IN
  \/ \E r \in ToSet(list) : Excepted(r, rest)
  \/ at = IF wanted = {} THEN 0 ELSE First(wanted)
NoSecondSlash(list, rest, req) ==
  LET slashes(answer, url) == answer = [kind |-> "redirect", url |-> url \o <<Slash>>] IN
  slashes(Answered(list, rest, req), req)
    => ~slashes(Answered(list, rest \o <<Slash>>, req \o <<Slash>>), req \o <<Slash>>)

\* What that is for a request that gets to the reactors of list.
RoutedTo(d, list) ==
  /\ Mount(Apps[d.app]) \o d.rest = text
  /\ \A i \in 1 .. d.app - 1 : ~IsPrefix(Mount(Apps[i]), text)
  /\ FirstWanted(list, d.rest, text, Reactor(list, d.rest, text)[1])
  /\ NoSecondSlash(list, d.rest, text)
  /\ \A r \in ToSet(list) : r.kind = "files" => FileIsRight(r, d.rest, FileAnswer(r, d.rest, text))

\* A request ends at the first reactor, in the order of the lists, that wants it and whose
\* ifmatch lets it through, under the application on whose mount point it is; and a
\* redirection for the sake of a slash does not lead to another.  Files come from the first
\* directory that has them.
RequestRouted ==
  LET routed(d) ==
        /\ d.to = "redirect" => Dispatch(text \o <<Slash>>).to # "redirect"
        /\ d.to = "none" => \A i \in DOMAIN Apps : ~IsPrefix(Mount(Apps[i]), text)
        /\ d.to = "app" => RoutedTo(d, Apps[d.app].reactors)
  IN kind = "path" => routed(Dispatch(text))
=============================================================================
