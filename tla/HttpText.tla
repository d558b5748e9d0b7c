------------------------------ MODULE HttpText ------------------------------
(***************************************************************************)
(* The conversions of core/http.cpp that a value passes on its way to the  *)
(* client and back: url and quote encoding, url encoded forms, cookies.    *)
(* Text is a sequence of character codes.  Codes are those of printable    *)
(* ASCII: url_encode writes codes below 16 with one digit and codes above  *)
(* 127 as negative numbers, and its decoder does not understand either.    *)
(* An escape is never cut off by the end of the text.                      *)
(***************************************************************************)
EXTENDS Integers, SequencesExt

\* The characters that url_encode writes so that its decoder understands them.
Codes == 16 .. 127

Space == 32
Quote == 34
Percent == 37
Amp == 38
Plus == 43
Semicolon == 59
Less == 60
Equals == 61
Greater == 62

Digits == 48..57
UpperHex == 65..70
LowerHex == 97..102
Alnum == Digits \cup 65..90 \cup 97..122

\* strtol(.., 16) of two characters: an optional blank or sign, then as many digits as
\* there are.
HexDigit(c) == CASE c \in Digits   -> c - 48
                 [] c \in UpperHex -> c - 55
                 [] c \in LowerHex -> c - 87
IsHex(c) == c \in Digits \cup UpperHex \cup LowerHex

HexValue(a, b) ==
  CASE IsHex(a) /\ IsHex(b)            -> 16 * HexDigit(a) + HexDigit(b)
    [] IsHex(a) /\ ~IsHex(b)           -> HexDigit(a)
    [] a \in {Space, Plus} /\ IsHex(b) -> HexDigit(b)
    [] OTHER                           -> 0

\* The decoders take an escape for one character.  Each element has the code of the
\* character and, if it was escaped, the two characters of the escape.
Characters(s) ==
  LET from[i \in 1..Len(s) + 3] ==
        CASE i > Len(s) -> <<>>
          [] i <= Len(s) /\ s[i] = Percent ->
               <<[code |-> HexValue(s[i + 1], s[i + 2]), escape |-> <<s[i + 1], s[i + 2]>>]>>
                 \o from[i + 3]
          [] OTHER ->
               <<[code |-> IF s[i] = Plus THEN Space ELSE s[i], escape |-> <<>>]>>
                 \o from[i + 1]
  IN from[1]

\* url_decode.  With form, the two separators stay escaped if written in capitals.
KeptEscapes == {<<50, 54>>, <<51, 68>>}

UrlDecode(s, form) ==
  FlattenSeq([i \in DOMAIN Characters(s) |->
    LET c == Characters(s)[i] IN
    IF form /\ c.escape \in KeptEscapes THEN <<Percent>> \o c.escape ELSE <<c.code>>])

\* url_encode.  snprintf("%x") writes small letters.
HexChar(d) == IF d < 10 THEN 48 + d ELSE 87 + d

UrlEncode(s, form) ==
  FlattenSeq([i \in DOMAIN s |->
    IF s[i] = Space /\ form THEN <<Plus>>
    ELSE IF s[i] \in Alnum \/ (s[i] = 46 /\ ~form) THEN <<s[i]>>
    ELSE <<Percent, HexChar(s[i] \div 16), HexChar(s[i] % 16)>>])

-----------------------------------------------------------------------------
(* Mutant: a '&' is taken for the start of an entity that is there. *)
EntityNoAmp(c) == CASE c = Quote   -> <<Amp, 113, 117, 111, 116, Semicolon>>
                     [] c = Less    -> <<Amp, 108, 116, Semicolon>>
                     [] c = Greater -> <<Amp, 103, 116, Semicolon>>
                     [] OTHER       -> <<c>>

\* html_quote_encode.
Entity(c) == CASE c = Quote   -> <<Amp, 113, 117, 111, 116, Semicolon>>
               [] c = Amp     -> <<Amp, 97, 109, 112, Semicolon>>
               [] c = Less    -> <<Amp, 108, 116, Semicolon>>
               [] c = Greater -> <<Amp, 103, 116, Semicolon>>
               [] OTHER       -> <<c>>

QuoteEncode(s) == FlattenSeq([i \in DOMAIN s |-> Entity(s[i])])

\* html_quote_decode: buf has what may be an entity since the last '&'.
QuoteDecode(s) ==
  LET Step(st, c) ==
        LET buf == Append(st.buf, c)
            are == {q \in {Quote, Amp, Less, Greater} : Entity(q) = buf} IN
        CASE c = Amp -> [st EXCEPT !.buf = buf]
          [] c = Semicolon -> [out |-> st.out \o (IF are = {} THEN buf
                                                  ELSE <<CHOOSE q \in are : TRUE>>),
                               buf |-> <<>>]
          [] OTHER -> IF st.buf # <<>> THEN [st EXCEPT !.buf = buf]
                      ELSE [st EXCEPT !.out = Append(@, c)]
      end == FoldLeft(Step, [out |-> <<>>, buf |-> <<>>], s)
  IN end.out \o end.buf

-----------------------------------------------------------------------------
\* A map from names to values, as the sequence of its insertions with distinct names.
\* insert of a std::map keeps the value that is there.
Insert(map, name, value) ==
  IF \E i \in DOMAIN map : map[i].name = name THEN map
  ELSE Append(map, [name |-> name, value |-> value])

\* operator[] replaces it.
Assign(map, name, value) ==
  LET entry == [name |-> name, value |-> value] IN
  IF \E i \in DOMAIN map : map[i].name = name
  THEN [i \in DOMAIN map |-> IF map[i].name = name THEN entry ELSE map[i]]
  ELSE Append(map, entry)

(* Mutant: an escaped separator separates. *)
FormStepDecoded(st, c) ==
  CASE c.code = Equals -> [st EXCEPT !.isName = FALSE]
    [] c.code = Amp    ->
         [isName |-> TRUE, name |-> <<>>, value |-> <<>>,
          fields |-> Insert(st.fields, st.name, st.value)]
    [] OTHER -> IF st.isName THEN [st EXCEPT !.name = Append(@, c.code)]
                ELSE [st EXCEPT !.value = Append(@, c.code)]

\* http_form::decode_and_parse into an empty map: its fields, and whether the text ended in
\* a value.  A '=' within a value is dropped.
FormStep(st, c) ==
  CASE c.escape = <<>> /\ c.code = Equals -> [st EXCEPT !.isName = FALSE]
    [] c.escape = <<>> /\ c.code = Amp    ->
         [isName |-> TRUE, name |-> <<>>, value |-> <<>>,
          fields |-> Insert(st.fields, st.name, st.value)]
    [] OTHER -> IF st.isName THEN [st EXCEPT !.name = Append(@, c.code)]
                ELSE [st EXCEPT !.value = Append(@, c.code)]

FormDecode(s) ==
  LET end == FoldLeft(FormStep,
                      [isName |-> TRUE, name |-> <<>>, value |-> <<>>, fields |-> <<>>],
                      Characters(s))
  IN [ok |-> ~end.isName,
      fields |-> IF end.isName THEN end.fields ELSE Insert(end.fields, end.name, end.value)]

-----------------------------------------------------------------------------
\* string_tokenize_word: the pieces between any of the separators, without empty ones.
Pieces(s, separators) ==
  LET Cut(st) == IF st.cur = <<>> THEN st.all ELSE Append(st.all, st.cur)
      Step(st, c) ==
        IF c \notin separators THEN [st EXCEPT !.cur = Append(@, c)]
        ELSE [cur |-> <<>>, all |-> Cut(st)]
  IN Cut(FoldLeft(Step, [cur |-> <<>>, all |-> <<>>], s))

\* split_char at the first c, which is there.
Before(s, c) == SubSeq(s, 1, SelectInSeq(s, LAMBDA x : x = c) - 1)
After(s, c) == SubSeq(s, SelectInSeq(s, LAMBDA x : x = c) + 1, Len(s))

\* http_cookies::decode_and_parse, for a header of name=value pairs.
Cookies(s) ==
  LET pairs == Pieces(s, {Semicolon, Space}) IN
  [i \in DOMAIN pairs |->
    [name |-> Before(pairs[i], Equals), value |-> UrlDecode(After(pairs[i], Equals), FALSE)]]

\* set_server_cookie and send_server_cookies, as far as the client keeps it.
ServerCookie(name, value) == name \o <<Equals>> \o UrlEncode(value, TRUE)
=============================================================================
