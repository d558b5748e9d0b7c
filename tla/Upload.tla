------------------------------- MODULE Upload -------------------------------
(***************************************************************************)
(* http_form::decode_and_parse_upload (core/http.cpp): the fields of a     *)
(* multipart body.  Positions count from 1.  A header line without its end *)
(* is one symbol, of which Line says what the code takes from it.  Blocks  *)
(* are well-formed: their header lines end before the next delimiter.      *)
(***************************************************************************)
EXTENDS HttpText

CONSTANT Boundary      \* the boundary string

\* A client takes letters, digits and some marks for it, and no line end.
ASSUME UploadAssumption == Boundary \in Seq(Nat) /\ 13 \notin ToSet(Boundary)

Dash == 45
CRLF == <<13, 10>>

\* A header line: content-disposition with a field name and perhaps a file name, or
\* content-type.  Names are numbers, 0 for none.
Disposition(name, filename) == 1000 + 10 * name + filename
ContentType(t) == 2000 + t
Line(h) ==
  IF h \in 1000..1999 THEN [name |-> (h - 1000) \div 10, filename |-> h % 10, type |-> 0]
  ELSE [name |-> 0, filename |-> 0, type |-> h - 2000]

First(S) == CHOOSE i \in S : \A j \in S : i <= j

(* Mutant: one dash is enough. *)
DelimitersNoLookBack(s, from) ==
  {c \in from .. Len(s) :
     /\ c + 2 + Len(Boundary) < Len(s)
     /\ s[c] = Dash
     /\ SubSeq(s, c + 1, c + Len(Boundary)) = Boundary}

\* The second dash of the delimiters of s from position from on.  One too close to the
\* end for a line end behind it does not count.
Delimiters(s, from) ==
  {c \in from .. Len(s) :
     /\ c + 2 + Len(Boundary) < Len(s)
     /\ s[c] = Dash /\ s[c - 1] = Dash
     /\ SubSeq(s, c + 1, c + Len(Boundary)) = Boundary}

\* The header lines of the block of s from start up to end, and its content, which begins
\* behind an empty line.  ok is FALSE if there is none.
Block(s, start, end) ==
  LET from[i \in 1 .. Len(s)] ==
        LET ends == {j \in i + 1 .. end - 1 : SubSeq(s, j - 1, j) = CRLF} IN
        CASE ends = {} -> [ok |-> FALSE, lines |-> <<>>, content |-> <<>>]
          [] ends # {} /\ i + 1 \in ends ->
               [ok |-> TRUE, lines |-> <<>>, content |-> SubSeq(s, i + 2, end - 1)]
          [] OTHER -> [from[First(ends) + 1] EXCEPT !.lines = <<Line(s[i])>> \o @]
  IN from[start]

\* The loop over the blocks, the first of which begins at first.  A block ends before the
\* line end and the dashes of the next delimiter.
Blocks(s, first) ==
  LET from[start \in 1 .. Len(s) + 1] ==
        LET ends  == Delimiters(s, start)
            end   == First(ends) - 3
            block == Block(s, start, end)
            next  == end + 4 + Len(Boundary)
            last  == \/ next < Len(s) /\ s[next] = Dash /\ s[next + 1] = Dash
                     \/ next + 1 > Len(s)
            rest  == IF last THEN [ok |-> TRUE, blocks |-> <<>>] ELSE from[next + 2] IN
        IF ends = {} THEN [ok |-> FALSE, blocks |-> <<>>]
        ELSE IF start = end THEN rest
        ELSE [ok |-> block.ok /\ rest.ok, blocks |-> <<block>> \o rest.blocks]
  IN from[first]

\* The last value that is told, 0 if none is.
Told(values) ==
  LET told == {i \in DOMAIN values : values[i] # 0} IN
  IF told = {} THEN 0 ELSE values[Max(told)]

\* The fields after a block: the data under the field's name, and what is known of the file
\* under that of a member (member_field_name).
WithBlock(fields, block) ==
  LET name     == Told([i \in DOMAIN block.lines |-> block.lines[i].name])
      filename == Told([i \in DOMAIN block.lines |-> block.lines[i].filename])
      type     == Told([i \in DOMAIN block.lines |-> block.lines[i].type])
      data     == Assign(fields, <<name, "">>, block.content)
      named    == IF filename = 0 THEN data ELSE Assign(data, <<name, "filename">>, <<filename>>)
  IN IF name = 0 THEN fields
     ELSE IF type = 0 THEN named ELSE Assign(named, <<name, "content_type">>, <<type>>)

UploadDecode(s) ==
  LET firsts == Delimiters(s, 2)
      found  == Blocks(s, First(firsts) + 3 + Len(Boundary)) IN
  IF firsts = {} THEN [ok |-> FALSE, fields |-> <<>>]
  ELSE [ok |-> found.ok, fields |-> FoldLeft(WithBlock, <<>>, found.blocks)]
=============================================================================
