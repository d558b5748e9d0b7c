------------------------------ MODULE Template ------------------------------
(***************************************************************************)
(* Templates: the tokenizer (rec/rec.cpp), the run of a token tree over a  *)
(* stack of records (rec/basetoken.cpp) and the record they are mostly run *)
(* over (rec/memrec.cpp).                                                  *)
(*                                                                         *)
(* The input is a sequence of symbols: "{", "}", ":", the words that may   *)
(* stand in a tag, and anything else.  A record has strings and an ordered *)
(* list of named records.                                                  *)
(***************************************************************************)
EXTENDS Integers, SequencesExt

CONSTANTS
  Words,  \* symbols made of letters, digits, '_', '.' and '-'
  Path    \* of those that name a field: its parts

NoField == <<>>
Text(s) == [kind |-> "text", text |-> s]
Field(name) == [kind |-> "field", field |-> name]
Branch(name, isif, toks) == [field |-> name, isif |-> isif, toks |-> toks]

\* A field_token's names.  The empty tag has none, which an assertion forbids; without
\* assertions it is the "string" of the innermost record that has one.
PathOf(buf) ==
  IF buf = <<>> THEN <<>>
  ELSE IF Len(buf) = 1 /\ buf[1] \in DOMAIN Path THEN Path[buf[1]] ELSE <<"unknown">>

-----------------------------------------------------------------------------
(* text_tokenizer                                                          *)

\* What the tokenizer has read of a tag: buf, the words after the last colon, and prebuf,
\* those between it and the colon before.  An unknown command leaves both as they are.
Buf(tag) ==
  LET last == SelectLastInSubSeq(tag, 1, Len(tag), LAMBDA w : w = ":")
  IN SelectSeq(SubSeq(tag, last + 1, Len(tag)), LAMBDA w : w # "}")
Prebuf(tag) ==
  LET last == SelectLastInSubSeq(tag, 1, Len(tag), LAMBDA w : w = ":")
  IN IF last = 0 THEN <<>> ELSE Buf(SubSeq(tag, 1, last - 1))

\* A level of tokens: the tokens, the branches it adds to the if it is in, the position of
\* what follows.
Level(toks, more, next) == [toks |-> toks, more |-> more, next |-> next]
Then(tok, level) == [level EXCEPT !.toks = <<tok>> \o @]

(* Mutant: the if has no statement of its own, the variable that holds that of the level is *)
(* set to it, so that the branches that come later in the level are its.                     *)
IfThenNotLocal(branches, level) ==
  Level(<<[kind |-> "if", branches |-> branches \o level.more]>> \o level.toks, <<>>, level.next)

\* An if and what follows it in its level, whose branches are those of the if the level is in.
IfThen(branches, level) == Then([kind |-> "if", branches |-> branches], level)

\* text_tokenizer_level from position k of input on, inside an if or not, and inside a tag
\* that begins at start, or in plain text if that is 0.
Tokenize(input) ==
  LET n == Len(input)
      level[start \in 0 .. n + 1, k \in 1 .. n + 1, inif \in BOOLEAN] ==
        LET tag    == SubSeq(input, start, k - 1)
            buf    == Buf(tag)
            prebuf == Prebuf(tag)
            inner(if) == level[0, k + 1, if]
            goon   == level[0, k + 1, inif]
            open   == SelectInSubSeq(input, k, n, LAMBDA s : s = "{")
            branch(name, isif) ==
              LET b == inner(TRUE) IN
              Level(<<>>, <<Branch(name, isif, b.toks)>> \o b.more, b.next)
        IN
        IF k > n THEN Level(<<>>, <<>>, n + 1)
        ELSE IF start = 0
        THEN LET rest == IF open = 0 THEN Level(<<>>, <<>>, n + 1)
                         ELSE level[open + 1, open + 1, inif]
                 lit == SubSeq(input, k, IF open = 0 THEN n ELSE open - 1) IN
             IF lit = <<>> THEN rest ELSE Then(Text(lit), rest)
        ELSE CASE input[k] = "{" -> Then(Text(<<"{">>), goon)
               [] input[k] \in Words \cup {":"} -> level[start, k + 1, inif]
               [] input[k] \notin Words \cup {":", "{", "}"} -> Then(Text(<<"ERROR">>), goon)
               [] input[k] = "}" ->
                  CASE buf = <<"end">> /\ prebuf = <<>> -> Level(<<>>, <<>>, k + 1)
                    [] buf = <<"else">> /\ prebuf = <<>> /\ inif -> branch(NoField, TRUE)
                    [] prebuf = <<>> /\ buf # <<"end">> /\ ~(buf = <<"else">> /\ inif) ->
                       Then(Field(PathOf(buf)), goon)
                    [] prebuf = <<"foreach">> /\ buf # <<>> ->
                       LET b == inner(FALSE) IN
                       Then([kind |-> "foreach", field |-> PathOf(buf), toks |-> b.toks],
                            level[0, b.next, inif])
                    [] prebuf \in {<<"if">>, <<"ifnot">>} /\ buf # <<>> ->
                       LET b == inner(TRUE) IN
                       IfThen(<<Branch(PathOf(buf), prebuf = <<"if">>, b.toks)>> \o b.more,
                              level[0, b.next, inif])
                    [] prebuf \in {<<"elseif">>, <<"elseifnot">>} /\ inif /\ buf # <<>> ->
                       branch(PathOf(buf), prebuf = <<"elseif">>)
                    [] OTHER -> Then(Text(<<"ERROR">>), level[start, k + 1, inif])
  IN level[0, 1, FALSE].toks

-----------------------------------------------------------------------------
(* Records                                                                 *)

Counts == {"size", "empty", "exist"}
HasString(r, name) == name \in Counts \cup DOMAIN r.strings
StringOf(r, name) ==
  CASE name = "exist" -> IF r.recs = <<>> THEN "0" ELSE "1"
    [] name = "empty" -> IF r.recs = <<>> THEN "1" ELSE "0"
    [] name = "size"  -> ToString(Len(r.recs))
    [] OTHER -> r.strings[name]
RecNamed(r, name) == SelectSeq(r.recs, LAMBDA s : s.name = name)

\* How far the names lead from record to record: the record and the number of names.
Drilled(r, names) ==
  FoldLeft(LAMBDA at, name : IF at.stopped \/ RecNamed(at.rec, name) = <<>>
                             THEN [at EXCEPT !.stopped = TRUE]
                             ELSE [at EXCEPT !.rec = RecNamed(at.rec, name)[1].rec, !.did = @ + 1],
           [rec |-> r, did |-> 0, stopped |-> FALSE], names)

\* The strings that a field names in one record: the last name's, or that called "string" of
\* the record all names lead to.
Found(r, names) ==
  LET at == Drilled(r, names) IN
  CASE at.did = Len(names) ->
         IF HasString(at.rec, "string") THEN <<StringOf(at.rec, "string")>> ELSE <<>>
    [] at.did = Len(names) - 1 ->
         IF HasString(at.rec, Last(names)) THEN <<StringOf(at.rec, Last(names))>> ELSE <<>>
    [] OTHER -> <<>>

\* field_token::get_string and get_rec on a stack of records, innermost first: at most one.
GetString(stack, names) ==
  LET all == FlattenSeq([j \in DOMAIN stack |-> Found(stack[j], names)]) IN
  SubSeq(all, 1, IF all = <<>> THEN 0 ELSE 1)
GetRec(stack, names) ==
  LET all == SelectSeq([j \in DOMAIN stack |-> Drilled(stack[j], names)],
                       LAMBDA at : at.did = Len(names)) IN
  IF all = <<>> THEN <<>> ELSE <<all[1].rec>>

\* Whether ifstmt_token runs a branch, if it runs none before.
Holds(stack, b) ==
  IF b.field = NoField THEN TRUE
  ELSE (GetString(stack, b.field) \notin {<<>>, <<"">>, <<"0">>}) = b.isif

-----------------------------------------------------------------------------
(* run_token                                                               *)

RECURSIVE Run(_, _)

RunToken(tok, stack) ==
  CASE tok.kind = "text"  -> tok.text
    [] tok.kind = "field" -> GetString(stack, tok.field)
    [] tok.kind = "if" ->
       LET true == SelectSeq(tok.branches, LAMBDA b : Holds(stack, b)) IN
       IF true = <<>> THEN <<>> ELSE Run(true[1].toks, stack)
    [] tok.kind = "foreach" ->
       LET list == GetRec(stack, tok.field) IN
       IF list = <<>> THEN <<>>
       ELSE FlattenSeq([i \in DOMAIN list[1].recs |->
                          Run(tok.toks, <<list[1].recs[i].rec, list[1]>> \o stack)])

\* list_token::run_token
Run(toks, stack) == FlattenSeq([i \in DOMAIN toks |-> RunToken(toks[i], stack)])

\* merge_rec_and_string
Merge(root, input) == Run(Tokenize(input), <<root>>)
=============================================================================
