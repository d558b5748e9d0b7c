------------------------------- MODULE MCParts -------------------------------
(***************************************************************************)
(* Instance of Parts.  Texts of requests are made of the characters that   *)
(* mean something to the algorithm and one or two that do not, those of    *)
(* pages of whole tags and of halves of them; the machines are as small as *)
(* their hazards allow.                                                    *)
(***************************************************************************)
EXTENDS Parts, TLC

CONSTANTS v1, t1, t2, s1, n1, n2

MCMaxPieces == [value |-> 4, quoted |-> 5, file |-> 5, path |-> 6,
                template |-> 7, wx |-> 4, markup |-> 4]

MCPieces ==
  [value  |-> {32, 37, 38, 43, 61, 46, 65},  \* blank % & + = . A
   quoted |-> {34, 38, 60, 59, 108, 116},    \* " & < ; l t
   file   |-> {13, 10, 45, 66, 120},         \* the boundary's letter among them
   path   |-> {47, 97, 98, 46},
   template |->
     { <<"x">>, <<"{", "a", "}">>, <<"{", "foreach", ":", "u", "}">>, <<"{", "if", ":", "a", "}">>,
       <<"{", "if", ":", "v", "}">>, <<"{", "ifnot", ":", "v", "}">>, <<"{", "elseif", ":", "u.exist", "}">>,
       <<"{", "else", "}">>, <<"{", "end", "}">> },
   wx |->
     { <<"x">>, <<"\n">>, <<"\"">>, <<"<">>, <<"?", ">">>,
       <<"<", "?", "f", "?", ">">>, <<"<", "%", "=", "x", "%", ">">>, <<"<", "?", "h">>,
       <<"<", "?", "\n">>, <<"<", "?", " ", "x", "?", "\n", "?", ">">>,
       <<"<", "?", "i", " ", "d/p", " ", "?", ">">>, <<"<", "?", "i", "z", "?", ">">> },
   markup |->
     { <<"a">>, <<"<">>, <<"*">>, <<"_">>, <<"[">>, <<"]">>, <<"=">>,
       <<"\n", "*", "*">>, <<"\n", "#">>, <<"\n", " ">>, <<"\n", "\n">>,
       <<"\n", "beginquote">>, <<"\n", "endquote">> }]

-----------------------------------------------------------------------------
MCBoundary == <<66>>

A == <<97>>
B == <<98>>
Leaf(paths) == [kind |-> "leaf", takes |-> paths]
IfMatch(match, where, not, list) ==
  [kind |-> "ifmatch", match |-> match, where |-> where, not |-> not, list |-> list]

\* Search directories: with an index, with files and hidden ones, with a file where another
\* has a directory.
Index == <<105, 110, 100, 101, 120, 46, 104, 116, 109, 108>>
Trees ==
  << [dirs |-> {<<>>, <<A>>, <<A, B>>}, files |-> {<<A, Index>>, <<A, B, B>>, <<B>>, <<A, <<46, 98>>>>}],
     [dirs |-> {<<>>, <<B>>}, files |-> {<<A>>, <<<<97, 46, 98>>>>, <<<<98, 46>>>>}] >>
FilesOf(indexdir, indexfile) ==
  [kind |-> "files", trees |-> Trees, indexdir |-> indexdir, indexfile |-> indexfile]

\* For the reactors whose string is decoded.
Router == INSTANCE Routing WITH Apps <- <<>>, SizeWidth <- 8

\* Three applications, one of them mounted at the root, with reactors of each kind.
MCApps ==
  << [mount |-> <<47, 97>>,
      reactors |-> << IfMatch(<<97, 98>>, "end", FALSE, <<Leaf({<<98, 97, 98>>})>>),
                      IfMatch(A, "begin", TRUE, <<Leaf({B}), Leaf({<<98, 97>>})>>),
                      Router!Decoded(<<33, 97>>, <<Leaf({<<98, 98, 47>>})>>),
                      [kind |-> "redirect", urls |-> (<<98, 98>> :> <<97>>)],
                      IfMatch(A, "whole", FALSE, <<FilesOf(FALSE, TRUE)>>),
                      Leaf({<<>>}),
                      [kind |-> "default", defreq |-> B, defreactor |-> Leaf({A})] >>],
     [mount |-> <<47, 98>>, reactors |-> << FilesOf(TRUE, FALSE) >>],
     [mount |-> <<>>,
      reactors |-> << IfMatch(B, "end", FALSE, <<Leaf({<<97, 97, 47, 98>>, <<97, 98, 47, 98>>})>>),
                      Router!Decoded(<<98, 97>>, <<Leaf({<<98, 97, 47>>, <<98, 97, 97, 47>>})>>),
                      [kind |-> "rec", templates |-> {<<98, 98, 47, 97>>, <<97, 47, 46, 46>>}],
                      FilesOf(TRUE, TRUE) >>] >>

-----------------------------------------------------------------------------
\* A record with a string a, and a list u of two records that have their own.
MCWords == {"a", "u", "v", "u.exist", "foreach", "if", "elseif", "elseifnot", "ifnot", "else", "end"}
MCPath == [a |-> <<"a">>, u |-> <<"u">>, v |-> <<"v">>] @@ ("u.exist" :> <<"u", "exist">>)
MCRoot ==
  [strings |-> [a |-> "1"],
   recs |-> << [name |-> "u", rec |->
     [strings |-> [b |-> "1"],
      recs |-> << [name |-> "v", rec |-> [strings |-> [a |-> "0", string |-> "s"], recs |-> <<>>]],
                  [name |-> "w", rec |-> [strings |-> [a |-> "A"], recs |-> <<>>]] >>] ] >>]

\* A controller's file that includes another, which includes a third.
MCWxPath == <<"m">>
MCWxParts == <<"c", "m">>
MCWxFiles ==
  (<<"d", "p">> :> <<"y", "\n", "<", "?", "i", "q", "?", ">", "\n", "<", "?", "\n", "c", "?", ">">>)
    @@ (<<"d", "q">> :> <<"<", "?", "f", "?", ">", "<", "?", "=", "v", "?", ">">>)
MCPathNames == ("d/p" :> <<"d", "p">>) @@ [q |-> <<"q">>, z |-> <<"z">>]

-----------------------------------------------------------------------------
\* Rows whose columns are shorter than, as long as and longer than the buffer; one that has
\* one column twice; none.
V(n) == [i \in 1 .. n |-> i]
MCResults ==
  [q1 |-> [columns |-> <<"A", "b">>, sizes |-> <<3, 6>>, rows |-> << <<V(2), V(5)>>, <<Null, V(4)>> >>],
   q2 |-> [columns |-> <<"b", "A", "A">>, sizes |-> <<4, 4, 4>>, rows |-> << <<V(2), V(1), Null>> >>],
   q3 |-> [columns |-> <<"b">>, sizes |-> <<4>>, rows |-> <<>>]]
MCLowercase == [A |-> "a", b |-> "b", C |-> "c"]
MCVariables == {v1}

\* A form with a field and its errors, two pages that can be brought in.
MCElements == {"root", "form", "text", "errs", "p2", "pop", "p3"}
MCContents ==
  [e \in MCElements |-> CASE e = "root" -> <<"form">> [] e = "form" -> <<"text", "errs">>
                          [] e = "p2" -> <<"pop">> [] OTHER -> <<>>]
MCPopLinks == [pop |-> "p2"]

\* Forms of turbo's widgets and of rec's.
Options == << <<60>>, <<34, 65>> >>
MCLayouts ==
  { << [kind |-> "text", field |-> "n", default |-> <<>>],
       [kind |-> "checkbox", field |-> "c", default |-> FALSE],
       [kind |-> "radio", field |-> "r", value |-> <<34, 65>>, default |-> FALSE],
       [kind |-> "radio", field |-> "r", value |-> <<60>>, default |-> TRUE] >>,
    << [kind |-> "drop_down", field |-> "d", options |-> Options \o << <<>> >>,
        default |-> <<34, 65>>],
       [kind |-> "text_area", field |-> "n", default |-> <<66>>] >>,
    << [kind |-> "hidden_hrec", field |-> "h"],
       [kind |-> "list_hrec", field |-> "d", options |-> Options],
       [kind |-> "textfield_hrec", field |-> "n"] >>,
    << [kind |-> "textarea_hrec", field |-> "n"],
       [kind |-> "radio_hrec", field |-> "r", value |-> <<34, 65>>],
       [kind |-> "radio_hrec", field |-> "r", value |-> <<60>>] >>,
    << [kind |-> "hidden", field |-> "h", default |-> <<>>],
       [kind |-> "password", field |-> "p"],
       [kind |-> "checkbox_hrec", field |-> "c", value |-> <<34, 65>>] >> }
MCChecks == << [kind |-> "notempty", field |-> "n"], [kind |-> "maxlength", field |-> "n", n |-> 1],
               [kind |-> "notnull", field |-> "r"] >>
MCTyped == {<<>>, <<34, 65>>, <<60>>}

\* A controller and its page.
MCSkeletons == {<< <<"app", "cpp">>, <<"app.index", "wx">> >>}

\* Two recipients and a copy.
MCRecipients == {<<2, 1>>}

\* Lines of dots, an empty line, one of a carriage return.
MCLetters == {"a", ".", "\r"}
MCBodies == { << <<"a", "\r">> >>, << <<".", ".", "\r">>, <<>>, <<"\r">>, <<".">> >> }

\* Two requests of one session, one after the other, or of none at the same time, that share
\* one connection: what a handler leaves on it the next one finds.  Two notes, so that one
\* can be shown while the other is queued.
MCThreads == {t1, t2}
MCMaxCalls == [t \in MCThreads |-> IF t = t1 THEN 3 ELSE 1]
=============================================================================
