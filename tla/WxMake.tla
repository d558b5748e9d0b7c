-------------------------------- MODULE WxMake --------------------------------
(***************************************************************************)
(* wxmake's compiler of .wx files (turbo/wxmake.cpp, process_wx): the      *)
(* statements of the C++ file it writes.  A text is a sequence of          *)
(* characters, the name of an included file counting as one; a path is the *)
(* sequence of its directories and the file's name.                        *)
(***************************************************************************)
EXTENDS Integers, SequencesExt

CONSTANTS
  WxFiles,   \* the texts of the files that can be included, by path
  PathNames  \* the parts of each name an include may give

Marks == {"?", "%"}
Blanks == {" ", "\t", "\n", "\r"}

\* mostly_empty
MostlyEmpty(buf) == Len(buf) <= 10 /\ ToSet(buf) \subseteq Blanks

\* The string literal flush_print writes; a backslash goes in as it is.
Literal(buf) ==
  LET escaped == [c \in {"\n", "\t", "\r", "\""} |->
                    <<"\\", CASE c = "\n" -> "n" [] c = "\t" -> "t" [] c = "\r" -> "r"
                              [] OTHER -> c>>] IN
  FlattenSeq([i \in DOMAIN buf |->
                IF buf[i] \in DOMAIN escaped THEN escaped[buf[i]] ELSE <<buf[i]>>])

\* clean_include_name
RECURSIVE CleanIncludeName(_)
CleanIncludeName(buf) ==
  IF buf # <<>> /\ Head(buf) = " " THEN CleanIncludeName(Tail(buf))
  ELSE IF buf # <<>> /\ Last(buf) = " " THEN CleanIncludeName(Front(buf)) ELSE buf

\* The included file's path: the name is put behind the directory of the file it is in.
Included(path, buf) ==
  LET name == CleanIncludeName(buf) IN
  Front(path) \o IF Len(name) = 1 /\ name[1] \in DOMAIN PathNames THEN PathNames[name[1]]
                 ELSE <<"?">>

PrintText(buf) == [kind |-> "print", text |-> Literal(buf)]
Code(buf, path, line) == [kind |-> "code", text |-> buf, at |-> <<path, line>>]
CodePrint(buf, html, path, line) ==
  [kind |-> "code_print", text |-> buf, html |-> html, at |-> <<path, line>>]
\* The head of turbo_handler, or of the method a name in parts stands for.
FuncStart(chunks) == [kind |-> "func", name |-> chunks]

\* Where the compiler is: what is written, and the locals of process_wx_imp.
Started(out, havefunc, inpreamble) ==
  [out |-> out, havefunc |-> havefunc, inpreamble |-> inpreamble, code |-> 0,
   state |-> "html", buf |-> <<>>, preend |-> FALSE, mark |-> "?", html |-> FALSE,
   line |-> 1, start |-> 1]

\* A statement, after flush_func_start where that is due.
Emit(c, chunks, statement) ==
  LET start == ~c.inpreamble /\ ~c.havefunc IN
  [c EXCEPT !.havefunc = @ \/ start,
            !.out = (IF start THEN Append(@, FuncStart(chunks)) ELSE @) \o <<statement>>]

FlushText(c, chunks) ==
  [(IF MostlyEmpty(c.buf) THEN c ELSE Emit(c, chunks, PrintText(c.buf))) EXCEPT !.buf = <<>>]

RECURSIVE ProcessWxImp(_, _, _)

\* What the end of a tag does.
CloseTag(c, path, chunks) ==
  LET back(sub) == [c EXCEPT !.out = sub.out, !.havefunc = sub.havefunc,
                             !.inpreamble = sub.inpreamble, !.code = sub.code]
      d == CASE c.state = "enter_handler" -> [c EXCEPT !.inpreamble = FALSE]
             [] c.state = "code_print" ->
                  Emit(c, chunks, CodePrint(c.buf, c.html, path, c.start))
             [] c.state = "code" -> Emit(c, chunks, Code(c.buf, path, c.start))
             [] c.state = "include" ->
                  back(ProcessWxImp(Included(path, c.buf), c, chunks))
  IN [d EXCEPT !.buf = <<>>, !.state = "html", !.preend = FALSE]

(* Mutant: a tag's line is that of the file's first. *)
OpenTagNoLine(c, b, chunks) ==
  [FlushText(c, chunks) EXCEPT
     !.state = CASE b = "f" -> "enter_handler" [] b \in {"=", "h"} -> "code_print"
                 [] b = "i" -> "include" [] OTHER -> "code",
     !.html = IF b \in {"=", "h"} THEN b = "h" ELSE @, !.preend = FALSE]

\* What the character behind a tag's beginning does.
OpenTag(c, b, chunks) ==
  [FlushText(c, chunks) EXCEPT
     !.state = CASE b = "f" -> "enter_handler" [] b \in {"=", "h"} -> "code_print"
                 [] b = "i" -> "include" [] OTHER -> "code",
     !.html = IF b \in {"=", "h"} THEN b = "h" ELSE @, !.preend = FALSE, !.start = c.line]

\* One character, by the state; the line is counted first.
ProcessState(c, b, path, chunks) ==
  CASE c.code # 0 -> c
    [] c.code = 0 /\ c.state = "html" ->
         IF b = "<" THEN [c EXCEPT !.state = "got_open"] ELSE [c EXCEPT !.buf = Append(@, b)]
    [] c.code = 0 /\ c.state = "got_open" ->
         IF b \in Marks THEN [c EXCEPT !.state = "got_open_q", !.mark = b]
         ELSE [c EXCEPT !.state = "html", !.buf = @ \o <<"<", b>>]
    [] c.code = 0 /\ c.state = "got_open_q" -> OpenTag(c, b, chunks)
    [] OTHER ->
         CASE c.preend /\ b = ">" -> CloseTag(c, path, chunks)
           [] c.preend /\ b # ">" -> [c EXCEPT !.buf = @ \o <<c.mark, b>>, !.preend = FALSE]
           [] ~c.preend /\ b \in Marks -> [c EXCEPT !.preend = TRUE, !.mark = b]
           [] OTHER -> [c EXCEPT !.buf = Append(@, b)]

ProcessByte(c, b, path, chunks) ==
  ProcessState(IF b = "\n" THEN [c EXCEPT !.line = @ + 1] ELSE c, b, path, chunks)

\* A text compiled on from where the compiler is.  What is left at the end is text.
ProcessText(text, path, at, chunks) ==
  LET finished(end) == IF end.code # 0 THEN end ELSE FlushText(end, chunks) IN
  finished(FoldLeft(LAMBDA c, b : ProcessByte(c, b, path, chunks),
                    Started(at.out, at.havefunc, at.inpreamble), text))

ProcessWxImp(path, at, chunks) ==
  IF path \notin DOMAIN WxFiles THEN [at EXCEPT !.code = 1]
  ELSE ProcessText(WxFiles[path], path, at, chunks)

\* process_wx of a file of that path and text, its name in parts.  A single part is a
\* function that is registered by the file's name, several a method of a controller.
ProcessWx(path, text, parts) ==
  LET chunks == IF Len(parts) = 1 THEN <<>> ELSE parts
      file(end) == [header |-> IF chunks = <<>> THEN <<>> ELSE Front(chunks),
                    out |-> end.out, closed |-> end.havefunc,
                    registered |-> end.havefunc /\ chunks = <<>>, code |-> end.code] IN
  file(ProcessText(text, path, Started(<<>>, FALSE, TRUE), chunks))
=============================================================================
