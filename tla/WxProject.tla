------------------------------- MODULE WxProject -------------------------------
(***************************************************************************)
(* A directory that wxmake looks after (turbo/wxmake.cpp): the skeletons   *)
(* it writes, the Makefile it makes from what the directory holds, and     *)
(* what make does by that Makefile while the developer goes on writing.    *)
(* make, the compiler and the editor are external.  A source's text is the *)
(* moment it was written; the clock is finer than any two steps, and a     *)
(* command reads and writes in one of them.                                *)
(***************************************************************************)
EXTENDS Integers, Sequences

CONSTANTS
  Pages,      \* the names written as .wx files,
  OwnCode,    \* and those written as .cpp files
  Skeletons,  \* the sources mkapp or mkcontroller with mkmethod writes, in order
  NoText,
  LastMoment  \* bound of the clock

VARIABLES
  files,     \* the directory: sources, generated .cpp files and objects
  program,   \* the final target
  makefile,
  making,    \* what make, if it runs, has still to look at
  now,
  written    \* what the developer or a skeleton has last put in a source

projectvars == <<files, program, makefile, making, now, written>>

Source(x) == <<x, IF x \in Pages THEN "wx" ELSE "cpp">>
Sources == {Source(x) : x \in Pages \cup OwnCode}

ProjectAssumption ==
  Pages \cap OwnCode = {} /\ \A list \in Skeletons : list \in Seq(Sources)

Names == (Pages \cup OwnCode) \X {"wx", "cpp", "o"}
NoFile == [missing |-> TRUE]
Exists(f) == files[f] # NoFile
File(text) == [text |-> text, time |-> now + 1]

NoMakefile == [rules |-> <<>>, links |-> FALSE]
NotMaking == [rules |-> <<>>, links |-> FALSE, left |-> {}, runs |-> FALSE]

ProjectInit ==
  /\ files = [f \in Names |-> NoFile] /\ program = NoFile
  /\ makefile = NoMakefile /\ making = NotMaking
  /\ now = 0
  /\ written = [f \in Names |-> NoText]

-----------------------------------------------------------------------------
\* The developer writes a source.
Edit(f) ==
  /\ f \in Sources /\ now < LastMoment
  /\ files' = [files EXCEPT ![f] = File(now + 1)]
  /\ written' = [written EXCEPT ![f] = now + 1]
  /\ now' = now + 1
  /\ UNCHANGED <<program, makefile, making>>

\* The files of a skeleton that are to be written: those that do not exist.
Missing(list) == {list[i] : i \in {j \in DOMAIN list : ~Exists(list[j])}}

\* mkapp, mkcontroller: the files in order, up to one that cannot be opened.
Scaffold(list) ==
  /\ now < LastMoment
  /\ \E n \in 0 .. Len(list) :
       LET new == Missing(SubSeq(list, 1, n)) IN
       /\ files' = [f \in Names |-> IF f \in new THEN File(now + 1) ELSE files[f]]
       /\ written' = [f \in Names |->
                        IF f \in new /\ ~Exists(f) THEN now + 1 ELSE written[f]]
  /\ now' = now + 1
  /\ UNCHANGED <<program, makefile, making>>

-----------------------------------------------------------------------------
(* Mutant: a page that has been translated is taken for its .cpp file only. *)
RulesUnlessTranslated(x) ==
  [t \in {u \in {<<x, "cpp">>, <<x, "o">>} :
            IF u[2] = "cpp" THEN Exists(<<x, "wx">>) /\ ~Exists(<<x, "cpp">>)
            ELSE Exists(<<x, "wx">>) \/ Exists(<<x, "cpp">>)} |->
     IF t[2] = "cpp" THEN <<x, "wx">> ELSE <<x, "cpp">>]
\* build_make: what each target is made from.  A .cpp file found counts as the developer's,
\* generated or not, and gives the same object.
Rules(x) ==
  [t \in {u \in {<<x, "cpp">>, <<x, "o">>} :
            IF u[2] = "cpp" THEN Exists(<<x, "wx">>)
            ELSE Exists(<<x, "wx">>) \/ Exists(<<x, "cpp">>)} |->
     IF t[2] = "cpp" THEN <<x, "wx">> ELSE <<x, "cpp">>]

RulesOfAll(kinds) ==
  LET targets == UNION {DOMAIN Rules(x) : x \in Pages \cup OwnCode} IN
  [t \in {u \in targets : u[2] \in kinds} |-> Rules(t[1])[t]]

\* mkmakefile= (build_make), and dir= (build_old_make), whose Makefile translates the pages
\* and leaves the rest to another.  Without a source, or if the file cannot be opened, the
\* old Makefile stays.
MakeMakefile(links) ==
  LET rules == RulesOfAll(IF links THEN {"cpp", "o"} ELSE {"cpp"}) IN
  /\ rules # <<>> /\ makefile' = [rules |-> rules, links |-> links]
  /\ UNCHANGED <<files, program, making, now, written>>

-----------------------------------------------------------------------------
\* make, by the Makefile it finds when it starts.
StartMake ==
  /\ ~making.runs /\ makefile # NoMakefile
  /\ making' = [rules |-> makefile.rules, links |-> makefile.links,
                left |-> DOMAIN makefile.rules, runs |-> TRUE]
  /\ UNCHANGED <<files, program, makefile, now, written>>

Older(f, g) == ~Exists(f) \/ files[f].time < files[g].time
Done(t) == making' = [making EXCEPT !.left = @ \ {t}]
Stop == making' = NotMaking

\* wxmake wxfile= cppfile= (process_wx): if an included file is missing it returns an error
\* and leaves what it has written.
Translate(t, ok) ==
  /\ files' = [files EXCEPT ![t] = File([page |-> files[making.rules[t]].text, whole |-> ok])]
  /\ now' = now + 1
  /\ IF ok THEN Done(t) ELSE Stop

\* The compiler writes no object if it fails.
Compile(t, ok) ==
  IF ok THEN /\ files' = [files EXCEPT ![t] = File(files[making.rules[t]].text)]
             /\ now' = now + 1 /\ Done(t)
        ELSE UNCHANGED <<files, now>> /\ Stop

\* make comes to a target whose source it has dealt with.
MakeTarget(t) ==
  /\ t \in making.left /\ making.rules[t] \notin making.left
  /\ IF ~Older(t, making.rules[t]) THEN Done(t) /\ UNCHANGED <<files, now>>
     ELSE /\ now < LastMoment
          /\ \E ok \in BOOLEAN : IF t[2] = "cpp" THEN Translate(t, ok) ELSE Compile(t, ok)
  /\ UNCHANGED <<program, makefile, written>>

\* The final target depends on every other.
LinkNeeded ==
  program = NoFile \/ \E t \in DOMAIN making.rules : files[t].time > program.time

FinishMake ==
  /\ making.runs /\ making.left = {} /\ Stop
  /\ IF making.links /\ LinkNeeded
     THEN /\ now < LastMoment /\ now' = now + 1
          /\ program' = [time |-> now + 1,
                         objects |-> [t \in {u \in DOMAIN making.rules : u[2] = "o"} |->
                                        files[t].text]]
     ELSE UNCHANGED <<program, now>>
  /\ UNCHANGED <<files, makefile, written>>

ProjectNext ==
  \/ \E f \in Sources : Edit(f)
  \/ \E list \in Skeletons : Scaffold(list)
  \/ \E links \in BOOLEAN : MakeMakefile(links)
  \/ StartMake \/ FinishMake
  \/ \E t \in Names : MakeTarget(t)

ProjectSpec == ProjectInit /\ [][ProjectNext]_projectvars

-----------------------------------------------------------------------------
\* Nothing is left to do for make.
UpToDate ==
  /\ makefile.links /\ program # NoFile
  /\ \A t \in DOMAIN makefile.rules :
       ~Older(t, makefile.rules[t]) /\ files[t].time <= program.time

\* When make has nothing to do, by a Makefile of mkmakefile, the program has an object of
\* every source in that Makefile, made from what the source now says, whatever was written,
\* added, half built or failed on the way; and a source says what was last written in it,
\* whichever skeletons were asked for.  Of a page whose includes failed it may hold the
\* first part only, and a change of an included file is not noticed: no rule names it.
ProgramFollowsSources ==
  /\ UpToDate /\ ~making.runs =>
       \A t \in DOMAIN makefile.rules :
         LET source == files[Source(t[1])].text
             object == <<t[1], "o">> IN
         /\ object \in DOMAIN program.objects
         /\ IF t[1] \in Pages THEN program.objects[object].page = source
            ELSE program.objects[object] = source
  /\ \A f \in Sources : Exists(f) => files[f].text = written[f]
=============================================================================
