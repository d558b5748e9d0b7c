-------------------------------- MODULE Files --------------------------------
(***************************************************************************)
(* What file_reactor answers (core/filereactor.cpp) from the search        *)
(* directories of a file_manager (core/filemanager.cpp).  Text is a        *)
(* sequence of character codes.                                            *)
(*                                                                         *)
(* A reactor is a record: trees, the search directories in order, and the  *)
(* switches indexdir and indexfile.  A tree is the set of its directories  *)
(* and that of its files, by the sequences of their names.  The file       *)
(* system and check_path are external.                                     *)
(***************************************************************************)
EXTENDS HttpText

Separator == 47
Point == 46
IndexHtml == <<105, 110, 100, 101, 120, 46, 104, 116, 109, 108>>
Bin == <<98, 105, 110>>

\* A tree has the directories its paths go through, and one thing of each path.
IsTree(tree) ==
  LET paths == tree.dirs \cup tree.files IN
  /\ \A path \in paths : path \in Seq(Seq(Codes \ {Separator}) \ {<<>>})
  /\ \A path \in paths : path # <<>> => Front(path) \in tree.dirs
  /\ tree.dirs \cap tree.files = {} /\ <<>> \notin tree.files

\* What a tree has under a name.  A slash at the end is for directories only.
Look(tree, name) ==
  LET what(path) ==
        IF path \in tree.dirs THEN "dir"
        ELSE IF path \in tree.files /\ (name = <<>> \/ Last(name) # Separator) THEN "file"
        ELSE "none"
  IN what(Pieces(name, {Separator}))

\* check_path refuses a path with dots for a name.
CheckPath(name) == \A c \in ToSet(Pieces(name, {Separator})) : ToSet(c) # {Point}

\* find_file: the code, and the search directory and the name in it that make fullpath.
FoundIn(r, name, at) ==
  LET index == name \o <<Separator>> \o IndexHtml
      found(code, path) == [code |-> code, tree |-> at, path |-> path] IN
  IF at = 0 THEN found("notfound", <<>>)
  ELSE IF Look(r.trees[at], name) = "file" THEN found("file", name)
  ELSE IF name # <<>> /\ Last(name) # Separator THEN found("needslash", name)
  ELSE IF r.indexfile /\ Look(r.trees[at], index) = "file" THEN found("index", index)
  ELSE IF r.indexdir THEN found("listing", name \o <<Separator>>)
  ELSE found("notfound", <<>>)

FindFile(r, name) ==
  FoundIn(r, name, SelectInSeq(r.trees, LAMBDA tree : Look(tree, name) # "none"))

\* send_index: the addresses of the entries that are not hidden, as links relative to the
\* directory, without the escapes of url_encode.
Listing(tree, name) ==
  LET path == Pieces(name, {Separator})
      entries(set) == {Last(p) : p \in {q \in set : q # <<>> /\ Front(q) = path}}
      shown(set) == {e \in entries(set) : Head(e) # Point} IN
  {UrlEncode(e, FALSE) : e \in shown(tree.files)}
    \cup {UrlEncode(e, FALSE) \o <<Separator>> : e \in shown(tree.dirs)}

\* The extension that names a file's type: that behind the last point of the last name.  The
\* path begins with the search directory, so that it is longer than one character.
Extension(path) ==
  LET marks == {i \in DOMAIN path : path[i] \in {Separator, Point}} IN
  IF marks = {} \/ Max(marks) = Len(path) \/ path[Max(marks)] = Separator THEN Bin
  ELSE SubSeq(path, Max(marks) + 1, Len(path))

NotAnswered == [kind |-> "none"]

\* file_reactor::handle_app_event of the application's request; req is the engine's.
FileAnswer(r, name, req) ==
  LET answer(f) ==
        CASE f.code = "notfound" -> NotAnswered
          [] f.code = "needslash" -> [kind |-> "redirect", url |-> req \o <<Separator>>]
          [] f.code = "listing" -> [kind |-> "listing", links |-> Listing(r.trees[f.tree], name)]
          [] f.code \in {"file", "index"} ->
               [kind |-> "file", tree |-> f.tree, path |-> f.path, ext |-> Extension(f.path)]
  IN IF CheckPath(name) THEN answer(FindFile(r, name)) ELSE NotAnswered
=============================================================================
