------------------------------ MODULE Routing ------------------------------
(***************************************************************************)
(* The way of a request to the reactor that handles it: the engine picks   *)
(* the application (handle_front_event, core/engine.cpp), the application  *)
(* goes through its reactors (core/app.cpp), of which an ifmatch_reactor   *)
(* asks its own list if the rest of the request matches                    *)
(* (core/listreactor.cpp).  A request is a sequence of character codes.    *)
(*                                                                         *)
(* A reactor is a record.  An ifmatch has a string, a place, a negation    *)
(* and a list of other reactors: of files (Files), of redirections, of     *)
(* templates, of last resort, or of handlers, which take the requests in   *)
(* their set "takes".                                                      *)
(***************************************************************************)
EXTENDS Files

CONSTANTS Apps,        \* the applications: mount point as given to add_app, reactors
          SizeWidth    \* bits of a string's size

Slash == 47

\* std::string::npos, and sums that wrap around.
NPos == 2^SizeWidth - 1
Wrap(n) == n % 2^SizeWidth

\* The reactors an application may be given.  No string is as long as npos, and no redirection
\* is to an address with two slashes at its end.
IsList(s) == s \in Seq(ToSet(s))
IsAnswerer(r) ==
  /\ r.kind \in {"leaf", "files", "redirect", "rec", "default"}
  /\ r.kind = "files" =>
       /\ IsList(r.trees) /\ \A tree \in ToSet(r.trees) : IsTree(tree)
       /\ r.indexdir \in BOOLEAN /\ r.indexfile \in BOOLEAN
  /\ r.kind = "redirect" =>
       \A rest \in DOMAIN r.urls : ~IsSuffix(<<Slash, Slash>>, r.urls[rest])
IsIfMatch(r) ==
  /\ r.kind = "ifmatch" /\ r.where \in {"whole", "subset", "begin", "end"} /\ r.not \in BOOLEAN
  /\ r.match \in Seq(Nat) /\ Len(r.match) < NPos
  /\ IsList(r.list) /\ \A inner \in ToSet(r.list) : IsAnswerer(inner)

ASSUME RoutingAssumption ==
  /\ 2^SizeWidth \in Nat /\ NPos > 0
  /\ IsList(Apps)
  /\ \A a \in ToSet(Apps) :
       /\ a.mount \in Seq(Nat) /\ IsList(a.reactors)
       /\ \A r \in ToSet(a.reactors) : IsIfMatch(r) \/ IsAnswerer(r)

\* The positions of m in s, from 0.
Occurrences(s, m) == {i \in 0 .. Len(s) - Len(m) : SubSeq(s, i + 1, i + Len(m)) = m}

Find(s, m) == IF Occurrences(s, m) = {} THEN NPos
              ELSE CHOOSE i \in Occurrences(s, m) : \A j \in Occurrences(s, m) : i <= j
RFind(s, m) == IF Occurrences(s, m) = {} THEN NPos
               ELSE CHOOSE i \in Occurrences(s, m) : \A j \in Occurrences(s, m) : i >= j

-----------------------------------------------------------------------------
\* The ifmatch_reactor of one string, whose second character, an operator or not, says
\* where; it stays in the string, and so does all but a "!".
Decoded(encoded, list) ==
  LET not == encoded # <<>> /\ Head(encoded) = 33
      op  == IF Len(encoded) > 1 THEN encoded[2] ELSE 0 IN
  IF encoded = <<>> \/ (not /\ Len(encoded) = 1)
  THEN [kind |-> "ifmatch", match |-> <<>>, where |-> "whole", not |-> not, list |-> list]
  ELSE [kind |-> "ifmatch", not |-> not, list |-> list,
        match |-> IF not THEN Tail(encoded) ELSE encoded,
        where |-> CASE op = 60 -> "begin" [] op = 62 -> "end" [] op = 61 -> "whole"
                    [] OTHER -> "subset"]

(* Mutant: the first occurrence must be at the end. *)
MatchesFirst(r, req) ==
  CASE r.where = "whole"  -> req = r.match
    [] r.where = "subset" -> Find(req, r.match) # NPos
    [] r.where = "begin"  -> Find(req, r.match) = 0
    [] r.where = "end"    -> Wrap(Find(req, r.match) + Len(r.match)) = Len(req)

\* ifmatch_reactor::handle_app_event, as far as its decision.
Matches(r, req) ==
  CASE r.where = "whole"  -> req = r.match
    [] r.where = "subset" -> Find(req, r.match) # NPos
    [] r.where = "begin"  -> Find(req, r.match) = 0
    [] r.where = "end"    -> Wrap(RFind(req, r.match) + Len(r.match)) = Len(req)

\* A request the list of an ifmatch is asked about.  An empty string only goes with an
\* empty request, negated or not.
Asks(r, req) == IF r.match = <<>> THEN req = <<>> ELSE Matches(r, req) = ~r.not

\* redirect_reactor, rec_reactor::handle_app_event; a default_reactor has answered even if
\* the reactor it asks has not, for which the reply stays empty.
RedirectAnswer(r, rest) ==
  IF rest \in DOMAIN r.urls THEN [kind |-> "redirect", url |-> r.urls[rest]] ELSE NotAnswered
RecAnswer(r, rest) ==
  IF CheckPath(rest) /\ rest \in r.templates THEN [kind |-> "template", name |-> rest]
  ELSE NotAnswered
LeafAnswer(r, rest) == IF rest \in r.takes THEN [kind |-> "handler"] ELSE NotAnswered
DefaultAnswer(r) ==
  IF LeafAnswer(r.defreactor, r.defreq) = NotAnswered THEN [kind |-> "empty"]
  ELSE LeafAnswer(r.defreactor, r.defreq)

\* What a reactor answers; req is the request as the engine got it.
ReactorAnswer(r, rest, req) ==
  CASE r.kind = "leaf"     -> LeafAnswer(r, rest)
    [] r.kind = "files"    -> FileAnswer(r, rest, req)
    [] r.kind = "redirect" -> RedirectAnswer(r, rest)
    [] r.kind = "rec"      -> RecAnswer(r, rest)
    [] r.kind = "default"  -> DefaultAnswer(r)

\* The index of the first reactor of a list that answers, 0 if none does.
FirstOf(list, rest, req) == SelectInSeq(list, LAMBDA r : ReactorAnswer(r, rest, req) # NotAnswered)

\* The reactor of an application, as its indexes in the two lists; <<0, 0>> if none.
Reactor(reactors, rest, req) ==
  LET asked(r) == IF r.kind # "ifmatch" THEN <<r>> ELSE IF Asks(r, rest) THEN r.list ELSE <<>>
      inner(r) == FirstOf(asked(r), rest, req)
      both(at) == IF at = 0 THEN <<0, 0>> ELSE <<at, inner(reactors[at])>>
  IN both(SelectInSeq(reactors, LAMBDA r : inner(r) # 0))

\* What the application answers.
Answered(reactors, rest, req) ==
  LET by(at) == IF reactors[at[1]].kind = "ifmatch" THEN reactors[at[1]].list[at[2]]
                ELSE reactors[at[1]]
      answer(at) == IF at[1] = 0 THEN NotAnswered ELSE ReactorAnswer(by(at), rest, req)
  IN answer(Reactor(reactors, rest, req))

-----------------------------------------------------------------------------
\* add_app puts a slash behind the mount point.
Mount(a) == a.mount \o <<Slash>>

\* handle_front_event: what becomes of a request, and with which rest.  The request for
\* /quit/, which a debug build answers itself, is in Engine.
NoApp == [to |-> "none", app |-> 0, rest |-> <<>>]

Dispatch(req) ==
  LET app == SelectInSeq(Apps, LAMBDA a : IsPrefix(Mount(a), req)) IN
  IF req = <<>> THEN [NoApp EXCEPT !.to = "empty"]
  ELSE IF Len(req) > 1 /\ Slash \notin ToSet(Tail(req)) THEN [NoApp EXCEPT !.to = "redirect"]
  ELSE IF app = 0 THEN NoApp
  ELSE [to |-> "app", app |-> app,
        rest |-> SubSeq(req, Len(Mount(Apps[app])) + 1, Len(req))]
=============================================================================
