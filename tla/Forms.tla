-------------------------------- MODULE Forms --------------------------------
(***************************************************************************)
(* The element forms of ui/: the tree of elements a form_session shows,    *)
(* the commands a browser sends to one of them by its tag, and the         *)
(* replace, push and pop an element may ask for (ui/formreactor.cpp,       *)
(* ui/element.cpp, ui/form.cpp, ui/widgets.cpp).  One session: its lock    *)
(* makes an event one step.  Lists and matrices differ in how they look    *)
(* only; every cell of a matrix has its element.                           *)
(***************************************************************************)
EXTENDS Integers, SequencesExt

CONSTANTS
  Elements, NoElement,
  FormElements, TextFields, ErrorLists,  \* those of them of that class; errors of their form
  PopLinks,   \* of each pop_link its target
  FirstForm,  \* what the factory makes
  Pages,      \* elements a handler may make and bring in, each with what is in it
  Contents,   \* the elements each list is made with
  Posted,     \* values of a field
  BadValues   \* those a handle_submit counts as an error

FormsAssumption ==
  /\ NoElement \notin Elements /\ FirstForm \in Elements
  /\ FormElements \cup TextFields \cup ErrorLists \cup DOMAIN PopLinks \cup Pages \subseteq Elements
  /\ Contents \in [Elements -> Seq(Elements)] /\ BadValues \subseteq Posted

VARIABLES
  cur,       \* m_cur_element
  children,  \* m_elements of each list
  pairs,     \* m_pairs, the element shown first
  values,    \* m_val of each text field
  errors,    \* number of m_errors of each form
  over,      \* history: what an element was pushed over
  kept       \* history: the tree under that at the time

formvars == <<cur, children, pairs, values, errors, over, kept>>

FormsInit ==
  /\ cur = NoElement /\ pairs = <<>>
  /\ children = Contents
  /\ values = [f \in TextFields |-> CHOOSE v \in Posted : v \notin BadValues]
  /\ errors = [f \in FormElements |-> 0]
  /\ over = [e \in Elements |-> NoElement] /\ kept = [e \in Elements |-> <<>>]

\* The elements of the tree below and at e.
Under(e) ==
  LET upto[n \in Nat] ==
        IF n = 0 THEN {e}
        ELSE LET above == upto[n - 1] IN above \cup UNION {ToSet(children[x]) : x \in above} IN
  IF e = NoElement THEN {} ELSE upto[Cardinality(Elements)]

\* element_list::reparent and element_matrix::reparent: the list that holds old, the
\* children of a list before their own; NoElement is false.
Holder(top, old) ==
  LET search[e \in Elements] ==
        IF Contains(children[e], old) THEN e
        ELSE LET below == SelectSeq([i \in DOMAIN children[e] |-> search[children[e][i]]],
                                    LAMBDA h : h # NoElement) IN
             IF below = <<>> THEN NoElement ELSE below[1]
  IN search[top]

\* form_session::element_reparent
Reparent(old, new) ==
  IF old = cur THEN cur' = new /\ UNCHANGED children
  ELSE LET h == Holder(cur, old) IN
       /\ UNCHANGED cur
       /\ children' = IF h = NoElement THEN children
                      ELSE [children EXCEPT ![h] =
                              ReplaceAt(@, CHOOSE i \in DOMAIN @ : @[i] = old, new)]

Replace(old, new) == Reparent(old, new) /\ UNCHANGED <<pairs, over, kept>>

\* The pair is kept even if old is not found in the tree.
Push(old, new) ==
  /\ Reparent(old, new)
  /\ pairs' = Append(pairs, <<new, old>>)
  /\ over' = [over EXCEPT ![new] = old]
  /\ kept' = [kept EXCEPT ![new] = [x \in Under(old) |-> children[x]]]

(* Mutant: the pair stays in the list. *)
PopKeepPair(old) ==
  LET mine == SelectSeq(pairs, LAMBDA p : p[1] = old) IN
  /\ IF mine = <<>> THEN UNCHANGED <<cur, children>> ELSE Reparent(old, mine[1][2])
  /\ over' = [over EXCEPT ![old] = NoElement]
  /\ UNCHANGED <<pairs, kept>>

\* The first pair of the element counts.
Pop(old) ==
  LET mine == {i \in DOMAIN pairs : pairs[i][1] = old} IN
  IF mine = {} THEN UNCHANGED <<cur, children, pairs, over, kept>>
  ELSE LET i == CHOOSE j \in mine : \A k \in mine : j <= k IN
       /\ Reparent(old, pairs[i][2])
       /\ pairs' = RemoveAt(pairs, i)
       /\ over' = [over EXCEPT ![old] = NoElement]
       /\ UNCHANGED kept

NoOperation == UNCHANGED <<cur, children, pairs, over, kept>>

\* Pages that can be made: not shown, not kept for a pop and not waiting for one.
Spare ==
  LET alive == Under(cur) \cup UNION {Under(p[1]) \cup Under(p[2]) : p \in ToSet(pairs)} IN
  {e \in Pages : children[e] = Contents[e] /\ Under(e) \cap alive = {}}

\* What an application's handle or on_submit asks for, about elements that are shown.
Operation ==
  \/ NoOperation
  \/ \E old \in Under(cur), new \in Spare : Replace(old, new) \/ Push(old, new)
  \/ \E old \in Under(cur) : Pop(old)

-----------------------------------------------------------------------------
(* Events.  A tag that is not in the tree, from a page of long ago, reaches *)
(* nobody.                                                                 *)

\* form_reactor::handle_app_event without a session: the factory's form, shown.
FirstEvent ==
  /\ cur = NoElement
  /\ cur' = FirstForm
  /\ UNCHANGED <<children, pairs, values, errors, over, kept>>

\* The session ends, its elements with it; a new session's form is made anew.
SessionEnds ==
  /\ cur # NoElement
  /\ cur' = NoElement /\ children' = Contents /\ pairs' = <<>>
  /\ errors' = [f \in FormElements |-> 0]
  /\ values' = [f \in TextFields |-> CHOOSE v \in Posted : v \notin BadValues]
  /\ over' = [e \in Elements |-> NoElement] /\ kept' = [e \in Elements |-> <<>>]

\* form::dispatch of a submission: all fields below take their values, and on_submit runs
\* if none of them had an objection.
Submit(form) ==
  /\ form \in FormElements \cap Under(cur)
  /\ \E post \in [TextFields \cap Under(form) -> Posted] :
       LET bad == {f \in DOMAIN post : post[f] \in BadValues} IN
       /\ values' = [f \in TextFields |-> IF f \in DOMAIN post THEN post[f] ELSE values[f]]
       /\ errors' = [errors EXCEPT ![form] =
                       IF ErrorLists \cap Under(form) = {} THEN @ ELSE Cardinality(bad)]
       /\ IF bad = {} THEN Operation ELSE NoOperation

\* Any other command goes to the element's handle.
Command(e) ==
  /\ e \in Under(cur) \ FormElements
  /\ IF e \in DOMAIN PopLinks THEN Pop(PopLinks[e])
     ELSE e \notin TextFields \cup ErrorLists /\ Operation
  /\ UNCHANGED <<values, errors>>

FormsNext ==
  \/ FirstEvent \/ SessionEnds
  \/ \E e \in Elements : Submit(e) \/ Command(e)

-----------------------------------------------------------------------------
\* What is shown is a tree in which no element is twice, and every element that was pushed
\* and is shown can be popped: the pair Pop will find is the one of its last push, and
\* what comes back is as it was then, whatever was pushed, popped and replaced elsewhere
\* in between, and a pair goes with its pop (element_push: "push the current version onto the
\* stack, for later retrieval with pop").  An element that was replaced instead of popped leaves its pair behind; the
\* handlers here do not push it again, since the old pair would be found first.
PagesReturn ==
  LET shown == Under(cur)
      places(e) == Cardinality({<<x, i>> \in shown \X (1 .. Cardinality(Elements)) :
                                  i \in DOMAIN children[x] /\ children[x][i] = e}) IN
  /\ \A e \in shown : places(e) = IF e = cur THEN 0 ELSE 1
  /\ \A e \in shown : over[e] # NoElement =>
       LET mine == SelectSeq(pairs, LAMBDA p : p[1] = e) IN
       /\ mine # <<>> /\ mine[1][2] = over[e]
       /\ over[e] \notin shown
       /\ kept[e] = [x \in Under(over[e]) |-> children[x]]
  /\ \A i \in DOMAIN pairs : over[pairs[i][1]] = pairs[i][2]
=============================================================================
