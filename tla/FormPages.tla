------------------------------ MODULE FormPages ------------------------------
(***************************************************************************)
(* A row edited through a form, the way turbo's handlers are written: the  *)
(* page prefilled from the row (db_to_form), what the user makes of it,    *)
(* the checks of what is posted (check_form), the form again with what was *)
(* posted if one fails, the row stored if none does.  The fields a handler *)
(* sees are the event's form cache before the request's.                   *)
(***************************************************************************)
EXTENDS Widgets

CONSTANTS
  Form,       \* its name, may be ""
  Layouts,    \* forms: sequences of widgets, in the order of the page
  Checks,     \* check_form's calls
  Typed,      \* what users type, and rows hold in the beginning
  MinRank,    \* t_assert_rank's
  Ranks       \* of the session, 0 for none

\* What a widget of each kind is made with.
IsWidget(w) ==
  /\ w.kind \in {"hidden", "text", "password", "text_area", "checkbox", "radio", "drop_down"}
               \cup {"hidden_hrec", "textfield_hrec", "textarea_hrec", "checkbox_hrec",
                     "radio_hrec", "list_hrec"}
  /\ w.kind \in {"hidden", "text", "text_area", "drop_down"} => w.default \in Seq(Nat)
  /\ w.kind \in {"checkbox", "radio"} => w.default \in BOOLEAN
  /\ w.kind \in {"checkbox_hrec", "radio", "radio_hrec"} => w.value \in Seq(Nat)
  /\ w.kind \in {"drop_down", "list_hrec"} => w.options \in Seq(Seq(Nat)) /\ w.options # <<>>

ASSUME FormPagesAssumption ==
  /\ \A layout \in Layouts :
       /\ Len(layout) \in Nat /\ DOMAIN layout = 1 .. Len(layout)
       /\ \A i \in DOMAIN layout : IsWidget(layout[i])
  /\ Typed \subseteq Seq(Nat) /\ MinRank \in Nat /\ Ranks \subseteq Nat

VARIABLES
  fields,   \* the form's widgets
  row,      \* the stored row, a text for each field
  rank,     \* of the user's session
  front,    \* fields of the last request
  page,     \* the controls the user sees
  rendered, \* history: the page as it came
  stored    \* history: the rank of the session whose request, the last, stored the row

formpagevars == <<fields, row, rank, front, page, rendered, stored>>

NoFields == [n \in {} |-> <<>>]
FieldNames == {fields[i].field : i \in DOMAIN fields}
Checked == {i \in DOMAIN Checks : Checks[i].field \in FieldNames}

-----------------------------------------------------------------------------
(* turbo_event's form fields.                                              *)

\* db_to_form: set_form_field_default of each column.
DbToForm(cache, request) ==
  LET set == {MyField(Form, f) : f \in FieldNames} \ DOMAIN request IN
  [n \in DOMAIN cache \cup set |->
     IF n \in set THEN row[CHOOSE f \in FieldNames : MyField(Form, f) = n] ELSE cache[n]]

HasFormField(cache, request, name) == name \in DOMAIN cache \cup DOMAIN request
GetFormField(cache, request, name) ==
  IF name \in DOMAIN cache THEN cache[name]
  ELSE IF name \in DOMAIN request THEN request[name] ELSE <<>>

\* A template's list gets its options one by one.
Offered(options) == FoldLeft(LAMBDA all, o : AddOption(all, o, FALSE), <<>>, options)

\* The widget a handler makes of a field; rec's get what the field is to show.
Widget(w, def) ==
  LET name == MyField(Form, w.field) IN
  CASE w.kind = "hidden"    -> HiddenValue(name, def, w.default)
    [] w.kind = "text"      -> TextField(name, def, w.default)
    [] w.kind = "password"  -> PasswordField(name)
    [] w.kind = "text_area" -> TextArea(name, def, w.default)
    [] w.kind = "checkbox"  -> Checkbox(name, def, w.default)
    [] w.kind = "radio"     -> Radio(name, w.value, def, w.default)
    [] w.kind = "drop_down" -> DropDown(name, w.options, def, w.default)
    [] w.kind = "hidden_hrec"    -> HiddenHrec(name, def)
    [] w.kind = "textfield_hrec" -> TextfieldHrec(name, def, FALSE)
    [] w.kind = "textarea_hrec"  -> TextareaHrec(name, def)
    [] w.kind = "checkbox_hrec"  -> CheckboxHrec(name, w.value, def = w.value)
    [] w.kind = "radio_hrec"     -> RadioHrec(name, w.value, def = w.value)
    [] w.kind = "list_hrec"      -> ListHrec(name, SetSelected(Offered(w.options), def))

Rendered(cache, request) ==
  Browse([i \in DOMAIN fields |->
            Widget(fields[i], GetFormField(cache, request, MyField(Form, fields[i].field)))])

\* has_rank
HasRank(minrank) == minrank = 0 \/ (rank # 0 /\ rank >= minrank)

\* The checks that add an error.
Failing(cache, request) ==
  {i \in Checked :
     LET name == MyField(Form, Checks[i].field) IN
     ~Holds(Checks[i], HasFormField(cache, request, name), GetFormField(cache, request, name))}

(* Mutant: the row is in the cache before the checks. *)
HandlePrefilled(request) ==
  LET cache == DbToForm(NoFields, request) IN
  /\ front' = request
  /\ IF request # NoFields /\ Failing(cache, request) = {}
     THEN /\ row' = [f \in FieldNames |-> GetFormField(cache, request, MyField(Form, f))]
          /\ page' = <<>> /\ stored' = <<rank>>
     ELSE /\ page' = Rendered(cache, request)
          /\ stored' = <<>>
          /\ UNCHANGED row

\* A form that is opened shows the row; one that failed shows what was posted, before the
\* row if db_to_form is called then too.
Caches(request) == {DbToForm(NoFields, request)} \cup (IF request = NoFields THEN {} ELSE {NoFields})

\* A handler behind its t_assert_rank: the form, or what was posted checked and stored.
Handle(request) ==
  /\ front' = request
  /\ IF request # NoFields /\ Failing(NoFields, request) = {}
     THEN /\ row' = [f \in FieldNames |-> GetFormField(NoFields, request, MyField(Form, f))]
          /\ page' = <<>> /\ stored' = <<rank>>
     ELSE /\ \E cache \in Caches(request) : page' = Rendered(cache, request)
          /\ stored' = <<>>
          /\ UNCHANGED row

\* t_assert_rank redirects and throws.
Guarded(request) ==
  /\ IF HasRank(MinRank) THEN Handle(request)
     ELSE front' = request /\ page' = <<>> /\ stored' = <<>> /\ UNCHANGED row
  /\ rendered' = page'
  /\ UNCHANGED <<fields, rank>>

-----------------------------------------------------------------------------
FormPagesInit ==
  /\ fields = <<>> /\ row = NoFields /\ rank = 0
  /\ front = NoFields /\ page = <<>> /\ rendered = <<>> /\ stored = <<>>

\* The form there is, and the row it is about.
ChooseForm ==
  /\ fields = <<>>
  /\ fields' \in Layouts
  /\ row' \in [FieldNames' -> Typed]
  /\ UNCHANGED <<rank, front, page, rendered, stored>>

OpenForm == fields # <<>> /\ Guarded(NoFields)

Submit == page # <<>> /\ Guarded(PostedBy(page))

\* The user changes one control; pushing a radio button lets the others of its name go.
EditControl(i) ==
  /\ page' \in
       CASE page[i].type \in {"text", "password"} ->
              {[page EXCEPT ![i].value = v] : v \in Typed}
         [] page[i].type = "select" ->
              {[page EXCEPT ![i].value = v] : v \in ToSet(fields[i].options)}
         [] page[i].type = "checkbox" -> {[page EXCEPT ![i].on = ~@]}
         [] page[i].type = "radio" ->
              {[j \in DOMAIN page |->
                  IF page[j].name = page[i].name THEN [page[j] EXCEPT !.on = j = i] ELSE page[j]]}
         [] OTHER -> {}
  /\ UNCHANGED <<fields, row, rank, front, rendered, stored>>

\* The session ends, or another one begins.
RankChanges == rank' \in Ranks \ {rank} /\ UNCHANGED <<fields, row, front, page, rendered, stored>>

FormPagesNext ==
  \/ ChooseForm \/ OpenForm \/ Submit \/ RankChanges
  \/ \E i \in DOMAIN page : EditControl(i)

FormPagesSpec == FormPagesInit /\ [][FormPagesNext]_formpagevars

-----------------------------------------------------------------------------
\* The values a widget shows as they are: what is empty gives way to a default, a browser
\* drops the first newline of a text, and nothing is encoded in a textarea_hrec.  Of an
\* empty value a radio button is as it is by default, even the one whose value is empty.
ShownBy(w, value) ==
  CASE w.kind \in {"hidden", "text"} -> value # <<>> \/ w.default = <<>>
    [] w.kind = "text_area" -> IF value = <<>> THEN w.default = <<>> ELSE Head(value) # 10
    [] w.kind = "textarea_hrec" -> ToSet(value) \cap {Amp, Less, 10} = {}
    [] w.kind = "radio" -> value # <<>>
    [] w.kind = "checkbox" -> value = One
    [] w.kind = "checkbox_hrec" -> value = w.value
    [] w.kind = "drop_down" -> Contains(w.options, value) /\ (value # <<>> \/ w.default = <<>>)
    [] w.kind = "list_hrec" -> Contains(w.options, value)
    [] w.kind = "password" -> FALSE
    [] OTHER -> TRUE

\* A field's, if a radio button that is there has it.
Shows(f, value) ==
  \A i \in DOMAIN fields : fields[i].field = f =>
    /\ ShownBy(fields[i], value)
    /\ fields[i].kind \in {"radio", "radio_hrec"} =>
         \E j \in DOMAIN fields :
           fields[j].kind = fields[i].kind /\ fields[j].field = f /\ fields[j].value = value

\* A form that comes back with errors posts again what the user posted, and a form that is
\* opened posts the row, whatever characters are in it, as long as the widgets can show it;
\* what is stored comes from a session of the rank, is what was posted, and passes every
\* check.
FormReturns ==
  /\ page = rendered /\ page # <<>> =>
       \A f \in FieldNames :
         LET name == MyField(Form, f) IN
         /\ name \in DOMAIN front /\ Shows(f, front[name]) =>
              name \in DOMAIN PostedBy(page) /\ PostedBy(page)[name] = front[name]
         /\ front = NoFields /\ Shows(f, row[f]) =>
              name \in DOMAIN PostedBy(page) /\ PostedBy(page)[name] = row[f]
  /\ stored # <<>> =>
       /\ MinRank # 0 => stored[1] >= MinRank
       /\ \A f \in FieldNames : row[f] = IF MyField(Form, f) \in DOMAIN front
                                    THEN front[MyField(Form, f)] ELSE <<>>
       /\ \A i \in Checked : Holds(Checks[i], MyField(Form, Checks[i].field) \in DOMAIN front,
                                         row[Checks[i].field])
=============================================================================
