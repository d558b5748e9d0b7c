------------------------------- MODULE Widgets -------------------------------
(***************************************************************************)
(* The widgets a page is made of: those of turbo's forms                   *)
(* (turbo/widgets.cpp) and those of templates (rec/html.cpp), and the      *)
(* checks of what comes back (turbo/validators.cpp).                       *)
(* Text is a sequence of character codes.                                  *)
(*                                                                         *)
(* A widget is a record of the parts of its tag that carry data, as they   *)
(* stand in the page.  The browser is external.                            *)
(***************************************************************************)
EXTENDS HttpText

EmptyText == <<>>

\* form::my_field, check_form::my_field: form[field], or field for a form with no name.
MyField(form, field) == IF form = "" THEN <<field>> ELSE <<form, field>>

Input(type, name, value, checked) ==
  [tag |-> "input", type |-> type, name |-> name, value |-> value, checked |-> checked]
Area(name, body) == [tag |-> "textarea", type |-> "text", name |-> name, value |-> body]
Option(value, selected) == [value |-> value, selected |-> selected]
Select(name, options) ==
  [tag |-> "select", type |-> "select", name |-> name, options |-> options]

-----------------------------------------------------------------------------
(* wexus::turbo::form.  def is my_get_form_field's answer.                 *)

\* An empty value counts as none.
Shown(def, default) == IF def = <<>> THEN default ELSE def

HiddenValue(name, def, default) ==
  Input("hidden", name, QuoteEncode(Shown(def, default)), FALSE)
TextField(name, def, default) == Input("text", name, QuoteEncode(Shown(def, default)), FALSE)
PasswordField(name) == Input("password", name, EmptyText, FALSE)
SubmitButton(desc, name) == Input("submit", name, QuoteEncode(desc), FALSE)
TextArea(name, def, default) == Area(name, QuoteEncode(Shown(def, default)))

Zero == <<48>>
One == <<49>>
Checkbox(name, def, default) ==
  Input("checkbox", name, One, IF def = <<>> THEN default ELSE def # Zero)

Radio(name, val, def, default) ==
  Input("radio", name, QuoteEncode(val), IF def = <<>> THEN default ELSE def = val)

\* drop_down with its options in a row.
DropDown(name, options, def, default) ==
  LET selval == Shown(def, default) IN
  Select(name, [i \in DOMAIN options |-> Option(QuoteEncode(options[i]), options[i] = selval)])

\* param, their operator + and target: the address of a handler with its options.
Param(name, value) == name \o <<Equals>> \o UrlEncode(value, FALSE)
BothParams(p, q) == p \o <<Amp>> \o q
Target(url, options) == IF options = <<>> THEN url ELSE url \o <<63>> \o options

\* link_to, button_to
LinkTo(desc, url) == [tag |-> "a", href |-> url, body |-> QuoteEncode(desc)]
ButtonTo(desc, url) ==
  [tag |-> "form", action |-> url, button |-> SubmitButton(desc, <<>>)]

-----------------------------------------------------------------------------
(* wexus::rec's widgets.  A template takes them whole or between begin and *)
(* end puts in attributes of its own.                                      *)

FormHrec(action, method, hiddens) ==
  [tag |-> "form", action |-> QuoteEncode(action),
   method |-> IF method = "fileupload" THEN "post" ELSE method,
   enctype |-> method = "fileupload", hiddens |-> hiddens]

HiddenHrec(name, value) == Input("hidden", name, QuoteEncode(value), FALSE)

\* form_hrec::add_hidden
AddHidden(form, name, value) == [form EXCEPT !.hiddens = Append(@, HiddenHrec(name, value))]

ButtonHrec(type, desc) == Input(type, <<>>, QuoteEncode(desc), FALSE)
CheckboxHrec(name, val, checked) == Input("checkbox", name, QuoteEncode(val), checked)
ImageHrec(url) == [tag |-> "img", src |-> QuoteEncode(url)]
LinkHrec(url, desc) == [tag |-> "a", href |-> QuoteEncode(url), body |-> QuoteEncode(desc)]
RadioHrec(name, val, checked) == Input("radio", name, QuoteEncode(val), checked)
TextfieldHrec(name, def, password) ==
  Input(IF password THEN "password" ELSE "text", name, QuoteEncode(def), FALSE)

\* html_tag_encode leaves the text of a textarea as it is.
TextareaHrec(name, def) == Area(name, def)

\* list_hrec, its options as they are given, and set_selected, which leaves the others.
ListHrec(name, options) ==
  Select(name, [i \in DOMAIN options |-> Option(QuoteEncode(options[i].value),
                                                options[i].selected)])
AddOption(options, value, selected) == Append(options, Option(value, selected))
SetSelected(options, val) ==
  [i \in DOMAIN options |-> IF options[i].value = val THEN Option(val, TRUE) ELSE options[i]]

-----------------------------------------------------------------------------
(* The browser: what it makes of a widget, what of the page it posts.      *)

AfterNewline(body) == IF body # <<>> /\ Head(body) = 10 THEN Tail(body) ELSE body

\* The option a drop-down shows: the last that is selected, or the first.
OptionShown(w) ==
  LET selected == {i \in DOMAIN w.options : w.options[i].selected} IN
  QuoteDecode(w.options[IF selected = {} THEN 1 ELSE Max(selected)].value)

Control(w) ==
  [type |-> w.type, name |-> w.name,
   value |-> CASE w.tag = "select" -> OptionShown(w)
               [] w.tag = "textarea" -> AfterNewline(QuoteDecode(w.value))
               [] w.tag = "input" -> QuoteDecode(w.value),
   on |-> w.type \in {"checkbox", "radio"} => w.checked]

\* Of the radio buttons of a name the last that is checked stays so.
Browse(widgets) ==
  LET page == [i \in DOMAIN widgets |-> Control(widgets[i])] IN
  [i \in DOMAIN page |->
     [page[i] EXCEPT !.on = @ /\ ~\E j \in i + 1 .. Len(page) :
        page[i].type = "radio" /\ page[j].type = "radio" /\ page[j].name = page[i].name
          /\ page[j].on]]

PostedBy(page) ==
  LET on == {i \in DOMAIN page : page[i].on} IN
  [name \in {page[i].name : i \in on} |->
     page[CHOOSE i \in on : page[i].name = name].value]

-----------------------------------------------------------------------------
(* check_form's is_ functions of a field's value.                          *)

Lower == 97 .. 122
Blank == 9 .. 13 \cup {Space}
IsInteger(s) == s # <<>> /\ ToSet(s) \subseteq Digits  \* string_to_int, unsigned
IsMinLength(s, n) == Len(s) >= n
IsMaxLength(s, n) == Len(s) <= n
IsUsername(s) == s # <<>> /\ ToSet(s) \subseteq Alnum
IsPassword(s) == Len(s) >= 4 /\ Len(s) <= 20
IsEmail(s) ==
  /\ ToSet(s) \cap Blank = {}
  /\ \E at \in 2 .. Len(s), dot \in 3 .. Len(s) :
       /\ s[at] = 64 /\ s[dot] = 46 /\ at + 1 < dot
       /\ Len(s) - dot \in 2 .. 5
       /\ \A i \in dot + 1 .. Len(s) : s[i] \in (65 .. 90) \cup Lower

\* A check of a field that the request has or has not, with its argument.
Holds(check, has, s) ==
  CASE check.kind = "notnull"   -> has
    [] check.kind = "notempty"  -> s # <<>>
    [] check.kind = "integer"   -> IsInteger(s)
    [] check.kind = "minlength" -> IsMinLength(s, check.n)
    [] check.kind = "maxlength" -> IsMaxLength(s, check.n)
    [] check.kind = "email"     -> IsEmail(s)
    [] check.kind = "username"  -> IsUsername(s)
    [] check.kind = "password"  -> IsPassword(s)
=============================================================================
