-------------------------------- MODULE Form --------------------------------
(***************************************************************************)
(* The forms of a page.  What a field holds is kept twice, in the widget   *)
(* that ViewRender makes for it and in its element, which FormControl      *)
(* reads.  A page that is rendered again makes new widgets of the old      *)
(* elements.                                                               *)
(***************************************************************************)
EXTENDS Naturals, Sequences, SequencesExt, FiniteSetsExt

CONSTANTS Pages,      \* pages: the fields of their forms, in order
          Texts,      \* what the user may type
          Special     \* those with characters that Escape changes

Option == [value : STRING, text : BOOLEAN, selected : BOOLEAN]
FieldType == {"text", "textarea", "hidden", "checkbox", "radio", "select", "submit", "image"}
FormField == [type : FieldType, name : STRING, form : Nat, value : STRING, checked : BOOLEAN,
              method : STRING, options : Seq(Option)]

ASSUME FormAssumption == Pages \subseteq Seq(FormField)

VARIABLES fields,     \* the page
          checked,    \* HtmlInputElement::m_checked
          attr,       \* the value attribute, or the text node of a text area
          widget,     \* what is shown: a text, a state or the index of an item
          touched,    \* the toggles with m_touched
          open,       \* the combo boxes that are open
          wanted,     \* what the user wants in each field
          again,      \* the page was rendered a second time
          sent        \* the form that was sent: the button and its data

formVars == <<fields, checked, attr, widget, touched, open, wanted, again, sent>>

None == "none"
Nothing == [button |-> 0, method |-> None, data |-> <<>>]

Field == DOMAIN fields
TypeOf(i) == fields[i].type
Toggles == {"checkbox", "radio"}
Editable == {"text", "textarea"}
Buttons == {"submit", "image"}

\* The radio buttons of a name are one group, whatever form they are in.
Group(i) == {j \in Field : TypeOf(j) = "radio" /\ fields[j].name = fields[i].name}
Grouped(i) == TypeOf(i) = "radio" /\ fields[i].name # None

----------------------------------------------------------------------------
(* Rendering                                                               *)

\* Select::init: an item for each option with a text, and the last selected is shown.
AddItem(items, option) == IF option.text THEN Append(items, option) ELSE items
Items(i) == FoldLeft(AddItem, <<>>, fields[i].options)

SelectedItems(i) == {index \in DOMAIN Items(i) : Items(i)[index].selected}
InitialIndex(i) == IF SelectedItems(i) = {} THEN 1 ELSE Max(SelectedItems(i))

\* A bug: the value of the option before.
PressedBefore(i, index) == fields[i].options[IF index = 1 THEN 1 ELSE index - 1].value

\* Select::pressed: the value is of the option of that number, of all of them.
PressedValue(i, index) == fields[i].options[index].value

\* FormRadio::pressed: one is selected, and the elements are told.
PressRadio(flags, i, group) == [j \in DOMAIN flags |-> IF j \in group THEN j = i ELSE flags[j]]

\* FormRadio::add presses the first of a group and each that is checked.
Added(i) == [at |-> i, grouped |-> Grouped(i), before |-> {j \in Group(i) : j < i}]
AddRadio(flags, r) ==
  IF r.grouped /\ (flags[r.at] \/ r.before = {}) THEN PressRadio(flags, r.at, r.before \cup {r.at}) ELSE flags
Radios(flags) == FoldLeft(AddRadio, flags, [i \in Field |-> Added(i)])

\* ViewRender::renderInput, renderSelect and renderTextArea
Widget(i, flags, values) ==
  CASE Grouped(i) \/ TypeOf(i) = "checkbox" -> flags[i]
    [] TypeOf(i) = "radio" /\ ~Grouped(i) -> FALSE
    [] TypeOf(i) = "select" -> InitialIndex(i)
    [] OTHER -> values[i]

Value(i, values) ==
  IF TypeOf(i) = "select" /\ Items(i) # <<>> THEN PressedValue(i, InitialIndex(i)) ELSE values[i]

Render(flags, values) ==
  /\ checked' = Radios(flags)
  /\ widget' = [i \in Field |-> Widget(i, Radios(flags), values)]
  /\ attr' = [i \in Field |-> Value(i, values)]
  /\ touched' = {} /\ open' = {}

----------------------------------------------------------------------------
(* FormControl::input                                                      *)

Submitted(i, button) ==
  CASE TypeOf(i) = "text" -> fields[i].name # None
    [] TypeOf(i) \in Toggles -> checked[i]
    [] TypeOf(i) = "select" -> attr[i] # None
    [] TypeOf(i) = "image" -> i = button
    [] TypeOf(i) = "submit" -> i = button /\ fields[i].name # None
    [] OTHER -> TypeOf(i) = "hidden"

Escaped(text) == [text |-> text, escaped |-> text \in Special]
Pair(name, value) == <<[name |-> name, value |-> Escaped(value)]>>
Default(i) == IF TypeOf(i) = "checkbox" /\ attr[i] = None THEN "on" ELSE attr[i]
Amp(needed) == IF needed THEN <<"&">> ELSE <<>>
Point == <<[name |-> "x", value |-> Escaped("0")], "&", [name |-> "y", value |-> Escaped("0")]>>

\* appendFormElements: the fields of the form that the button is in.
Inputs(button) == {i \in Field : fields[i].form = fields[button].form}

\* What one field adds.  The text of a text area is not escaped, and asks for no & behind it.
Silent == [data |-> <<>>, asks |-> FALSE]
AreaText(i) == <<[name |-> fields[i].name, value |-> [text |-> attr[i], escaped |-> FALSE]]>>
Where(i) == IF TypeOf(i) = "image" THEN Point \o <<"&">> ELSE <<>>
Contribution(i, button) ==
  IF i \notin Inputs(button) THEN Silent
  ELSE IF TypeOf(i) = "textarea" THEN [data |-> AreaText(i), asks |-> FALSE]
  ELSE IF Submitted(i, button) THEN [data |-> Where(i) \o Pair(fields[i].name, Default(i)), asks |-> TRUE]
  ELSE Silent

AddPart(acc, part) ==
  IF part.data = <<>> THEN acc
  ELSE [data |-> acc.data \o Amp(acc.needAmp) \o part.data, needAmp |-> acc.needAmp \/ part.asks]

Together(parts) == FoldLeft(AddPart, [data |-> <<>>, needAmp |-> FALSE], parts).data
ProcessedData(button) == Together([i \in Field |-> Contribution(i, button)])

----------------------------------------------------------------------------
(* Actions                                                                 *)

\* A page is shown as its elements say.
RawChecked == [i \in Field |-> fields[i].checked]
RawAttr == [i \in Field |-> fields[i].value]

FormInit ==
  /\ fields \in Pages
  /\ checked = Radios(RawChecked)
  /\ attr = [i \in Field |-> Value(i, RawAttr)]
  /\ widget = [i \in Field |-> Widget(i, Radios(RawChecked), RawAttr)]
  /\ touched = {} /\ open = {}
  /\ wanted = widget /\ again = FALSE /\ sent = Nothing

Shown == sent = Nothing

\* The images of the page have been loaded.
RenderAgain ==
  /\ Shown /\ ~again /\ again' = TRUE
  /\ Render(checked, attr)
  /\ UNCHANGED <<fields, wanted, sent>>

\* ToggleButton and ComboBox::stylusDownFirst: every child is told.
StylusDown ==
  \E i \in Field :
    /\ Shown
    /\ touched' = IF TypeOf(i) \in Toggles THEN touched \cup {i} ELSE touched
    /\ open' = IF TypeOf(i) = "select" THEN {i} \ open ELSE {}
    /\ UNCHANGED <<fields, checked, attr, widget, wanted, again, sent>>

\* ToggleButton::stylusDown: the stylus has left it.
StylusLeaves ==
  /\ Shown /\ touched # {}
  /\ \E i \in Field : touched' = touched \cap {i}
  /\ UNCHANGED <<fields, checked, attr, widget, open, wanted, again, sent>>

ToggleButton(i) ==
  CASE TypeOf(i) = "checkbox" ->
         /\ widget' = [widget EXCEPT ![i] = ~@] /\ wanted' = [wanted EXCEPT ![i] = ~@]
         /\ checked' = [checked EXCEPT ![i] = ~widget[i]]
    [] Grouped(i) ->
         /\ widget' = PressRadio(widget, i, Group(i)) /\ checked' = PressRadio(checked, i, Group(i))
         /\ wanted' = PressRadio(wanted, i, {j \in Group(i) : fields[j].form = fields[i].form})
    [] OTHER ->        \* a radio button without a name has no listener
         /\ widget' = [widget EXCEPT ![i] = ~@] /\ wanted' = [wanted EXCEPT ![i] = ~@]
         /\ UNCHANGED checked

\* ToggleButton::stylusUp
StylusUp ==
  \E i \in touched :
    /\ Shown
    /\ ToggleButton(i)
    /\ touched' = touched \ {i}
    /\ UNCHANGED <<fields, attr, open, again, sent>>

\* ComboBox::pressed: an item of the list that is open.
Choose ==
  \E i \in open : \E index \in DOMAIN Items(i) :
    /\ Shown
    /\ widget' = [widget EXCEPT ![i] = index] /\ wanted' = [wanted EXCEPT ![i] = index]
    /\ attr' = [attr EXCEPT ![i] = PressedValue(i, index)]
    /\ open' = open \ {i}
    /\ UNCHANGED <<fields, checked, touched, again, sent>>

\* The keyboard has been closed: InputText and FormTextArea::setText.
Type ==
  \E i \in Field : \E text \in Texts :
    /\ Shown /\ TypeOf(i) \in Editable
    /\ widget' = [widget EXCEPT ![i] = text] /\ wanted' = [wanted EXCEPT ![i] = text]
    /\ attr' = [attr EXCEPT ![i] = text]
    /\ UNCHANGED <<fields, checked, touched, open, again, sent>>

\* FormControl::input, which sends nothing outside a form.
Submit ==
  \E i \in Field :
    /\ Shown /\ TypeOf(i) \in Buttons /\ fields[i].form # 0
    /\ sent' = [button |-> i, method |-> fields[i].method, data |-> ProcessedData(i)]
    /\ UNCHANGED <<fields, checked, attr, widget, touched, open, wanted, again>>

FormNext == RenderAgain \/ StylusDown \/ StylusLeaves \/ StylusUp \/ Choose \/ Type \/ Submit

FormSpec == FormInit /\ [][FormNext]_formVars

----------------------------------------------------------------------------
(* Properties                                                              *)

\* What a server should be told of a field.
Told(i, button) ==
  IF i \notin Inputs(button) \/ fields[i].name = None \/ (TypeOf(i) \in Buttons /\ i # button) THEN <<>>
  ELSE CASE TypeOf(i) \in Toggles -> IF ~wanted[i] THEN <<>> ELSE
                                       Pair(fields[i].name, IF fields[i].value = None THEN "on" ELSE fields[i].value)
         [] TypeOf(i) = "select" -> Pair(fields[i].name, Items(i)[wanted[i]].value)
         [] TypeOf(i) = "image" -> Point \o <<"&">> \o Pair(fields[i].name, wanted[i])
         [] OTHER -> Pair(fields[i].name, wanted[i])

JoinPart(data, part) == IF data = <<>> \/ part = <<>> THEN data \o part ELSE data \o <<"&">> \o part
Joined(parts) == FoldLeft(JoinPart, <<>>, parts)

\* Where form and server do not agree: of what has no name only the text fields
\* are left out, and the pressed submit button; the data of a text area runs
\* into the next field, and is not escaped; a list forgets the choice when the
\* page is rendered again; an option without text counts for the value and not
\* for the item, and one without value is not sent; a radio button without a name
\* is shown as selected and not sent, one with it is of every form, and one
\* without a value is sent with an empty one, not with "on" as a check box is.
FaithfulName(i) == fields[i].name # None \/ TypeOf(i) \in {"text", "submit"}
FaithfulArea(i) == attr[i] \notin Special /\ (\A j \in Field : j > i => fields[j].form # fields[i].form)
FaithfulList(i) == ~again /\ fields[i].options # <<>> /\ \A o \in ToSet(fields[i].options) : o.text /\ o.value # None
FaithfulRadio(i) == fields[i].value # None /\ \A j \in Group(i) : fields[j].form = fields[i].form

Faithful(i) == FaithfulName(i) /\
  CASE TypeOf(i) = "textarea" -> FaithfulArea(i)
    [] TypeOf(i) = "select" -> FaithfulList(i)
    [] TypeOf(i) = "radio" -> FaithfulRadio(i)
    [] OTHER -> TRUE

\* A form sends what the user has filled in.
FormIsSent ==
  (sent.button # 0 /\ \A i \in Inputs(sent.button) : Faithful(i)) =>
     sent.data = Joined([i \in Field |-> Told(i, sent.button)])
=============================================================================
